----------------------------- MODULE TokenStore -----------------------------
(***************************************************************************)
(* TokenStore (crates/harness-plugins/src/mcp/oauth.rs): one JSON file     *)
(* that maps every MCP server to its OAuth token.  It is written by the    *)
(* turn tasks of the server process, which run on several threads, and by  *)
(* the `auth` command, a process of its own; nothing locks it.             *)
(*                                                                         *)
(* A token is the number of its refresh token.  A map gives every server   *)
(* its token, 0 if there is none; bytes that do not parse read as the      *)
(* empty map.  put suspends between its file operations.                   *)
(***************************************************************************)
EXTENDS Integers

CONSTANTS Servers, Writers

VARIABLES file,       \* the map at the store's path
          tmp,        \* the map at <path>.json.tmp
          tmpExists,
          put,        \* the put of every writer
          stored,     \* history: servers with a token in the file
          overlapped  \* history: were two puts under way at once?

storeVars == <<file, tmp, tmpExists, put, stored, overlapped>>

\* A token without a refresh token.
NoRefresh == -1
Empty == [s \in Servers |-> 0]

NoPut == [at |-> "none", server |-> CHOOSE s \in Servers : TRUE, map |-> Empty]

StoreInit ==
  /\ tmp = Empty /\ tmpExists = FALSE
  /\ put = [w \in Writers |-> NoPut]
  /\ stored = {s \in Servers : file[s] # 0}
  /\ overlapped = FALSE

Get(s) == file[s]

Active(w) == put[w].at \in {"write", "rename"}

\* (Slip) The map is built from the new token alone.
BeginPutAlone(w, s, token) ==
  /\ put[w].at = "none"
  /\ put' = [put EXCEPT ![w] = [at |-> "write", server |-> s, map |-> [Empty EXCEPT ![s] = token]]]
  /\ overlapped' = (overlapped \/ \E v \in Writers : Active(v))
  /\ UNCHANGED <<file, tmp, tmpExists, stored>>

\* load_all and insert.
BeginPut(w, s, token) ==
  /\ put[w].at = "none"
  /\ put' = [put EXCEPT ![w] = [at |-> "write", server |-> s, map |-> [file EXCEPT ![s] = token]]]
  /\ overlapped' = (overlapped \/ \E v \in Writers : Active(v))
  /\ UNCHANGED <<file, tmp, tmpExists, stored>>

\* Two puts that write the temporary file at once may leave bytes that do not parse.
Write(w) ==
  /\ put[w].at = "write"
  /\ \/ tmp' = put[w].map
     \/ tmp' = Empty /\ \E v \in Writers \ {w} : Active(v)
  /\ tmpExists' = TRUE
  /\ put' = [put EXCEPT ![w].at = "rename"]
  /\ UNCHANGED <<file, stored, overlapped>>

\* chmod and rename fail when another put has renamed the temporary file.
Rename(w) ==
  /\ put[w].at = "rename"
  /\ IF tmpExists
     THEN /\ file' = tmp
          /\ tmp' = Empty /\ tmpExists' = FALSE
          /\ put' = [put EXCEPT ![w].at = "ok"]
          /\ stored' = stored \cup {put[w].server}
     ELSE /\ put' = [put EXCEPT ![w].at = "failed"]
          /\ UNCHANGED <<file, tmp, tmpExists, stored>>
  /\ UNCHANGED overlapped

\* The directory or the write fails.
PutFails(w) ==
  /\ put[w].at = "write"
  /\ put' = [put EXCEPT ![w].at = "failed"]
  /\ UNCHANGED <<file, tmp, tmpExists, stored, overlapped>>

\* The caller goes on with the result, or its process is killed.
EndPut(w) ==
  /\ put' = [put EXCEPT ![w] = NoPut]
  /\ UNCHANGED <<file, tmp, tmpExists, stored, overlapped>>

StoreStep(w) == Write(w) \/ Rename(w) \/ PutFails(w)

=============================================================================
