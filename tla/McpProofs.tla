------------------------------ MODULE McpProofs ------------------------------
(***************************************************************************)
(* What holds of Mcp for any servers, turns, logins and numbers of tokens. *)
(***************************************************************************)
EXTENDS Mcp, TLAPS

(* The places at which a call holds the write lock. *)
Held == {"post", "init", "note", "repost"}

CallType ==
  [at : {"idle", "context", "refresh", "storing", "lock", "done"} \cup Held, server : Servers,
   token : Int, first : BOOLEAN, executed : Nat, posts : Nat, refreshes : Nat]
PutType ==
  [at : {"none", "write", "rename", "ok", "failed"}, server : Servers, map : [Servers -> Int]]

TypeOK ==
  /\ file \in [Servers -> Int] /\ tmp \in [Servers -> Int]
  /\ tmpExists \in BOOLEAN /\ overlapped \in BOOLEAN
  /\ put \in [Writers -> PutType]
  /\ call \in [Callers -> CallType]
  /\ login \in [Logins -> {"idle", "discover", "redirect", "exchange", "storing", "done"}]
  /\ valid \in [Servers -> SUBSET Int]
  /\ issued \in Nat

-----------------------------------------------------------------------------
(* What a call may have spent, at every place: a tools/call request and its *)
(* repetition after a 404 in each of its two attempts, a refresh in each.   *)
Again(p) == IF p.first THEN 0 ELSE 1

Counted(p) ==
  /\ p.executed = 0 \/ (p.at = "done" /\ p.executed = 1)
  /\ p.refreshes <= Again(p) + (IF p.at \in {"idle", "context"} THEN 0 ELSE 1)
  /\ p.posts <= 2 * Again(p) + (IF p.at \in {"post", "init", "note"} THEN 1
                                ELSE IF p.at = "repost" THEN 2 ELSE 0)
  /\ p.at = "idle" => p.first

AllCounted == \A c \in Callers : Counted(call[c])

-----------------------------------------------------------------------------
(* A call is at a place of Held while it holds the lock. *)
LockHeld == \A c \in Callers : holder = c <=> call[c].at \in Held

(* No call begins before the server listens, and a server is listed only    *)
(* once its turn is over.                                                   *)
Booting ==
  /\ boot.at # "listening" => \A c \in Callers : call[c].at = "idle"
  /\ boot \in [at : {"next", "listening", "stalled", "probe", "init", "list", "reinit", "relist"},
               done : 0..Len(Configured)]
  /\ boot.at \in {"probe", "init", "list", "reinit", "relist"} => boot.done < Len(Configured)
  /\ \A s \in listed : \E i \in 1..boot.done : s = Configured[i]

(* A listed server without its session is one whose re-initialization came  *)
(* to nothing, or is under way.                                             *)
SessionOrInit ==
  \A s \in Sessions \cap listed :
    s \in session \cup cut \/ \E c \in Callers : At(c, "init") /\ ServerOf(c) = s

-----------------------------------------------------------------------------
(* A put belongs to the call or login that waits for it. *)
PutsOwned ==
  /\ \A c \in Callers : /\ At(c, "storing") <=> put[c].at # "none"
                        /\ At(c, "storing") => put[c].server = ServerOf(c)
  /\ \A l \in Logins : /\ login[l] = "storing" <=> put[l].at # "none"
                       /\ login[l] = "storing" => put[l].server = LoginTarget(l)

(* A rotation that is not in the file yet, or never comes there. *)
Pending(s) ==
  \E c \in Callers : put[c].at \in {"write", "rename", "failed"} /\ put[c].server = s

(* Servers whose token was lost or revoked, and the tokens that may stand   *)
(* in the file for a server.                                                *)
Lost == mishap \cup reused
Standing(s) == valid[s] \cup {NoRefresh}

TokenGood ==
  \A s \in stored : overlapped \/ s \in Lost \/ Pending(s) \/ file[s] \in Standing(s)

(* Unless two puts ever overlapped, the one under way is alone, writes what *)
(* is in the file with a good token for its server, and owns the temporary  *)
(* file once it has written it.                                             *)
Replaces(p) ==
  /\ p.server \in Lost \/ p.map[p.server] \in Standing(p.server)
  /\ \A s \in Servers \ {p.server} : p.map[s] = file[s]
  /\ p.at = "rename" => tmpExists /\ tmp = p.map

PutAlone ==
  ~overlapped =>
    \A w \in Writers : Active(w) => /\ \A v \in Writers : Active(v) => v = w
                                    /\ Replaces(put[w])

-----------------------------------------------------------------------------
(* A call's own record: what becomes of it in every step. *)
LEMMA EndedTyped ==
  ASSUME NEW c \in Callers, call[c] \in CallType
  PROVE  /\ NoCall(c) \in CallType /\ Ended(c) \in CallType
         /\ Ended(c).at = "done" /\ Ended(c).first /\ Ended(c).posts = 0 /\ Ended(c).refreshes = 0
         /\ Ended(c).executed = call[c].executed
<1>1. (CHOOSE s \in Servers : TRUE) \in Servers
  BY McpAssumption
<1>2. NoCall(c) \in CallType
  BY <1>1 DEF NoCall, CallType
<1>3. call[c].executed \in Nat
  BY DEF CallType
<1>4. Ended(c) = [NoCall(c) EXCEPT !.at = "done", !.executed = call[c].executed]
  BY DEF Ended
<1>5. NoCall(c).first /\ NoCall(c).posts = 0 /\ NoCall(c).refreshes = 0
  BY DEF NoCall
<1> HIDE DEF NoCall
<1> QED BY <1>2, <1>3, <1>4, <1>5 DEF CallType

(* The record of call c after its step, and what it may have spent. *)
Becomes(c, q) == call' = [call EXCEPT ![c] = q] /\ q \in CallType /\ (Counted(call[c]) => Counted(q))

LEMMA CallMoves ==
  ASSUME TypeOK, NEW c \in Callers, Call(c)
  PROVE  \E q : Becomes(c, q)
<1> DEFINE p == call[c]
<1>1. p \in CallType /\ call \in [Callers -> CallType]
  BY DEF TypeOK
<1>2. ASSUME NEW q \in CallType, call' = [call EXCEPT ![c] = q], Counted(p) => Counted(q)
      PROVE  \E r : Becomes(c, r)
  BY <1>2 DEF Becomes
<1>3. /\ Ended(c) \in CallType
      /\ Counted(p) => Counted(Ended(c))
  BY <1>1, EndedTyped DEF Counted, Again, CallType
<1>4. CASE Return(c)
  BY <1>2, <1>3, <1>4 DEF Return
<1>5. \A s \in Servers : Get(s) \in Int
  BY DEF Get, TypeOK
<1>6. CASE \E s \in Target(c) : Unknown(c, s)
  BY <1>4, <1>6 DEF Unknown
<1>7. CASE \E s \in Target(c) : Dispatch(c, s)
  <2>1. PICK s \in Target(c) : Dispatch(c, s)
    BY <1>7
  <2>2. PICK next \in {"lock", "done", "context"} :
          call' = [call EXCEPT ![c].at = next, ![c].server = s,
                               ![c].token = IF next = "context" THEN Get(s) ELSE 0]
    BY <2>1 DEF Dispatch
  <2> DEFINE q == [p EXCEPT !.at = next, !.server = s,
                            !.token = IF next = "context" THEN Get(s) ELSE 0]
  <2>3. call' = [call EXCEPT ![c] = q]
    BY <2>2, <1>1
  <2>4. s \in Servers /\ p.at = "idle"
    BY <2>1, McpAssumption DEF Dispatch, At
  <2>5. q \in CallType
    <3>1. (IF next = "context" THEN Get(s) ELSE 0) \in Int
      BY <1>5, <2>4
    <3> QED BY <1>1, <2>2, <2>4, <3>1 DEF CallType, Held
  <2>6. Counted(p) => Counted(q)
    BY <1>1, <2>2, <2>4 DEF Counted, Again, CallType
  <2> QED BY <1>2, <2>3, <2>5, <2>6
<1>8. CASE ReadContext(c)
  <2>1. CASE \E place \in {"refresh"} : call' = [call EXCEPT ![c].at = place, ![c].refreshes = @ + 1]
    <3>1. PICK place \in {"refresh"} : call' = [call EXCEPT ![c].at = place, ![c].refreshes = @ + 1]
      BY <2>1
    <3> DEFINE q == [p EXCEPT !.at = place, !.refreshes = @ + 1]
    <3>2. call' = [call EXCEPT ![c] = q]
      BY <1>1, <3>1
    <3>3. p.at = "context"
      BY <1>8 DEF ReadContext, At
    <3>4. q \in CallType
      BY <1>1, <3>1 DEF CallType, Held
    <3>5. Counted(p) => Counted(q)
      BY <1>1, <3>1, <3>3 DEF Counted, Again, CallType
    <3> QED BY <1>2, <3>2, <3>4, <3>5
  <2> QED BY <1>4, <1>8, <2>1 DEF ReadContext
<1>9. CASE \E place \in {"storing", "init", "note"} :
             /\ Goto(c, place)
             /\ p.at = (IF place = "storing" THEN "refresh" ELSE IF place = "init" THEN "post" ELSE "init")
  <2>1. PICK place \in {"storing", "init", "note"} :
             /\ Goto(c, place)
             /\ p.at = (IF place = "storing" THEN "refresh" ELSE IF place = "init" THEN "post" ELSE "init")
    BY <1>9
  <2> DEFINE q == [p EXCEPT !.at = place]
  <2>2. call' = [call EXCEPT ![c] = q]
    BY <1>1, <2>1 DEF Goto
  <2>3. q \in CallType
    BY <1>1, <2>1 DEF CallType, Held
  <2>4. Counted(p) => Counted(q)
    BY <1>1, <2>1 DEF Counted, Again, CallType
  <2> QED BY <1>2, <2>2, <2>3, <2>4
<1>10. CASE Refresh(c)
  BY <1>4, <1>9, <1>10
     DEF Refresh, Refreshed, RefreshedWithoutToken, RefreshRefused, RefreshLost, Accepted, At
<1>11. CASE Stored(c)
  <2>1. CASE \E place \in {"lock"}, t \in {0} : call' = [call EXCEPT ![c].at = place, ![c].token = t]
    <3>1. PICK place \in {"lock"}, t \in {0} :
            call' = [call EXCEPT ![c].at = place, ![c].token = t]
      BY <2>1
    <3> DEFINE q == [p EXCEPT !.at = place, !.token = t]
    <3>2. call' = [call EXCEPT ![c] = q]
      BY <1>1, <3>1
    <3>3. p.at = "storing"
      BY <1>11 DEF Stored, At
    <3>4. q \in CallType
      <4> DEFINE r == [p EXCEPT !.at = place]
      <4>1. t \in Int
        BY <3>1
      <4>2. r \in CallType
        BY <1>1, <3>1 DEF CallType, Held
      <4>3. q = [r EXCEPT !.token = t]
        OBVIOUS
      <4> HIDE DEF r, q
      <4> QED BY <4>1, <4>2, <4>3 DEF CallType
    <3>5. Counted(p) => Counted(q)
      BY <1>1, <3>1, <3>3 DEF Counted, Again, CallType
    <3> QED BY <1>2, <3>2, <3>4, <3>5
  <2> QED BY <1>4, <1>11, <2>1 DEF Stored
<1>12. CASE \E place \in {"post", "repost"} :
              /\ call' = [call EXCEPT ![c].at = place, ![c].posts = @ + 1]
              /\ p.at = (IF place = "post" THEN "lock" ELSE "note")
  <2>1. PICK place \in {"post", "repost"} :
              /\ call' = [call EXCEPT ![c].at = place, ![c].posts = @ + 1]
              /\ p.at = (IF place = "post" THEN "lock" ELSE "note")
    BY <1>12
  <2> DEFINE q == [p EXCEPT !.at = place, !.posts = @ + 1]
  <2>2. call' = [call EXCEPT ![c] = q]
    BY <1>1, <2>1
  <2>3. q \in CallType
    BY <1>1, <2>1 DEF CallType, Held
  <2>4. Counted(p) => Counted(q)
    BY <1>1, <2>1 DEF Counted, Again, CallType
  <2> QED BY <1>2, <2>2, <2>3, <2>4
<1>13. CASE Lock(c) \/ Notified(c)
  BY <1>12, <1>13 DEF Lock, Notified, At
<1>14. CASE Posting(c) /\ Executes(c)
  <2> DEFINE q == [Ended(c) EXCEPT !.executed = @ + 1]
  <2>1. call' = [call EXCEPT ![c] = q] /\ p.at \in {"post", "repost"}
    BY <1>14 DEF Executes, Posting
  <2>2. q \in CallType
    BY <1>3 DEF CallType
  <2>3. Counted(p) => Counted(q)
    BY <1>1, <2>1, EndedTyped DEF Counted, Again, CallType
  <2> QED BY <1>2, <2>1, <2>2, <2>3
<1>15. CASE Unauthorized(c)
  <2>1. CASE /\ p.first
             /\ call' = [call EXCEPT ![c].at = "context", ![c].first = FALSE,
                                     ![c].token = Get(ServerOf(c))]
    <3> DEFINE q == [p EXCEPT !.at = "context", !.first = FALSE, !.token = Get(ServerOf(c))]
    <3>1. call' = [call EXCEPT ![c] = q]
      BY <2>1, <1>1
    <3>2. p.at \in {"post", "repost", "init"} /\ p.server \in Servers
      BY <1>1, <1>15 DEF Unauthorized, Posting, At, CallType
    <3>3. q \in CallType
      BY <1>1, <1>5, <3>2 DEF CallType, ServerOf
    <3>4. Counted(p) => Counted(q)
      BY <1>1, <2>1, <3>2 DEF Counted, Again, CallType
    <3> QED BY <1>2, <3>1, <3>3, <3>4
  <2> QED BY <1>4, <1>15, <2>1 DEF Unauthorized
<1>16. CASE Expired(c)
  BY <1>4, <1>9, <1>16 DEF Expired, At
<1>17. CASE Result(c) \/ RequestFails(c) \/ Initialized(c) \/ InitializeFails(c)
  BY <1>4, <1>9, <1>14, <1>17 DEF Result, RequestFails, Initialized, InitializeFails, At
<1>18. CASE TimesOut(c) \/ Aborts(c)
  BY <1>4, <1>18 DEF TimesOut, Aborts, Stop
<1> QED BY <1>6, <1>7, <1>8, <1>10, <1>11, <1>13, <1>15, <1>16, <1>17, <1>18 DEF Call, Rpc

(* The same of all calls. *)
LEMMA CallsAfter ==
  ASSUME TypeOK, AllCounted, NEW c \in Callers, Call(c)
  PROVE  /\ call' \in [Callers -> CallType] /\ AllCounted'
         /\ \A d \in Callers \ {c} : call'[d] = call[d]
<1>1. PICK q : Becomes(c, q)
  BY CallMoves
<1>2. call \in [Callers -> CallType]
  BY DEF TypeOK
<1>3. call' \in [Callers -> CallType] /\ call'[c] = q /\ \A d \in Callers \ {c} : call'[d] = call[d]
  BY <1>1, <1>2 DEF Becomes
<1>4. AllCounted'
  BY <1>1, <1>3 DEF AllCounted, Becomes
<1> QED BY <1>3, <1>4

(* All other steps leave the calls and their lock alone. *)
Other ==
  \/ Warm \/ WarmStalls \/ Over
  \/ \E l \in Logins : Login(l)
  \/ \E w \in Writers : Store(w)
  \/ UNCHANGED vars

LEMMA OtherCalls == ASSUME Other PROVE UNCHANGED callVars
<1> USE DEF callVars
<1>1. CASE Warm \/ WarmStalls
  BY <1>1 DEF Warm, WarmStalls, WarmNext, WarmDiscovers, WarmInitializes, WarmExpired, WarmLists,
              WarmFails, WarmStep
<1>2. CASE Over \/ UNCHANGED vars
  BY <1>2 DEF Over, vars
<1>3. CASE \E l \in Logins : Login(l)
  BY <1>3 DEF Login, LoginBegins, LoginAsks, LoginRedirected, LoginExchanges, LoginStored,
              LoginFails, LoginKilled, LoginStep
<1>4. CASE \E w \in Writers : Store(w)
  BY <1>4 DEF Store
<1> QED BY <1>1, <1>2, <1>3, <1>4 DEF Other

LEMMA Steps == [Next]_vars => Other \/ \E c \in Callers : Call(c)
BY DEF Next, Other

-----------------------------------------------------------------------------
(* Type correctness of the store. *)
StoreTyped ==
  /\ file \in [Servers -> Int] /\ tmp \in [Servers -> Int]
  /\ tmpExists \in BOOLEAN /\ overlapped \in BOOLEAN
  /\ put \in [Writers -> PutType]

LEMMA BeginPutTyped ==
  ASSUME StoreTyped, NEW w \in Writers, NEW s \in Servers, NEW token \in Int, BeginPut(w, s, token)
  PROVE  /\ StoreTyped'
         /\ put'[w].at = "write" /\ put'[w].server = s
         /\ put'[w].map = [file EXCEPT ![s] = token]
         /\ \A v \in Writers \ {w} : put'[v] = put[v]
<1> DEFINE q == [at |-> "write", server |-> s, map |-> [file EXCEPT ![s] = token]]
<1>1. [file EXCEPT ![s] = token] \in [Servers -> Int]
  BY DEF StoreTyped
<1>2. q \in PutType
  BY <1>1 DEF PutType
<1>3. put' = [put EXCEPT ![w] = q]
  BY DEF BeginPut
<1>4. q.at = "write" /\ q.server = s /\ q.map = [file EXCEPT ![s] = token]
  OBVIOUS
<1> HIDE DEF q
<1>5. put' \in [Writers -> PutType] /\ put'[w] = q /\ \A v \in Writers \ {w} : put'[v] = put[v]
  BY <1>2, <1>3 DEF StoreTyped
<1>6. overlapped' \in BOOLEAN /\ UNCHANGED <<file, tmp, tmpExists>>
  BY DEF BeginPut
<1> QED BY <1>4, <1>5, <1>6 DEF StoreTyped

LEMMA EndPutTyped ==
  ASSUME StoreTyped, NEW w \in Writers, EndPut(w)
  PROVE  /\ StoreTyped' /\ put'[w].at = "none"
         /\ \A v \in Writers \ {w} : put'[v] = put[v]
<1>1. (CHOOSE s \in Servers : TRUE) \in Servers /\ Empty \in [Servers -> Int]
  BY McpAssumption DEF Empty
<1>2. NoPut \in PutType /\ NoPut.at = "none"
  BY <1>1 DEF NoPut, PutType
<1> HIDE DEF NoPut
<1>3. put' = [put EXCEPT ![w] = NoPut] /\ UNCHANGED <<file, tmp, tmpExists, overlapped>>
  BY DEF EndPut
<1> QED BY <1>2, <1>3 DEF StoreTyped

(* A step of a put changes its place, and the file only at the rename. *)
LEMMA StoreStepTyped ==
  ASSUME StoreTyped, NEW w \in Writers, StoreStep(w)
  PROVE  /\ StoreTyped' /\ overlapped' = overlapped /\ put[w].at \in {"write", "rename"}
         /\ put'[w].at \in {"rename", "ok", "failed"}
         /\ put'[w].server = put[w].server /\ put'[w].map = put[w].map
         /\ \A v \in Writers \ {w} : put'[v] = put[v]
<1>1. PICK at \in {"rename", "ok", "failed"} : put' = [put EXCEPT ![w].at = at]
  BY DEF StoreStep, Write, Rename, PutFails
<1>2. put[w] \in PutType
  BY DEF StoreTyped
<1> DEFINE q == [put[w] EXCEPT !.at = at]
<1>3. q \in PutType /\ q.at = at /\ q.server = put[w].server /\ q.map = put[w].map
  BY <1>1, <1>2 DEF PutType
<1>4. put' = [put EXCEPT ![w] = q]
  BY <1>1
<1> HIDE DEF q
<1>5. put' \in [Writers -> PutType] /\ put'[w] = q /\ \A v \in Writers \ {w} : put'[v] = put[v]
  BY <1>3, <1>4 DEF StoreTyped
<1>6. Empty \in [Servers -> Int] /\ put[w].map \in [Servers -> Int]
  BY <1>2 DEF Empty, PutType
<1>7. /\ file' \in [Servers -> Int] /\ tmp' \in [Servers -> Int] /\ tmpExists' \in BOOLEAN
      /\ overlapped' = overlapped /\ put[w].at \in {"write", "rename"}
  BY <1>6 DEF StoreStep, Write, Rename, PutFails, StoreTyped
<1> QED BY <1>1, <1>3, <1>5, <1>7 DEF StoreTyped

(* What becomes of the authorization servers' tokens. *)
AuthTyped == valid \in [Servers -> SUBSET Int] /\ issued \in Nat
LoginTyped ==
  login \in [Logins -> {"idle", "discover", "redirect", "exchange", "storing", "done"}]

(* A call is at one of these with the store; all its other steps leave it. *)
StoreCall(c) == Refreshed(c) \/ RefreshedWithoutToken(c) \/ Stored(c)
AuthCall(c) == RefreshRefused(c) \/ RefreshLost(c)
NetCall(c) ==
  \/ \E s \in Target(c) : Unknown(c, s) \/ Dispatch(c, s)
  \/ ReadContext(c) \/ Lock(c) \/ Rpc(c) \/ TimesOut(c) \/ Aborts(c)

LEMMA CallKinds == ASSUME NEW c, Call(c) PROVE StoreCall(c) \/ AuthCall(c) \/ NetCall(c)
BY DEF Call, Refresh, StoreCall, AuthCall, NetCall

LEMMA NetCallQuiet ==
  ASSUME NEW c, NetCall(c)
  PROVE  UNCHANGED <<storeVars, authVars, boot, listed, login>>
<1> USE DEF CallStep, RpcStep
<1>1. CASE \E s \in Target(c) : Unknown(c, s) \/ Dispatch(c, s)
  BY <1>1 DEF Unknown, Dispatch
<1>2. CASE ReadContext(c)
  BY <1>2 DEF ReadContext
<1>3. CASE Lock(c)
  BY <1>3 DEF Lock
<1>4. CASE Rpc(c)
  BY <1>4 DEF Rpc, Result, RequestFails, Unauthorized, Expired, Initialized, InitializeFails, Notified
<1>5. CASE TimesOut(c) \/ Aborts(c)
  BY <1>5 DEF TimesOut, Aborts, Stop
<1> QED BY <1>1, <1>2, <1>3, <1>4, <1>5 DEF NetCall

LEMMA RotateTyped ==
  ASSUME AuthTyped, NEW s \in Servers, NEW token, Rotate(s, token)
  PROVE  /\ AuthTyped' /\ issued' = issued + 1 /\ issued + 1 \in Int
         /\ valid'[s] = (valid[s] \ {token}) \cup {issued + 1}
         /\ \A r \in Servers \ {s} : valid'[r] = valid[r]
<1>1. valid[s] \in SUBSET Int /\ issued + 1 \in Int
  BY DEF AuthTyped
<1>2. (valid[s] \ {token}) \cup {issued + 1} \in SUBSET Int
  BY <1>1
<1> QED BY <1>1, <1>2 DEF Rotate, AuthTyped

LEMMA ServerTyped == ASSUME TypeOK, NEW c \in Callers PROVE ServerOf(c) \in Servers
BY DEF TypeOK, ServerOf, CallType

LEMMA TypedParts == TypeOK <=> /\ StoreTyped /\ AuthTyped /\ LoginTyped
                               /\ call \in [Callers -> CallType]
BY DEF TypeOK, StoreTyped, AuthTyped, LoginTyped

LEMMA TypedStep ==
  ASSUME TypeOK, AllCounted, [Next]_vars
  PROVE  TypeOK' /\ AllCounted'
<1>1. StoreTyped /\ AuthTyped /\ LoginTyped /\ call \in [Callers -> CallType]
  BY TypedParts
<1>2. \A w : w \in Callers \cup Logins => w \in Writers
  BY McpAssumption
<1>3. ASSUME UNCHANGED storeVars PROVE StoreTyped'
  BY <1>1, <1>3 DEF storeVars, StoreTyped
<1>4. ASSUME NEW c \in Callers, Call(c) PROVE TypeOK' /\ AllCounted'
  <2>1. call' \in [Callers -> CallType] /\ AllCounted'
    BY <1>4, CallsAfter
  <2>2. ServerOf(c) \in Servers /\ c \in Writers
    BY <1>2, ServerTyped
  <2>3. CASE NetCall(c)
    <3>1. UNCHANGED <<storeVars, authVars, login>>
      BY <2>3, NetCallQuiet
    <3>2. AuthTyped' /\ LoginTyped'
      BY <1>1, <3>1 DEF authVars, AuthTyped, LoginTyped
    <3> QED BY <1>3, <2>1, <3>1, <3>2, TypedParts DEF TypeOK, StoreTyped, AuthTyped, LoginTyped
  <2>4. CASE AuthCall(c)
    <3>1. UNCHANGED storeVars /\ LoginTyped'
      BY <1>1, <2>4 DEF AuthCall, RefreshRefused, RefreshLost, CallStep, LoginTyped
    <3>2. ASSUME RefreshRefused(c) PROVE AuthTyped'
      BY <1>1, <2>2, <3>2 DEF RefreshRefused, AuthTyped
    <3>3. ASSUME RefreshLost(c) PROVE AuthTyped'
      BY <1>1, <2>2, <3>3, RotateTyped DEF RefreshLost, authVars, AuthTyped
    <3>4. AuthTyped'
      BY <2>4, <3>2, <3>3 DEF AuthCall
    <3> QED BY <1>3, <2>1, <3>1, <3>4 DEF TypeOK, StoreTyped, AuthTyped, LoginTyped
  <2>5. CASE StoreCall(c)
    <3>1. LoginTyped'
      BY <1>1, <2>5 DEF StoreCall, Refreshed, RefreshedWithoutToken, Stored, CallStep, LoginTyped
    <3>2. ASSUME Refreshed(c) PROVE StoreTyped' /\ AuthTyped'
      <4>1. Rotate(ServerOf(c), call[c].token) /\ BeginPut(c, ServerOf(c), issued + 1)
        BY <3>2 DEF Refreshed
      <4> QED BY <1>1, <2>2, <4>1, RotateTyped, BeginPutTyped
    <3>3. ASSUME RefreshedWithoutToken(c) PROVE StoreTyped' /\ AuthTyped'
      <4>1. BeginPut(c, ServerOf(c), NoRefresh) /\ UNCHANGED <<valid, issued>> /\ NoRefresh \in Int
        BY <3>3 DEF RefreshedWithoutToken, NoRefresh, authVars
      <4>2. StoreTyped'
        BY <1>1, <2>2, <4>1, BeginPutTyped
      <4> QED BY <1>1, <4>1, <4>2 DEF AuthTyped
    <3>4. ASSUME Stored(c) PROVE StoreTyped' /\ AuthTyped'
      <4>1. EndPut(c) /\ UNCHANGED <<valid, issued>>
        BY <3>4 DEF Stored
      <4>2. StoreTyped'
        BY <1>1, <2>2, <4>1, EndPutTyped
      <4> QED BY <1>1, <4>1, <4>2 DEF AuthTyped
    <3>5. StoreTyped' /\ AuthTyped'
      BY <2>5, <3>2, <3>3, <3>4 DEF StoreCall
    <3> QED BY <2>1, <3>1, <3>5 DEF TypeOK, StoreTyped, AuthTyped, LoginTyped
  <2> QED BY <1>4, <2>3, <2>4, <2>5, CallKinds
<1>5. ASSUME Other PROVE TypeOK' /\ AllCounted'
  <2>1. UNCHANGED callVars
    BY <1>5, OtherCalls
  <2>2. call' \in [Callers -> CallType] /\ AllCounted'
    BY <1>1, <2>1 DEF callVars, AllCounted
  <2>3. CASE Warm \/ WarmStalls
    <3>1. UNCHANGED <<storeVars, login, authVars>>
      BY <2>3 DEF Warm, WarmStalls, WarmNext, WarmDiscovers, WarmInitializes, WarmExpired,
                  WarmLists, WarmFails, WarmStep
    <3>2. AuthTyped' /\ LoginTyped'
      BY <1>1, <3>1 DEF authVars, AuthTyped, LoginTyped
    <3> QED BY <1>3, <2>2, <3>1, <3>2 DEF TypeOK, StoreTyped, AuthTyped, LoginTyped
  <2>4. CASE Over \/ UNCHANGED vars
    <3>1. UNCHANGED <<storeVars, login, authVars>>
      BY <2>4 DEF Over, vars
    <3>2. AuthTyped' /\ LoginTyped'
      BY <1>1, <3>1 DEF authVars, AuthTyped, LoginTyped
    <3> QED BY <1>3, <2>2, <3>1, <3>2 DEF TypeOK, StoreTyped, AuthTyped, LoginTyped
  <2>5. ASSUME NEW w \in Writers, Store(w) PROVE TypeOK'
    <3>1. StoreStep(w) /\ UNCHANGED <<login, authVars>>
      BY <2>5 DEF Store
    <3>2. StoreTyped'
      BY <1>1, <3>1, StoreStepTyped
    <3>3. AuthTyped' /\ LoginTyped'
      BY <1>1, <3>1 DEF authVars, AuthTyped, LoginTyped
    <3> QED BY <2>2, <3>2, <3>3 DEF TypeOK, StoreTyped, AuthTyped, LoginTyped
  <2>6. ASSUME NEW l \in Logins, Login(l) PROVE TypeOK'
    <3>1. LoginTyped'
      BY <1>1, <2>6 DEF Login, LoginBegins, LoginAsks, LoginRedirected, LoginExchanges, LoginStored,
                        LoginFails, LoginKilled, LoginGoto, LoginTyped
    <3>2. LoginTarget(l) \in Servers /\ l \in Writers
      BY <1>2, McpAssumption
    <3>3. CASE LoginExchanges(l)
      <4>1. /\ BeginPut(l, LoginTarget(l), issued + 1) /\ issued' = issued + 1
            /\ valid' = [valid EXCEPT ![LoginTarget(l)] = @ \cup {issued + 1}]
        BY <3>3 DEF LoginExchanges
      <4>2. issued + 1 \in Int /\ issued' \in Nat
        BY <1>1, <4>1 DEF AuthTyped
      <4>3. StoreTyped'
        BY <1>1, <3>2, <4>1, <4>2, BeginPutTyped
      <4>4. valid[LoginTarget(l)] \cup {issued + 1} \in SUBSET Int
        BY <1>1, <3>2, <4>2 DEF AuthTyped
      <4>5. AuthTyped'
        BY <1>1, <3>2, <4>1, <4>2, <4>4 DEF AuthTyped
      <4> QED BY <2>2, <3>1, <4>3, <4>5 DEF TypeOK, StoreTyped, AuthTyped, LoginTyped
    <3>4. CASE LoginStored(l) \/ LoginKilled(l)
      <4>1. EndPut(l) /\ UNCHANGED <<valid, issued>>
        BY <3>4 DEF LoginStored, LoginKilled
      <4>2. StoreTyped'
        BY <1>1, <3>2, <4>1, EndPutTyped
      <4> QED BY <1>1, <2>2, <3>1, <4>1, <4>2 DEF TypeOK, StoreTyped, AuthTyped, LoginTyped
    <3>5. CASE LoginBegins(l) \/ LoginAsks(l) \/ LoginRedirected(l) \/ LoginFails(l)
      <4>1. UNCHANGED <<storeVars, valid, issued>>
        BY <3>5 DEF LoginBegins, LoginAsks, LoginRedirected, LoginFails
      <4> QED BY <1>1, <1>3, <2>2, <3>1, <4>1 DEF TypeOK, StoreTyped, AuthTyped, LoginTyped
    <3> QED BY <2>6, <3>3, <3>4, <3>5 DEF Login
  <2> QED BY <1>5, <2>2, <2>3, <2>4, <2>5, <2>6 DEF Other
<1> QED BY <1>4, <1>5, Steps

LEMMA InitTyped == Init => TypeOK /\ AllCounted
<1> SUFFICES ASSUME Init PROVE TypeOK /\ AllCounted
  OBVIOUS
<1>1. (CHOOSE s \in Servers : TRUE) \in Servers /\ Empty \in [Servers -> Int]
  BY McpAssumption DEF Empty
<1>2. NoPut \in PutType
  BY <1>1 DEF NoPut, PutType
<1>3. \A c \in Callers : NoCall(c) \in CallType /\ Counted(NoCall(c))
  BY <1>1 DEF NoCall, CallType, Counted, Again
<1>4. /\ file \in [Servers -> Int] /\ valid \in [Servers -> SUBSET Int] /\ issued \in Nat
      /\ login \in [Logins -> {"idle"}]
  BY DEF Init
<1>5. put \in [Writers -> PutType] /\ tmp = Empty /\ tmpExists = FALSE /\ overlapped = FALSE
  BY <1>2 DEF Init, StoreInit
<1>6. call \in [Callers -> CallType] /\ \A c \in Callers : Counted(call[c])
  BY <1>3 DEF Init
<1> QED BY <1>1, <1>4, <1>5, <1>6 DEF TypeOK, AllCounted

LEMMA Typed == Spec => [](TypeOK /\ AllCounted)
<1>1. (TypeOK /\ AllCounted) /\ [Next]_vars => (TypeOK /\ AllCounted)'
  BY TypedStep
<1> QED BY InitTyped, <1>1, PTL DEF Spec

(* However 401, 404, refreshes and lost answers follow each other, no call  *)
(* is executed twice, sends more than four tools/call requests or asks for  *)
(* more than two tokens.                                                    *)
THEOREM CallsAreBounded == Spec => []OncePerCall
<1>1. TypeOK /\ AllCounted => OncePerCall
  <2> SUFFICES ASSUME TypeOK, AllCounted, NEW c \in Callers
               PROVE  call[c].executed <= 1 /\ call[c].posts <= 4 /\ call[c].refreshes <= 2
    BY DEF OncePerCall
  <2>1. call[c] \in CallType /\ Counted(call[c])
    BY DEF TypeOK, AllCounted
  <2> QED BY <2>1 DEF Counted, Again, CallType
<1> QED BY Typed, <1>1, PTL

-----------------------------------------------------------------------------
(* Where a step leaves call c and the lock. *)
LEMMA PlaceAfter ==
  ASSUME TypeOK, NEW c \in Callers
  PROVE  /\ \A place : Goto(c, place) => call'[c].at = place /\ call'[c].server = ServerOf(c)
         /\ Return(c) => call'[c].at = "done"
         /\ Executes(c) => call'[c].at = "done"
         /\ \A place : call' = [call EXCEPT ![c].at = place, ![c].posts = @ + 1]
               => call'[c].at = place /\ call'[c].server = ServerOf(c)
<1>1. call \in [Callers -> CallType] /\ call[c] \in CallType
  BY DEF TypeOK
<1>2. ASSUME NEW place, Goto(c, place)
      PROVE  call'[c].at = place /\ call'[c].server = ServerOf(c)
  BY <1>1, <1>2 DEF Goto, CallType, ServerOf
<1>3. Ended(c) \in CallType /\ Ended(c).at = "done"
  BY <1>1, EndedTyped
<1>4. ASSUME Return(c) PROVE call'[c].at = "done"
  BY <1>1, <1>3, <1>4 DEF Return
<1>5. ASSUME Executes(c) PROVE call'[c].at = "done"
  <2>1. call' = [call EXCEPT ![c] = [Ended(c) EXCEPT !.executed = @ + 1]]
    BY <1>5 DEF Executes
  <2> QED BY <1>1, <1>3, <2>1 DEF CallType
<1>6. ASSUME NEW place, call' = [call EXCEPT ![c].at = place, ![c].posts = @ + 1]
      PROVE  call'[c].at = place /\ call'[c].server = ServerOf(c)
  BY <1>1, <1>6 DEF CallType, ServerOf
<1> QED BY <1>2, <1>4, <1>5, <1>6

(* The lock is taken free and given back by its holder; a call ends its     *)
(* re-initialization with a session or in `cut`, which only a new session   *)
(* takes a server out of.                                                   *)
LockMoves(c) ==
  /\ call'[c].at \in Held <=> holder' = c
  /\ holder' = holder \/ (holder = c /\ holder' = Nobody) \/ (holder = Nobody /\ holder' = c)

SessionMoves(c) ==
  /\ \A s \in Sessions : s \in cut => s \in session' \cup cut'
  /\ \A s : s \in session /\ s \notin session' =>
        s = ServerOf(c) /\ (s \in cut' \/ (call'[c].at = "init" /\ call'[c].server = s))
  /\ At(c, "init") /\ ServerOf(c) \in Sessions => ServerOf(c) \in session' \cup cut'

LEMMA CallLocks ==
  ASSUME TypeOK, LockHeld, NEW c \in Callers, Call(c)
  PROVE  LockMoves(c) /\ SessionMoves(c)
<1> DEFINE Goal == LockMoves(c) /\ SessionMoves(c)
<1>1. /\ call \in [Callers -> CallType] /\ call[c] \in CallType
      /\ holder = c <=> call[c].at \in Held
      /\ c # Nobody
  BY McpAssumption DEF TypeOK, LockHeld
<1>2. /\ \A place : Goto(c, place) => call'[c].at = place /\ call'[c].server = ServerOf(c)
      /\ Return(c) => call'[c].at = "done"
      /\ Executes(c) => call'[c].at = "done"
      /\ \A place : call' = [call EXCEPT ![c].at = place, ![c].posts = @ + 1]
            => call'[c].at = place /\ call'[c].server = ServerOf(c)
  BY PlaceAfter
<1>3. ASSUME UNCHANGED <<holder, sessionVars>>, call'[c].at \notin Held, call[c].at \notin Held
      PROVE  Goal
  BY <1>1, <1>3 DEF LockMoves, SessionMoves, sessionVars, At, Held
<1>4. CASE \E s \in Target(c) : Unknown(c, s)
  BY <1>2, <1>3, <1>4 DEF Unknown, At, Held
<1>5. CASE \E s \in Target(c) : Dispatch(c, s)
  <2>1. PICK s \in Target(c) : Dispatch(c, s)
    BY <1>5
  <2>2. call'[c].at \in {"lock", "done", "context"}
    BY <2>1, <1>1 DEF Dispatch, CallType
  <2>3. UNCHANGED <<holder, sessionVars>> /\ call[c].at = "idle"
    BY <2>1 DEF Dispatch, At
  <2> QED BY <1>3, <2>2, <2>3 DEF Held
<1>6. CASE ReadContext(c)
  <2>1. call'[c].at \in {"done", "refresh"}
    BY <1>6, <1>1, <1>2 DEF ReadContext, CallType
  <2>2. UNCHANGED <<holder, sessionVars>> /\ call[c].at = "context"
    BY <1>6 DEF ReadContext, At
  <2> QED BY <1>3, <2>1, <2>2 DEF Held
<1>7. CASE Refresh(c)
  <2>1. call'[c].at \in {"done", "storing"}
    BY <1>7, <1>2 DEF Refresh, Refreshed, RefreshedWithoutToken, RefreshRefused, RefreshLost
  <2>2. UNCHANGED <<holder, sessionVars>> /\ call[c].at = "refresh"
    BY <1>7 DEF Refresh, Refreshed, RefreshedWithoutToken, RefreshRefused, RefreshLost, Accepted, At
  <2> QED BY <1>3, <2>1, <2>2 DEF Held
<1>8. CASE Stored(c)
  <2>1. call'[c].at \in {"done", "lock"}
    BY <1>8, <1>1, <1>2 DEF Stored, CallType
  <2>2. UNCHANGED <<holder, sessionVars>> /\ call[c].at = "storing"
    BY <1>8 DEF Stored, At
  <2> QED BY <1>3, <2>1, <2>2 DEF Held
<1>9. CASE Lock(c)
  <2>1. /\ call'[c].at = "post" /\ holder = Nobody /\ holder' = c /\ call[c].at = "lock"
        /\ UNCHANGED <<session, cut>>
    BY <1>9, <1>2 DEF Lock, At
  <2> QED BY <2>1 DEF LockMoves, SessionMoves, At, Held
<1>10. CASE Result(c) \/ RequestFails(c)
  <2>1. /\ call'[c].at = "done" /\ holder' = Nobody /\ call[c].at \in {"post", "repost"}
        /\ UNCHANGED <<session, cut>>
    BY <1>10, <1>2 DEF Result, RequestFails, Posting
  <2> QED BY <1>1, <2>1 DEF LockMoves, SessionMoves, At, Held
<1>11. CASE Unauthorized(c)
  <2>1. call'[c].at \in {"done", "context"}
    BY <1>11, <1>1, <1>2 DEF Unauthorized, CallType
  <2>2. /\ holder' = Nobody /\ call[c].at \in {"post", "repost", "init"}
        /\ cut' = IF At(c, "init") THEN cut \cup {ServerOf(c)} ELSE cut
        /\ UNCHANGED session
    BY <1>11 DEF Unauthorized, Posting, At
  <2> QED BY <1>1, <2>1, <2>2 DEF LockMoves, SessionMoves, At, Held
<1>12. CASE Expired(c)
  <2>1. call[c].at \in {"post", "repost"} /\ session' = session \ {ServerOf(c)}
    BY <1>12 DEF Expired, Posting, NoSession
  <2>2. \/ call'[c].at = "init" /\ call'[c].server = ServerOf(c) /\ UNCHANGED <<holder, cut>>
        \/ call'[c].at = "done" /\ holder' = Nobody /\ cut' = cut \cup {ServerOf(c)}
    BY <1>12, <1>2 DEF Expired
  <2> QED BY <1>1, <2>1, <2>2 DEF LockMoves, SessionMoves, At, Held
<1>13. CASE Initialized(c)
  <2>1. /\ call[c].at = "init" /\ session' = session \cup ({ServerOf(c)} \cap Sessions)
        /\ call'[c].at = "note" /\ UNCHANGED holder /\ cut' = cut \ {ServerOf(c)}
    BY <1>13, <1>2 DEF Initialized, NewSession, At
  <2> QED BY <1>1, <2>1 DEF LockMoves, SessionMoves, At, Held
<1>14. CASE InitializeFails(c)
  <2>1. /\ call[c].at = "init" /\ session \subseteq session' /\ call'[c].at = "done"
        /\ holder' = Nobody /\ cut' = cut \cup {ServerOf(c)}
    BY <1>14, <1>2 DEF InitializeFails, NewSession, At
  <2> QED BY <1>1, <2>1 DEF LockMoves, SessionMoves, At, Held
<1>15. CASE Notified(c)
  <2>1. call[c].at = "note" /\ call'[c].at = "repost" /\ UNCHANGED holder
    BY <1>15, <1>2 DEF Notified, At
  <2>2. \/ UNCHANGED <<session, cut>>
        \/ session' = session \ {ServerOf(c)} /\ cut' = cut \cup {ServerOf(c)}
    BY <1>15 DEF Notified, NoSession
  <2> QED BY <1>1, <2>1, <2>2 DEF LockMoves, SessionMoves, At, Held
<1>16. CASE TimesOut(c) \/ Aborts(c)
  <2>1. /\ call'[c].at = "done" /\ holder' = (IF holder = c THEN Nobody ELSE holder)
        /\ session \subseteq session'
        /\ cut' = IF At(c, "init") THEN cut \cup {ServerOf(c)} ELSE cut
    BY <1>16, <1>2 DEF TimesOut, Aborts, Stop, NewSession
  <2>2. session' = session \/ At(c, "init")
    BY <1>16 DEF TimesOut, Aborts, Stop
  <2> QED BY <1>1, <2>1, <2>2 DEF LockMoves, SessionMoves, At, Held
<1> QED BY <1>4, <1>5, <1>6, <1>7, <1>8, <1>9, <1>10, <1>11, <1>12, <1>13, <1>14, <1>15, <1>16
        DEF Call, Rpc

LEMMA LockStep ==
  ASSUME TypeOK, AllCounted, LockHeld, [Next]_vars
  PROVE  LockHeld'
<1>1. ASSUME NEW c \in Callers, Call(c) PROVE LockHeld'
  <2>1. LockMoves(c) /\ \A d \in Callers \ {c} : call'[d] = call[d]
    BY <1>1, CallLocks, CallsAfter
  <2>2. \A d \in Callers : d # Nobody
    BY McpAssumption
  <2> QED BY <2>1, <2>2 DEF LockMoves, LockHeld
<1>2. ASSUME Other PROVE LockHeld'
  BY <1>2, OtherCalls DEF callVars, LockHeld
<1> QED BY <1>1, <1>2, Steps

-----------------------------------------------------------------------------
(* Booting and the sessions. *)
Boots == Warm \/ WarmStalls

(* Logins, the store, Over and stuttering. *)
Aside == Other /\ ~Boots

LEMMA AsideQuiet == ASSUME Aside PROVE UNCHANGED <<boot, listed, sessionVars>>
<1>1. CASE \E l \in Logins : Login(l)
  BY <1>1 DEF Login, LoginBegins, LoginAsks, LoginRedirected, LoginExchanges, LoginStored,
              LoginFails, LoginKilled, LoginStep
<1>2. CASE \E w \in Writers : Store(w)
  BY <1>2 DEF Store
<1>3. CASE Over \/ UNCHANGED vars
  BY <1>3 DEF Over, vars
<1> QED BY <1>1, <1>2, <1>3 DEF Aside, Boots, Other

(* One server's turn in warm. *)
LEMMA BootStep ==
  ASSUME TypeOK, Booting, Boots
  PROVE  /\ Booting'
         /\ \A s \in listed' : \/ s \in listed /\ (s \in session => s \in session')
                               \/ s \notin Sessions
                               \/ s \in session'
<1> USE DEF WarmStep, WarmGoto, WarmSkip, Serves, NewSession, NoSession, callVars
<1>1. boot.at # "listening" /\ \A c \in Callers : call'[c].at = "idle"
  BY DEF Boots, Warm, WarmStalls, WarmNext, WarmDiscovers, WarmInitializes, WarmExpired, WarmLists,
         WarmFails, Booting
<1>2. boot.done \in Nat /\ boot.done <= Len(Configured) /\ Len(Configured) \in Nat
  BY McpAssumption DEF Booting
<1>3. \A i \in 1..Len(Configured) : i \in DOMAIN Configured
  BY McpAssumption
<1>unlisted. ASSUME boot.done < Len(Configured) PROVE Warming \notin listed
  <2>1. SUFFICES ASSUME NEW i \in 1..boot.done, Warming = Configured[i] PROVE FALSE
    BY DEF Booting
  <2>2. i \in DOMAIN Configured /\ boot.done + 1 \in DOMAIN Configured
    BY <1>2, <1>3, <1>unlisted
  <2>3. i = boot.done + 1
    BY <2>1, <2>2, McpAssumption DEF Warming
  <2> QED BY <2>3, <1>2
<1>4. CASE WarmNext
  <2>1. /\ boot.at = "next" /\ UNCHANGED <<listed, session, call>>
        /\ \/ boot'.at = "listening" /\ boot'.done = boot.done
           \/ boot.done < Len(Configured) /\ boot'.at \in {"probe", "init"} /\ boot'.done = boot.done
    BY <1>4, <1>2 DEF WarmNext, Booting
  <2>2. boot' = [boot EXCEPT !.at = boot'.at]
    BY <1>4 DEF WarmNext, Booting
  <2>3. boot' \in [at : {"next", "listening", "stalled", "probe", "init", "list", "reinit", "relist"},
                   done : 0..Len(Configured)]
    BY <2>1, <2>2 DEF Booting
  <2> QED BY <2>1, <2>3, <1>1 DEF Booting, Warming
<1>5. CASE WarmDiscovers
  <2>1. /\ boot.at = "probe" /\ UNCHANGED <<listed, session>>
        /\ boot' = [boot EXCEPT !.at = "init"] \/ boot' = [at |-> "next", done |-> boot.done + 1]
    BY <1>5 DEF WarmDiscovers
  <2>2. CASE boot' = [boot EXCEPT !.at = "init"]
    BY <2>1, <2>2, <1>1, <1>2 DEF Booting, Warming
  <2>3. CASE boot' = [at |-> "next", done |-> boot.done + 1]
    BY <2>1, <2>3, <1>1, <1>2 DEF Booting, Warming
  <2> QED BY <2>1, <2>2, <2>3
<1>6. CASE WarmInitializes
  <2>1. /\ boot.at \in {"init", "reinit"} /\ listed' = listed
        /\ boot' = [boot EXCEPT !.at = "list"] \/ boot' = [boot EXCEPT !.at = "relist"]
        /\ \A s \in session : s = Warming \/ s \in session'
    BY <1>6 DEF WarmInitializes
  <2>2. boot.done < Len(Configured)
    BY <2>1 DEF Booting
  <2>3. Warming \notin listed
    BY <2>2, <1>unlisted
  <2>4. Booting'
    BY <2>1, <2>2, <1>1, <1>2 DEF Booting, Warming
  <2> QED BY <2>1, <2>3, <2>4
<1>7. CASE WarmExpired
  <2>1. /\ boot.at = "list" /\ boot' = [boot EXCEPT !.at = "reinit"]
        /\ session' = session \ {Warming} /\ listed' = listed
    BY <1>7 DEF WarmExpired
  <2>2. boot.done < Len(Configured)
    BY <2>1 DEF Booting
  <2>3. Warming \notin listed
    BY <2>2, <1>unlisted
  <2>4. Booting'
    BY <2>1, <2>2, <1>1, <1>2 DEF Booting, Warming
  <2> QED BY <2>1, <2>3, <2>4
<1>8. CASE WarmLists
  BY <1>8, <1>1, <1>2 DEF WarmLists, Booting, Warming
<1>9. CASE WarmFails
  BY <1>9, <1>1, <1>2 DEF WarmFails, Booting, Warming
<1>10. CASE WarmStalls
  BY <1>10, <1>1, <1>2 DEF WarmStalls, Booting, Warming
<1> QED BY <1>4, <1>5, <1>6, <1>7, <1>8, <1>9, <1>10 DEF Boots, Warm

LEMMA SessionStep ==
  ASSUME TypeOK, AllCounted, LockHeld, Booting, SessionOrInit, [Next]_vars
  PROVE  Booting' /\ SessionOrInit'
<1>1. ASSUME Boots PROVE Booting' /\ SessionOrInit'
  <2>1. UNCHANGED callVars /\ UNCHANGED cut
    BY <1>1 DEF Boots, Warm, WarmStalls, WarmNext, WarmDiscovers, WarmInitializes, WarmExpired,
                WarmLists, WarmFails, WarmStep, callVars
  <2>2. /\ Booting'
        /\ \A s \in listed' : \/ s \in listed /\ (s \in session => s \in session')
                              \/ s \notin Sessions
                              \/ s \in session'
    BY <1>1, BootStep
  <2> QED BY <2>1, <2>2 DEF SessionOrInit, callVars, At, ServerOf
<1>2. ASSUME Aside PROVE Booting' /\ SessionOrInit'
  <2>1. UNCHANGED <<boot, listed, sessionVars, callVars>>
    BY <1>2, AsideQuiet, OtherCalls DEF Aside
  <2>2. Booting'
    BY <2>1 DEF Booting, sessionVars, callVars, Warming, Serves
  <2>3. SessionOrInit'
    BY <2>1 DEF SessionOrInit, sessionVars, callVars, At, ServerOf
  <2> QED BY <2>2, <2>3
<1>3. ASSUME NEW c \in Callers, Call(c) PROVE Booting' /\ SessionOrInit'
  <2>1. SessionMoves(c) /\ \A d \in Callers \ {c} : call'[d] = call[d]
    BY <1>3, CallLocks, CallsAfter
  <2>2. UNCHANGED <<boot, listed>>
    BY <1>3, CallKinds, NetCallQuiet DEF StoreCall, AuthCall, Refreshed, RefreshedWithoutToken,
       Stored, RefreshRefused, RefreshLost, CallStep
  <2>3. boot.at = "listening"
    <3>1. CASE boot.at # "listening"
      <4>1. call[c].at = "idle"
        BY <3>1 DEF Booting
      <4>2. \E s \in Target(c) : Unknown(c, s) \/ Dispatch(c, s)
        BY <1>3, <4>1 DEF Call, ReadContext, Refresh, Refreshed, RefreshedWithoutToken,
             RefreshRefused, RefreshLost, Accepted, Stored, Lock, Rpc, Result, RequestFails,
             Unauthorized, Expired, Initialized, InitializeFails, Notified, TimesOut, Aborts,
             Posting, At, LockHeld, Held
      <4> QED BY <4>2 DEF Unknown, Dispatch
    <3> QED BY <3>1
  <2>4. Booting'
    BY <2>2, <2>3 DEF Booting
  <2>5. SessionOrInit'
    <3> SUFFICES ASSUME NEW s \in Sessions \cap listed
                 PROVE  \/ s \in session' \cup cut'
                        \/ \E d \in Callers : call'[d].at = "init" /\ call'[d].server = s
      BY <2>2 DEF SessionOrInit, At, ServerOf
    <3>1. CASE s \in session \cup cut
      BY <2>1, <3>1 DEF SessionMoves
    <3>2. CASE \E d \in Callers : At(d, "init") /\ ServerOf(d) = s
      <4>1. PICK d \in Callers : At(d, "init") /\ ServerOf(d) = s
        BY <3>2
      <4>2. CASE d = c
        BY <2>1, <4>1, <4>2 DEF SessionMoves
      <4>3. CASE d # c
        BY <2>1, <4>1, <4>3 DEF At, ServerOf
      <4> QED BY <4>2, <4>3
    <3> QED BY <3>1, <3>2 DEF SessionOrInit
  <2> QED BY <2>4, <2>5
<1> QED BY <1>1, <1>2, <1>3, Steps DEF Aside

LEMMA InitBooting == Init => LockHeld /\ Booting /\ SessionOrInit
<1> SUFFICES ASSUME Init PROVE LockHeld /\ Booting /\ SessionOrInit
  OBVIOUS
<1>1. holder = Nobody /\ listed = {} /\ boot = [at |-> "next", done |-> 0]
  BY DEF Init
<1>2. \A c \in Callers : call[c].at = "idle"
  BY DEF Init, NoCall
<1>3. Len(Configured) \in Nat /\ 0 \in 0..Len(Configured) /\ \A c \in Callers : c # Nobody
  BY McpAssumption
<1> QED BY <1>1, <1>2, <1>3 DEF LockHeld, Booting, SessionOrInit, Held

(* A server that forgets its session gets a new one before the lock is      *)
(* free for the next call; what is left without one is a server whose       *)
(* handshake failed or was cut off.                                         *)
THEOREM SessionsAreRenewed == Spec => []SessionIsRenewed
<1> DEFINE I == TypeOK /\ AllCounted /\ LockHeld /\ Booting /\ SessionOrInit
<1>1. Init => I
  BY InitTyped, InitBooting
<1>2. I /\ [Next]_vars => I'
  <2> SUFFICES ASSUME I, [Next]_vars PROVE I'
    OBVIOUS
  <2> QED BY TypedStep, LockStep, SessionStep
<1>3. I => SessionIsRenewed
  <2> SUFFICES ASSUME LockHeld, SessionOrInit PROVE SessionIsRenewed
    OBVIOUS
  <2>1. \A c \in Callers : At(c, "init") => holder = c
    BY DEF LockHeld, At, Held
  <2> QED BY <2>1 DEF SessionOrInit, SessionIsRenewed
<1> HIDE DEF I
<1> QED BY <1>1, <1>2, <1>3, PTL DEF Spec

-----------------------------------------------------------------------------
(* Who owns a put. *)
LEMMA NetCallPlaces ==
  ASSUME TypeOK, LockHeld, NEW c \in Callers, NetCall(c)
  PROVE  call[c].at # "storing" /\ call'[c].at # "storing"
<1>1. /\ call \in [Callers -> CallType] /\ call[c] \in CallType
      /\ holder = c <=> call[c].at \in Held
  BY DEF TypeOK, LockHeld
<1>2. /\ \A place : Goto(c, place) => call'[c].at = place /\ call'[c].server = ServerOf(c)
      /\ Return(c) => call'[c].at = "done"
      /\ Executes(c) => call'[c].at = "done"
      /\ \A place : call' = [call EXCEPT ![c].at = place, ![c].posts = @ + 1]
            => call'[c].at = place /\ call'[c].server = ServerOf(c)
  BY PlaceAfter
<1>3. CASE \E s \in Target(c) : Unknown(c, s)
  BY <1>2, <1>3 DEF Unknown, At
<1>4. CASE \E s \in Target(c) : Dispatch(c, s)
  BY <1>1, <1>4 DEF Dispatch, At, CallType
<1>5. CASE ReadContext(c)
  BY <1>1, <1>2, <1>5 DEF ReadContext, At, CallType
<1>6. CASE Lock(c) \/ Notified(c)
  BY <1>2, <1>6 DEF Lock, Notified, At
<1>7. CASE Result(c) \/ RequestFails(c)
  BY <1>2, <1>7 DEF Result, RequestFails, Posting
<1>8. CASE Unauthorized(c)
  BY <1>1, <1>2, <1>8 DEF Unauthorized, Posting, At, CallType
<1>9. CASE Expired(c)
  BY <1>2, <1>9 DEF Expired, Posting
<1>10. CASE Initialized(c) \/ InitializeFails(c)
  BY <1>2, <1>10 DEF Initialized, InitializeFails, At
<1>11. CASE TimesOut(c) \/ Aborts(c)
  BY <1>1, <1>2, <1>11 DEF TimesOut, Aborts, Stop, Held
<1> QED BY <1>3, <1>4, <1>5, <1>6, <1>7, <1>8, <1>9, <1>10, <1>11 DEF NetCall, Rpc

LEMMA StoringPlaces ==
  ASSUME TypeOK, NEW c \in Callers
  PROVE  /\ AuthCall(c) => call[c].at = "refresh" /\ call'[c].at = "done"
         /\ Refreshed(c) \/ RefreshedWithoutToken(c) =>
              call[c].at = "refresh" /\ call'[c].at = "storing" /\ call'[c].server = ServerOf(c)
         /\ Stored(c) => call[c].at = "storing" /\ call'[c].at # "storing"
<1>1. /\ \A place : Goto(c, place) => call'[c].at = place /\ call'[c].server = ServerOf(c)
      /\ Return(c) => call'[c].at = "done"
  BY PlaceAfter
<1>2. AuthCall(c) => call[c].at = "refresh" /\ call'[c].at = "done"
  BY <1>1 DEF AuthCall, RefreshRefused, RefreshLost, At
<1>3. Refreshed(c) \/ RefreshedWithoutToken(c) =>
        call[c].at = "refresh" /\ call'[c].at = "storing" /\ call'[c].server = ServerOf(c)
  BY <1>1 DEF Refreshed, RefreshedWithoutToken, Accepted, At
<1>4. Stored(c) => call[c].at = "storing" /\ call'[c].at # "storing"
  BY <1>1 DEF Stored, At, TypeOK, CallType
<1> QED BY <1>2, <1>3, <1>4

LEMMA OwnedStep ==
  ASSUME TypeOK, AllCounted, LockHeld, PutsOwned, [Next]_vars
  PROVE  PutsOwned'
<1>1. StoreTyped /\ LoginTyped
  BY TypedParts
<1>2. /\ \A c \in Callers : c \in Writers /\ c \notin Logins
      /\ \A l \in Logins : l \in Writers /\ l \notin Callers /\ LoginTarget(l) \in Servers
  BY McpAssumption
<1>3. ASSUME NEW c \in Callers, Call(c) PROVE PutsOwned'
  <2>1. /\ \A d \in Callers \ {c} : call'[d] = call[d]
        /\ ServerOf(c) \in Servers
    BY <1>3, CallsAfter, ServerTyped
  <2>2. UNCHANGED login
    BY <1>3, CallKinds, NetCallQuiet DEF StoreCall, AuthCall, Refreshed, RefreshedWithoutToken,
       Stored, RefreshRefused, RefreshLost, CallStep
  <2>3. CASE NetCall(c)
    BY <2>1, <2>2, <2>3, NetCallQuiet, NetCallPlaces DEF PutsOwned, storeVars, At, ServerOf
  <2>4. CASE AuthCall(c)
    <3>1. UNCHANGED storeVars
      BY <2>4 DEF AuthCall, RefreshRefused, RefreshLost
    <3>2. call[c].at = "refresh" /\ call'[c].at = "done"
      BY <2>4, StoringPlaces
    <3> QED BY <2>1, <2>2, <3>1, <3>2 DEF PutsOwned, storeVars, At, ServerOf
  <2>5. CASE Refreshed(c) \/ RefreshedWithoutToken(c)
    <3>1. PICK token \in Int : BeginPut(c, ServerOf(c), token)
      BY <2>5, TypedParts DEF Refreshed, RefreshedWithoutToken, NoRefresh, AuthTyped
    <3>2. put'[c].at = "write" /\ put'[c].server = ServerOf(c) /\ \A v \in Writers \ {c} : put'[v] = put[v]
      BY <1>1, <1>2, <2>1, <3>1, BeginPutTyped
    <3>3. call'[c].at = "storing" /\ call'[c].server = ServerOf(c)
      BY <2>5, StoringPlaces
    <3> QED BY <1>2, <2>1, <2>2, <3>2, <3>3 DEF PutsOwned, At, ServerOf
  <2>6. CASE Stored(c)
    <3>1. put'[c].at = "none" /\ \A v \in Writers \ {c} : put'[v] = put[v]
      BY <1>1, <1>2, <2>6, EndPutTyped DEF Stored
    <3>2. call'[c].at # "storing"
      BY <2>6, StoringPlaces
    <3> QED BY <1>2, <2>1, <2>2, <3>1, <3>2 DEF PutsOwned, At, ServerOf
  <2> QED BY <1>3, <2>3, <2>4, <2>5, <2>6, CallKinds DEF StoreCall
<1>4. ASSUME NEW l \in Logins, Login(l) PROVE PutsOwned'
  <2>1. UNCHANGED call /\ login' = [login EXCEPT ![l] = login'[l]]
    BY <1>1, <1>4 DEF Login, LoginBegins, LoginAsks, LoginRedirected, LoginExchanges, LoginStored,
        LoginFails, LoginKilled, LoginStep, callVars, LoginGoto, LoginTyped
  <2>2. \A k \in Logins \ {l} : login'[k] = login[k]
    BY <1>1, <2>1 DEF LoginTyped
  <2>3. CASE LoginExchanges(l)
    <3>1. login'[l] = "storing" /\ BeginPut(l, LoginTarget(l), issued + 1) /\ issued + 1 \in Int
      BY <1>1, <2>3, TypedParts DEF LoginExchanges, LoginGoto, LoginTyped, AuthTyped
    <3>2. put'[l].at = "write" /\ put'[l].server = LoginTarget(l) /\ \A v \in Writers \ {l} : put'[v] = put[v]
      BY <1>1, <1>2, <3>1, BeginPutTyped
    <3> QED BY <1>2, <2>1, <2>2, <3>1, <3>2 DEF PutsOwned, At, ServerOf
  <2>4. CASE LoginStored(l) \/ LoginKilled(l)
    <3>1. login'[l] = "done" /\ EndPut(l)
      BY <1>1, <2>4 DEF LoginStored, LoginKilled, LoginGoto, LoginTyped
    <3>2. put'[l].at = "none" /\ \A v \in Writers \ {l} : put'[v] = put[v]
      BY <1>1, <1>2, <3>1, EndPutTyped
    <3> QED BY <1>2, <2>1, <2>2, <3>1, <3>2 DEF PutsOwned, At, ServerOf
  <2>5. CASE LoginBegins(l) \/ LoginAsks(l) \/ LoginRedirected(l) \/ LoginFails(l)
    <3>1. UNCHANGED storeVars /\ login[l] # "storing" /\ login'[l] # "storing"
      BY <1>1, <2>5 DEF LoginBegins, LoginAsks, LoginRedirected, LoginFails, LoginGoto, LoginTyped
    <3> QED BY <2>1, <2>2, <3>1 DEF PutsOwned, storeVars, At, ServerOf
  <2> QED BY <1>4, <2>3, <2>4, <2>5 DEF Login
<1>5. ASSUME NEW w \in Writers, Store(w) PROVE PutsOwned'
  <2>1. StoreStep(w) /\ UNCHANGED <<call, login>>
    BY <1>5 DEF Store, callVars
  <2>2. /\ put[w].at \in {"write", "rename"} /\ put'[w].at \in {"rename", "ok", "failed"}
        /\ put'[w].server = put[w].server /\ \A v \in Writers \ {w} : put'[v] = put[v]
    BY <1>1, <2>1, StoreStepTyped
  <2> QED BY <1>2, <2>1, <2>2 DEF PutsOwned, At, ServerOf
<1>6. ASSUME Boots \/ Over \/ UNCHANGED vars PROVE PutsOwned'
  <2>1. UNCHANGED <<storeVars, call, login>>
    BY <1>6 DEF Boots, Warm, WarmStalls, WarmNext, WarmDiscovers, WarmInitializes, WarmExpired,
                WarmLists, WarmFails, WarmStep, Over, vars, callVars
  <2> QED BY <2>1 DEF PutsOwned, storeVars, At, ServerOf
<1> QED BY <1>3, <1>4, <1>5, <1>6, Steps DEF Other, Boots

-----------------------------------------------------------------------------
(* The books of the token store.  They need not balance for a server in     *)
(* Lost; for the others they do, as long as nothing else is written.        *)
ValidMoves ==
  /\ Lost \subseteq Lost'
  /\ \A s \in Servers : s \in Lost' \/ valid[s] \subseteq valid'[s]

Books == TokenGood /\ PutAlone

LEMMA BooksUnwritten ==
  ASSUME TypeOK, stored \subseteq Servers, Books, ValidMoves, UNCHANGED storeVars
  PROVE  Books'
<1>1. TokenGood'
  BY DEF Books, TokenGood, Pending, ValidMoves, storeVars, Standing
<1>2. PutAlone'
  <2>1. \A w \in Writers : put[w].server \in Servers
    BY DEF TypeOK, PutType
  <2>2. \A w \in Writers : Replaces(put[w]) => Replaces(put[w])'
    BY <2>1 DEF Replaces, ValidMoves, storeVars, Standing
  <2> QED BY <2>2 DEF Books, PutAlone, Active, storeVars
<1> QED BY <1>1, <1>2 DEF Books

(* A put begins with a token that is good, or lost for good. *)
LEMMA PutBegins ==
  ASSUME TypeOK, Books, NEW w \in Writers, NEW s \in Servers, NEW token \in Int,
         BeginPut(w, s, token), s \in Lost' \/ token \in valid'[s] \cup {NoRefresh}
  PROVE  PutAlone'
<1>1. StoreTyped
  BY TypedParts
<1>2. /\ put'[w].at = "write" /\ put'[w].server = s
      /\ put'[w].map = [file EXCEPT ![s] = token]
      /\ \A v \in Writers \ {w} : put'[v] = put[v]
  BY <1>1, BeginPutTyped
<1>3. /\ overlapped' = (overlapped \/ \E v \in Writers : Active(v))
      /\ UNCHANGED <<file, tmp, tmpExists>>
  BY DEF BeginPut
<1>4. SUFFICES ASSUME ~overlapped', NEW v \in Writers, Active(v)'
               PROVE  (\A u \in Writers : Active(u)' => u = v) /\ Replaces(put[v])'
  BY DEF PutAlone
<1>5. \A u \in Writers : Active(u)' => u = w
  BY <1>2, <1>3, <1>4 DEF Active
<1>6. Replaces(put[w])'
  BY <1>1, <1>2, <1>3 DEF Replaces, StoreTyped, Standing
<1> QED BY <1>4, <1>5, <1>6

LEMMA PutEnds ==
  ASSUME TypeOK, Books, NEW w \in Writers, EndPut(w), Lost \subseteq Lost', UNCHANGED valid
  PROVE  PutAlone'
<1>1. /\ put'[w].at = "none" /\ \A v \in Writers \ {w} : put'[v] = put[v]
  BY EndPutTyped, TypedParts
<1>2. UNCHANGED <<file, tmp, tmpExists, overlapped>>
  BY DEF EndPut
<1>3. SUFFICES ASSUME ~overlapped', NEW v \in Writers, Active(v)'
               PROVE  (\A u \in Writers : Active(u)' => u = v) /\ Replaces(put[v])'
  BY DEF PutAlone
<1>4. \A u \in Writers : Active(u)' => u # w /\ Active(u)
  BY <1>1 DEF Active
<1>5. Replaces(put[v]) /\ \A u \in Writers : Active(u) => u = v
  BY <1>2, <1>3, <1>4 DEF Books, PutAlone
<1>6. put'[v] = put[v]
  BY <1>1, <1>3, <1>4
<1> QED BY <1>2, <1>4, <1>5, <1>6 DEF Replaces, Standing

(* A step of the one put that is under way. *)
LEMMA PutProceeds ==
  ASSUME TypeOK, stored \subseteq Servers, Books, NEW w \in Writers, Store(w)
  PROVE  Books'
<1>1. StoreStep(w) /\ UNCHANGED <<valid, Lost>>
  BY DEF Store, authVars, Lost
<1>2. StoreTyped
  BY TypedParts
<1>3. /\ overlapped' = overlapped /\ put[w].at \in {"write", "rename"}
      /\ put'[w].at \in {"rename", "ok", "failed"}
      /\ put'[w].server = put[w].server /\ put'[w].map = put[w].map
      /\ \A v \in Writers \ {w} : put'[v] = put[v]
  BY <1>1, <1>2, StoreStepTyped
<1> \A c \in Callers : c \in Writers
  BY McpAssumption
<1>4. CASE overlapped
  BY <1>3, <1>4 DEF Books, TokenGood, PutAlone, Standing
<1>5. CASE ~overlapped
  <2>1. Active(w)
    BY <1>3 DEF Active
  <2>2. (\A v \in Writers : Active(v) => v = w) /\ Replaces(put[w])
    BY <1>5, <2>1 DEF Books, PutAlone
  <2>3. \A v \in Writers : Active(v)' => v = w
    BY <1>3, <2>2 DEF Active
  <2>4. put[w].server \in Servers /\ put[w].map \in [Servers -> Int]
    BY <1>2 DEF StoreTyped, PutType
  <2>5. CASE Write(w)
    <3>1. /\ tmp' = put[w].map /\ tmpExists' = TRUE /\ put'[w].at = "rename"
          /\ UNCHANGED <<file, stored>>
      BY <1>2, <2>2, <2>5 DEF Write, StoreTyped, PutType
    <3>2. Replaces(put[w])'
      BY <1>1, <1>3, <2>2, <3>1 DEF Replaces, Standing
    <3>3. \A s : Pending(s) => Pending(s)'
      BY <1>3, <3>1 DEF Pending
    <3> QED BY <1>1, <1>3, <2>3, <3>1, <3>2, <3>3 DEF Books, TokenGood, PutAlone, Standing
  <2>6. CASE PutFails(w)
    <3>1. put'[w].at = "failed" /\ UNCHANGED <<file, stored>>
      BY <1>2, <2>6 DEF PutFails, StoreTyped, PutType
    <3>2. \A s : Pending(s) => Pending(s)'
      BY <1>3, <3>1 DEF Pending
    <3>3. \A v \in Writers : ~Active(v)'
      BY <2>3, <3>1 DEF Active
    <3> QED BY <1>1, <1>3, <3>1, <3>2, <3>3 DEF Books, TokenGood, PutAlone, Standing
  <2>7. CASE Rename(w)
    <3>1. put[w].at = "rename" /\ tmpExists /\ tmp = put[w].map
      BY <2>2, <2>7 DEF Rename, Replaces
    <3>2. /\ file' = put[w].map /\ stored' = stored \cup {put[w].server} /\ put'[w].at = "ok"
      BY <1>2, <2>7, <3>1 DEF Rename, StoreTyped, PutType
    <3>3. \A v \in Writers : ~Active(v)'
      BY <2>3, <3>2 DEF Active
    <3>4. put[w].server \in Lost' \/ file'[put[w].server] \in valid'[put[w].server] \cup {NoRefresh}
      BY <1>1, <2>2, <3>2 DEF Replaces, Standing
    <3>5. \A s \in stored \ {put[w].server} : file'[s] = file[s] /\ (Pending(s) => Pending(s)')
      BY <1>3, <2>2, <3>2 DEF Replaces, Pending
    <3>6. TokenGood'
      BY <1>1, <1>5, <3>2, <3>4, <3>5 DEF Books, TokenGood, Standing
    <3> QED BY <1>3, <3>3, <3>6 DEF Books, PutAlone
  <2> QED BY <1>1, <2>5, <2>6, <2>7 DEF StoreStep
<1> QED BY <1>4, <1>5

LEMMA BooksStep ==
  ASSUME TypeOK, AllCounted, LockHeld, PutsOwned, stored \subseteq Servers, Books, [Next]_vars
  PROVE  Books' /\ stored' \subseteq Servers
<1>1. StoreTyped /\ AuthTyped
  BY TypedParts
<1>2. /\ \A c \in Callers : c \in Writers /\ c \notin Logins
      /\ \A l \in Logins : l \in Writers /\ l \notin Callers /\ LoginTarget(l) \in Servers
  BY McpAssumption
<1>3. ASSUME NEW c \in Callers, Call(c) PROVE Books' /\ stored' \subseteq Servers
  <2>1. ServerOf(c) \in Servers /\ c \in Writers
    BY <1>2, ServerTyped
  <2>2. CASE NetCall(c)
    <3>1. UNCHANGED <<storeVars, valid, Lost>>
      BY <2>2, NetCallQuiet DEF authVars, Lost
    <3> QED BY <3>1, BooksUnwritten DEF ValidMoves, storeVars
  <2>3. CASE AuthCall(c)
    <3>1. UNCHANGED storeVars
      BY <2>3 DEF AuthCall, RefreshRefused, RefreshLost
    <3>2. ASSUME RefreshRefused(c) PROVE ValidMoves
      BY <1>1, <2>1, <3>2 DEF RefreshRefused, ValidMoves, AuthTyped, Lost
    <3>3. ASSUME RefreshLost(c) PROVE ValidMoves
      <4>1. CASE UNCHANGED authVars
        BY <4>1 DEF ValidMoves, authVars, Lost
      <4>2. CASE Rotate(ServerOf(c), call[c].token) /\ mishap' = mishap \cup {ServerOf(c)} /\ UNCHANGED reused
        BY <1>1, <2>1, <4>2, RotateTyped DEF ValidMoves, Lost
      <4> QED BY <3>3, <4>1, <4>2 DEF RefreshLost
    <3> QED BY <2>3, <3>1, <3>2, <3>3, BooksUnwritten DEF AuthCall, storeVars
  <2>4. CASE Refreshed(c)
    <3>1. /\ Rotate(ServerOf(c), call[c].token) /\ BeginPut(c, ServerOf(c), issued + 1)
          /\ UNCHANGED Lost
      BY <2>4 DEF Refreshed, Lost
    <3>2. /\ issued + 1 \in Int /\ issued + 1 \in valid'[ServerOf(c)]
          /\ \A s \in Servers \ {ServerOf(c)} : valid'[s] = valid[s]
      BY <1>1, <2>1, <3>1, RotateTyped
    <3>3. PutAlone'
      BY <2>1, <3>1, <3>2, PutBegins
    <3>4. /\ put'[c].at = "write" /\ put'[c].server = ServerOf(c)
          /\ \A v \in Writers \ {c} : put'[v] = put[v]
      BY <1>1, <2>1, <3>1, <3>2, BeginPutTyped
    <3>5. put[c].at = "none" /\ UNCHANGED <<file, stored>> /\ (overlapped => overlapped')
      BY <3>1 DEF BeginPut
    <3>6. \A s : s = ServerOf(c) \/ Pending(s) => Pending(s)'
      BY <1>2, <3>4, <3>5 DEF Pending
    <3>7. TokenGood'
      BY <3>1, <3>2, <3>5, <3>6 DEF Books, TokenGood, Standing
    <3> QED BY <3>3, <3>5, <3>7 DEF Books
  <2>5. CASE RefreshedWithoutToken(c)
    <3>1. /\ BeginPut(c, ServerOf(c), NoRefresh) /\ NoRefresh \in Int
          /\ UNCHANGED <<valid, Lost>>
      BY <2>5 DEF RefreshedWithoutToken, NoRefresh, authVars, Lost
    <3>2. PutAlone'
      BY <2>1, <3>1, PutBegins
    <3>3. \A v \in Writers \ {c} : put'[v] = put[v]
      BY <1>1, <2>1, <3>1, BeginPutTyped
    <3>4. put[c].at = "none" /\ UNCHANGED <<file, stored>> /\ (overlapped => overlapped')
      BY <3>1 DEF BeginPut
    <3>5. \A s : Pending(s) => Pending(s)'
      BY <1>2, <3>3, <3>4 DEF Pending
    <3>6. TokenGood'
      BY <3>1, <3>4, <3>5 DEF Books, TokenGood, Standing
    <3> QED BY <3>2, <3>4, <3>6 DEF Books
  <2>6. CASE Stored(c)
    <3>1. /\ EndPut(c) /\ UNCHANGED <<valid, issued>> /\ Lost \subseteq Lost'
          /\ put[c].at \in {"ok", "failed"}
          /\ put[c].at = "failed" => ServerOf(c) \in Lost'
      BY <2>6 DEF Stored, Lost
    <3>2. PutAlone'
      BY <2>1, <3>1, PutEnds
    <3>3. \A v \in Writers \ {c} : put'[v] = put[v]
      BY <1>1, <2>1, <3>1, EndPutTyped
    <3>4. UNCHANGED <<file, stored, overlapped>>
      BY <3>1 DEF EndPut
    <3>5. put[c].server = ServerOf(c)
      BY <2>6 DEF Stored, PutsOwned
    <3>6. \A s : Pending(s) => Pending(s)' \/ s \in Lost'
      BY <1>2, <3>1, <3>3, <3>5 DEF Pending
    <3>7. TokenGood'
      BY <3>1, <3>4, <3>6 DEF Books, TokenGood, Standing
    <3> QED BY <3>2, <3>4, <3>7 DEF Books
  <2> QED BY <1>3, <2>2, <2>3, <2>4, <2>5, <2>6, CallKinds DEF StoreCall
<1>4. ASSUME NEW l \in Logins, Login(l) PROVE Books' /\ stored' \subseteq Servers
  <2>1. UNCHANGED Lost
    BY <1>4 DEF Login, LoginBegins, LoginAsks, LoginRedirected, LoginExchanges, LoginStored,
        LoginFails, LoginKilled, LoginStep, Lost
  <2>2. CASE LoginExchanges(l)
    <3>1. /\ BeginPut(l, LoginTarget(l), issued + 1)
          /\ valid' = [valid EXCEPT ![LoginTarget(l)] = @ \cup {issued + 1}]
      BY <2>2 DEF LoginExchanges
    <3>2. /\ issued + 1 \in Int /\ issued + 1 \in valid'[LoginTarget(l)]
          /\ \A s \in Servers : valid[s] \subseteq valid'[s]
      BY <1>1, <1>2, <3>1 DEF AuthTyped
    <3>3. PutAlone'
      BY <1>2, <3>1, <3>2, PutBegins
    <3>4. \A v \in Writers \ {l} : put'[v] = put[v]
      BY <1>1, <1>2, <3>1, <3>2, BeginPutTyped
    <3>5. UNCHANGED <<file, stored>> /\ (overlapped => overlapped')
      BY <3>1 DEF BeginPut
    <3>6. \A s : Pending(s) => Pending(s)'
      BY <1>2, <3>4 DEF Pending
    <3>7. TokenGood'
      BY <2>1, <3>2, <3>5, <3>6 DEF Books, TokenGood, Standing
    <3> QED BY <3>3, <3>5, <3>7 DEF Books
  <2>3. CASE LoginStored(l) \/ LoginKilled(l)
    <3>1. EndPut(l) /\ UNCHANGED valid
      BY <2>3 DEF LoginStored, LoginKilled
    <3>2. PutAlone'
      BY <1>2, <2>1, <3>1, PutEnds
    <3>3. \A v \in Writers \ {l} : put'[v] = put[v]
      BY <1>1, <1>2, <3>1, EndPutTyped
    <3>4. UNCHANGED <<file, stored, overlapped>>
      BY <3>1 DEF EndPut
    <3>5. \A s : Pending(s) => Pending(s)'
      BY <1>2, <3>3 DEF Pending
    <3>6. TokenGood'
      BY <2>1, <3>1, <3>4, <3>5 DEF Books, TokenGood, Standing
    <3> QED BY <3>2, <3>4, <3>6 DEF Books
  <2>4. CASE LoginBegins(l) \/ LoginAsks(l) \/ LoginRedirected(l) \/ LoginFails(l)
    <3>1. UNCHANGED <<storeVars, valid>>
      BY <2>4 DEF LoginBegins, LoginAsks, LoginRedirected, LoginFails
    <3> QED BY <2>1, <3>1, BooksUnwritten DEF ValidMoves, storeVars
  <2> QED BY <1>4, <2>2, <2>3, <2>4 DEF Login
<1>5. ASSUME NEW w \in Writers, Store(w) PROVE Books' /\ stored' \subseteq Servers
  <2>1. put[w].server \in Servers
    BY <1>1 DEF StoreTyped, PutType
  <2>2. stored' \subseteq Servers
    BY <1>5, <2>1 DEF Store, StoreStep, Write, Rename, PutFails
  <2> QED BY <1>5, <2>2, PutProceeds
<1>6. ASSUME Boots \/ Over \/ UNCHANGED vars PROVE Books' /\ stored' \subseteq Servers
  <2>1. UNCHANGED <<storeVars, valid, Lost>>
    BY <1>6 DEF Boots, Warm, WarmStalls, WarmNext, WarmDiscovers, WarmInitializes, WarmExpired,
                WarmLists, WarmFails, WarmStep, Over, vars, authVars, Lost
  <2> QED BY <2>1, BooksUnwritten DEF ValidMoves, storeVars
<1> QED BY <1>3, <1>4, <1>5, <1>6, Steps DEF Other, Boots

LEMMA InitBooks == Init => PutsOwned /\ Books /\ stored \subseteq Servers
<1> SUFFICES ASSUME Init PROVE PutsOwned /\ Books /\ stored \subseteq Servers
  OBVIOUS
<1>1. \A w \in Writers : put[w].at = "none"
  BY DEF Init, StoreInit, NoPut
<1>2. (\A c \in Callers : call[c].at = "idle") /\ (\A l \in Logins : login[l] = "idle")
  BY DEF Init, NoCall
<1>3. PutsOwned
  BY <1>1, <1>2, McpAssumption DEF PutsOwned, At
<1>4. stored \subseteq Servers /\ \A s \in stored : file[s] \in valid[s]
  BY DEF Init, StoreInit
<1> QED BY <1>1, <1>3, <1>4 DEF Books, TokenGood, PutAlone, Active, Standing

(* The file holds, for every server a token was ever stored for, a refresh  *)
(* token its authorization server accepts, or one that came without; or a   *)
(* call is about to store one; unless two puts overlapped, a rotated token  *)
(* was lost, or the server revoked its tokens because one was used twice.   *)
THEOREM StoredTokensAreGood == Spec => []StoredTokenIsGood
<1> DEFINE I == /\ TypeOK /\ AllCounted /\ LockHeld
                /\ PutsOwned /\ Books /\ stored \subseteq Servers
<1>1. Init => I
  BY InitTyped, InitBooting, InitBooks
<1>2. I /\ [Next]_vars => I'
  <2> SUFFICES ASSUME I, [Next]_vars PROVE I'
    OBVIOUS
  <2> QED BY TypedStep, LockStep, OwnedStep, BooksStep
<1>3. I => StoredTokenIsGood
  <2> SUFFICES ASSUME PutsOwned, TokenGood PROVE StoredTokenIsGood
    BY DEF Books
  <2>1. ASSUME NEW s, Pending(s) PROVE \E c \in Callers : At(c, "storing") /\ ServerOf(c) = s
    BY <2>1 DEF Pending, PutsOwned
  <2> QED BY <2>1 DEF TokenGood, StoredTokenIsGood, Lost, Standing
<1> HIDE DEF I
<1> QED BY <1>1, <1>2, <1>3, PTL DEF Spec
=============================================================================
