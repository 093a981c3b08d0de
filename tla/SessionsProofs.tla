---------------------------- MODULE SessionsProofs ----------------------------
(***************************************************************************)
(* Theorems about Sessions, for any number of browsers and requests, any   *)
(* length of time and any life of a token.                                 *)
(***************************************************************************)
EXTENDS Sessions, TLAPS

\* A token that cannot be used again: it was revoked, or its row was deleted
\* and its second is over.
Spent(p) == row[p] = "revoked" \/ (row[p] = "none" /\ p < now)

\* A request that has a token to exchange or to revoke, and the trace that
\* the end of all sessions left on it.
RequestInv ==
  \A r \in Requests : req[r] \in Request =>
    /\ req[r].kind = "refresh" => req[r].token \in Seconds
    /\ req[r].pc = "revoke" => req[r].token \in Seconds
    /\ req[r].kind = "refresh" /\ req[r].pc = "issue" => Spent(req[r].token)
    /\ req[r].old => req[r].carried

ParentsInv == \A s \in Seconds : row[s] = "live" /\ parent[s] # NoToken => Spent(parent[s])

IInv == TypeOK /\ RequestInv /\ ParentsInv /\ OldSessionsEnd

-----------------------------------------------------------------------------
\* Requests are told apart by their step.
LEMMA RequestOrNot ==
  /\ \A q \in {Idle} \union Request \union Answer : q.pc \in Steps => q \in Request
  /\ \A q \in Answer \union {Idle} : q \notin Request
  /\ \A q \in Request, step \in Steps : [q EXCEPT !.pc = step] \in Request /\ [q EXCEPT !.pc = step].pc = step
  BY DEF Idle, Answer, Request, Steps

\* The initial state satisfies the invariant.
LEMMA InitIInv == Init => IInv
<1> SUFFICES ASSUME Init PROVE IInv
  OBVIOUS
<1>1. TypeOK
  <2>1. 1 \in Seconds
    BY SessionsAssumption DEF Seconds
  <2>2. row \in [Seconds -> {"none", "live", "revoked"}] /\ revokedBy \in [Seconds -> Causes]
    BY DEF Init, Causes
  <2>3. cookie \in [Browsers -> 0..MaxNow] /\ parent \in [Seconds -> 0..MaxNow]
    <3>1. 0 \in 0..MaxNow
      BY SessionsAssumption
    <3> QED
      BY <3>1 DEF Init, NoToken
  <2>4. req \in [Requests -> {Idle} \union Request \union Answer]
    BY DEF Init
  <2> QED
    BY <2>1, <2>2, <2>3, <2>4 DEF Init, TypeOK
<1>2. RequestInv
  BY RequestOrNot DEF Init, RequestInv
<1>3. ParentsInv /\ OldSessionsEnd
  BY DEF Init, ParentsInv, OldSessionsEnd
<1> QED
  BY <1>1, <1>2, <1>3 DEF IInv

\* What is spent stays spent, unless it is issued in this second.
LEMMA SpentStays ==
  ASSUME NEW p, Spent(p), now \in Nat, now' \in Nat, now' >= now, p \in Nat,
         \/ row'[p] = row[p] \/ row'[p] = "revoked"
         \/ row'[p] = "none" /\ p < now
  PROVE  Spent(p)'
  BY DEF Spent

\* Every step preserves the types.
LEMMA NextType == IInv /\ [Next]_vars => TypeOK'
<1> SUFFICES ASSUME IInv, [Next]_vars PROVE TypeOK'
  OBVIOUS
<1> USE SessionsAssumption DEF IInv
<1>a. /\ now \in Seconds /\ row \in [Seconds -> {"none", "live", "revoked"}] /\ user \in {"active", "deleted"}
      /\ cookie \in [Browsers -> 0..MaxNow] /\ req \in [Requests -> {Idle} \union Request \union Answer] /\ sent \in Nat
      /\ parent \in [Seconds -> 0..MaxNow] /\ old \subseteq Seconds /\ carried \subseteq Seconds
      /\ revokedBy \in [Seconds -> Causes] /\ single \subseteq Browsers
  BY DEF TypeOK
<1>b. \A r \in Requests : req[r].pc \in Steps => req[r] \in Request
  BY <1>a, RequestOrNot
<1>c. ASSUME NEW r \in Requests, req[r] \in Request, NEW set \in Keep..MaxNow PROVE AnswerOf(r, set) \in Answer
  BY <1>c DEF AnswerOf, Answer, Request
<1>d. Keep \in Keep..MaxNow /\ NoToken \in Keep..MaxNow /\ NoToken \in 0..MaxNow /\ (\A s \in Seconds : s \in Keep..MaxNow /\ s \in 0..MaxNow)
  BY DEF Keep, NoToken, Seconds
<1>e. ASSUME NEW r \in Requests, NEW q \in {Idle} \union Request \union Answer, req' = [req EXCEPT ![r] = q]
      PROVE  req' \in [Requests -> {Idle} \union Request \union Answer]
  BY <1>a, <1>e
<1>f. ASSUME NEW r \in Requests, End(r) PROVE req' \in [Requests -> {Idle} \union Request \union Answer]
  BY <1>a, <1>f DEF End
<1>g. ASSUME NEW r \in Requests, req[r] \in Request, Refuse(r) PROVE req' \in [Requests -> {Idle} \union Request \union Answer]
  BY <1>c, <1>d, <1>e, <1>g DEF Refuse
<1>h. ASSUME NEW r \in Requests, req[r] \in Request, NEW step \in Steps, Goto(r, step)
      PROVE  req' \in [Requests -> {Idle} \union Request \union Answer]
  <2>1. [req[r] EXCEPT !.pc = step] \in Request
    BY <1>h, RequestOrNot
  <2> QED
    BY <1>e, <1>h, <2>1 DEF Goto
<1>1. ASSUME NEW r \in Requests, NEW b \in Browsers, NEW kind \in Kinds, Send(r, b, kind) PROVE TypeOK'
  <2>1. [kind |-> kind, by |-> b, pc |-> First(kind),
         token |-> IF kind \in {"refresh", "logout"} THEN cookie[b] ELSE NoToken,
         user |-> "active", old |-> FALSE, carried |-> FALSE] \in Request
    BY <1>a, <1>d DEF First, Request, Steps
  <2> QED
    BY <1>1, <1>a, <1>e, <2>1 DEF Send, TypeOK
<1>2. ASSUME NEW r \in Requests, Reply(r) PROVE TypeOK'
  <2>1. req[r] \in Answer
    BY <1>2, <1>a DEF Reply, Idle, Request, Steps
  <2>2. cookie' \in [Browsers -> 0..MaxNow]
    BY <1>2, <1>a, <2>1 DEF Reply, Answer, Keep
  <2> QED
    BY <1>2, <1>a, <1>f, <2>2 DEF Reply, history, TypeOK
<1>3. ASSUME NEW r \in Requests, Lose(r) PROVE TypeOK'
  BY <1>3, <1>a, <1>f DEF Lose, TypeOK
<1>4. ASSUME NEW r \in Requests, ReadUser(r) PROVE TypeOK'
  <2>1. req[r] \in Request /\ AfterRead(req[r].pc) \in Steps
    BY <1>4, <1>b DEF ReadUser, AfterRead, Steps
  <2> QED
    BY <1>4, <1>a, <1>g, <1>h, <2>1 DEF ReadUser, history, TypeOK
<1>5. ASSUME NEW r \in Requests, SaveUser(r) PROVE TypeOK'
  <2>1. req[r] \in Request /\ "issue" \in Steps
    BY <1>5, <1>b DEF SaveUser, At, Steps
  <2> QED
    BY <1>5, <1>a, <1>h, <2>1 DEF SaveUser, history, TypeOK
<1>6. ASSUME NEW r \in Requests, Issue(r) PROVE TypeOK'
  <2>1. req[r] \in Request
    BY <1>6, <1>b DEF Issue, Steps
  <2>2. req' \in [Requests -> {Idle} \union Request \union Answer]
    BY <1>6, <1>a, <1>c, <1>d, <1>e, <2>1 DEF Issue
  <2>3. req[r].token \in 0..MaxNow
    BY <2>1 DEF Request
  <2>4. parent' \in [Seconds -> 0..MaxNow]
    BY <1>6, <1>a, <1>d, <2>3 DEF Issue
  <2> QED
    BY <1>6, <1>a, <2>2, <2>4 DEF Issue, TypeOK
<1>7. ASSUME NEW r \in Requests, IssueFails(r) PROVE TypeOK'
  <2>1. req[r] \in Request
    BY <1>7, <1>b DEF IssueFails, Steps
  <2>2. revokedBy' \in [Seconds -> Causes]
    BY <1>7, <1>a DEF IssueFails, Causes
  <2> QED
    BY <1>7, <1>a, <1>g, <2>1, <2>2 DEF IssueFails, TypeOK
<1>8. ASSUME NEW r \in Requests, FindNothing(r) \/ NoSuchUser(r) PROVE TypeOK'
  <2>1. req[r] \in Request
    BY <1>8, <1>b DEF FindNothing, NoSuchUser, At, Steps
  <2> QED
    BY <1>8, <1>a, <1>g, <2>1 DEF FindNothing, NoSuchUser, history, TypeOK
<1>9. ASSUME NEW r \in Requests, FindRevoked(r) \/ Remove(r) PROVE TypeOK'
  <2>1. req[r] \in Request /\ "revokeAll" \in Steps
    BY <1>9, <1>b DEF FindRevoked, Remove, At, Steps
  <2> QED
    BY <1>9, <1>a, <1>h, <2>1 DEF FindRevoked, Remove, history, TypeOK
<1>10. ASSUME NEW r \in Requests, FindLive(r) PROVE TypeOK'
  <2>1. req[r] \in Request
    BY <1>10, <1>b DEF FindLive, At, Steps
  <2>2. [req[r] EXCEPT !.pc = "revoke", !.user = user, !.old = req[r].token \in old, !.carried = req[r].token \in carried]
          \in Request
    <3>1. (req[r].token \in old) \in BOOLEAN /\ (req[r].token \in carried) \in BOOLEAN
      OBVIOUS
    <3>2. \A x, y \in BOOLEAN : [req[r] EXCEPT !.pc = "revoke", !.user = user, !.old = x, !.carried = y] \in Request
      BY <1>a, <2>1 DEF Request, Steps
    <3> QED
      BY <3>1, <3>2
  <2> QED
    BY <1>10, <1>a, <1>e, <2>2 DEF FindLive, history, TypeOK
<1>11. ASSUME NEW r \in Requests, FindForLogout(r) PROVE TypeOK'
  <2>1. req[r] \in Request /\ "revoke" \in Steps
    BY <1>11, <1>b DEF FindForLogout, At, Steps
  <2>2. req' \in [Requests -> {Idle} \union Request \union Answer]
    BY <1>11, <1>c, <1>d, <1>e, <1>h, <2>1 DEF FindForLogout
  <2> QED
    BY <1>11, <1>a, <2>2 DEF FindForLogout, history, TypeOK
<1>12. ASSUME NEW r \in Requests, RevokeRow(r) PROVE TypeOK'
  <2>1. req[r] \in Request /\ "issue" \in Steps
    BY <1>12, <1>b DEF RevokeRow, Steps
  <2>2. req' \in [Requests -> {Idle} \union Request \union Answer]
    BY <1>12, <1>c, <1>d, <1>e, <1>h, <2>1 DEF RevokeRow
  <2>3. row' \in [Seconds -> {"none", "live", "revoked"}] /\ revokedBy' \in [Seconds -> Causes]
    BY <1>12, <1>a DEF RevokeRow, Causes
  <2> QED
    BY <1>12, <1>a, <2>2, <2>3 DEF RevokeRow, TypeOK
<1>13. ASSUME NEW r \in Requests, RevokeAll(r) PROVE TypeOK'
  <2>1. req[r] \in Request
    BY <1>13, <1>b DEF RevokeAll, Steps
  <2>2. AnswerOf(r, Keep) \in Answer
    BY <1>c, <1>d, <2>1
  <2>3. ASSUME NEW q \in Requests, Issuing(q) PROVE [req[q] EXCEPT !.old = TRUE, !.carried = TRUE] \in Request
    <3>1. req[q] \in Request
      BY <1>b, <2>3 DEF Issuing, Steps
    <3> QED
      BY <3>1 DEF Request
  <2>4. req' \in [Requests -> {Idle} \union Request \union Answer]
    BY <1>13, <1>a, <2>2, <2>3 DEF RevokeAll
  <2>5. row' \in [Seconds -> {"none", "live", "revoked"}] /\ revokedBy' \in [Seconds -> Causes]
    BY <1>13, <1>a DEF RevokeAll, Causes
  <2> QED
    BY <1>13, <1>a, <2>4, <2>5 DEF RevokeAll, TypeOK
<1>14. CASE Tick
  BY <1>14, <1>a DEF Tick, history, Seconds, TypeOK
<1>15. CASE Cleanup
  <2>1. row' \in [Seconds -> {"none", "live", "revoked"}] /\ parent' \in [Seconds -> 0..MaxNow]
    BY <1>15, <1>a, <1>d DEF Cleanup
  <2> QED
    BY <1>15, <1>a, <2>1 DEF Cleanup, TypeOK
<1>16. CASE UNCHANGED vars
  BY <1>16, <1>a DEF vars, TypeOK
<1> QED
  BY <1>1, <1>2, <1>3, <1>4, <1>5, <1>6, <1>7, <1>8, <1>9, <1>10, <1>11, <1>12, <1>13, <1>14, <1>15, <1>16 DEF Next, Step

\* A live token is not of a second to come, nor is the row of a spent one
\* issued again: what is spent stays so over every step.
LEMMA NextSpent ==
  ASSUME IInv, [Next]_vars, NEW p \in Seconds, Spent(p)
  PROVE  Spent(p)'
<1> USE SessionsAssumption DEF IInv, TypeOK
<1>0. p \in Nat
  BY DEF Seconds
<1>1. now \in Nat /\ now' \in Nat /\ now' >= now
  <2>1. CASE Tick
    BY <2>1 DEF Tick, Seconds
  <2>2. CASE ~Tick
    <3>1. now' = now
      BY <2>2 DEF Next, Step, Lose, Send, Reply, ReadUser, SaveUser, Issue, IssueFails, FindNothing, FindRevoked, FindLive,
                  FindForLogout, RevokeRow, Remove, NoSuchUser, RevokeAll, Cleanup, vars
    <3> QED
      BY <3>1 DEF Seconds
  <2> QED
    BY <2>1, <2>2
<1>2. ASSUME NEW r \in Requests, Issue(r) PROVE row'[p] = row[p]
  BY <1>1, <1>2 DEF Issue, CanIssue, Spent, Seconds
<1>3. ASSUME NEW r \in Requests, RevokeRow(r) PROVE row'[p] = row[p] \/ row'[p] = "revoked"
  BY <1>3 DEF RevokeRow
<1>4. ASSUME NEW r \in Requests, RevokeAll(r) PROVE row'[p] = row[p] \/ row'[p] = "revoked"
  BY <1>4 DEF RevokeAll
<1>5. CASE Cleanup
  <2>1. row'[p] = row[p] \/ (row'[p] = "none" /\ p < now)
    BY <1>5 DEF Cleanup, Deletable, Expired, Seconds
  <2> QED
    BY <1>0, <1>1, <2>1, SpentStays
<1>6. CASE ~Cleanup
  <2>1. row' = row \/ \E r \in Requests : Issue(r) \/ RevokeRow(r) \/ RevokeAll(r)
    BY <1>6 DEF Next, Step, Lose, Send, Reply, ReadUser, SaveUser, IssueFails, FindNothing, FindRevoked, FindLive,
                FindForLogout, Remove, NoSuchUser, Tick, vars
  <2>2. row'[p] = row[p] \/ row'[p] = "revoked"
    BY <2>1, <1>2, <1>3, <1>4
  <2> QED
    BY <1>0, <1>1, <2>2, SpentStays
<1> QED
  BY <1>5, <1>6

\* Every step preserves what is known of the parents of tokens and of the
\* sessions that were to end.
LEMMA NextTokens == IInv /\ [Next]_vars => ParentsInv' /\ OldSessionsEnd'
<1> SUFFICES ASSUME IInv, [Next]_vars PROVE ParentsInv' /\ OldSessionsEnd'
  OBVIOUS
<1>a. /\ now \in Seconds /\ row \in [Seconds -> {"none", "live", "revoked"}]
      /\ req \in [Requests -> {Idle} \union Request \union Answer]
      /\ parent \in [Seconds -> 0..MaxNow] /\ old \subseteq Seconds /\ carried \subseteq Seconds
  BY DEF IInv, TypeOK
<1>b. \A s \in Seconds : row[s] = "live" /\ parent[s] # NoToken => Spent(parent[s]) /\ parent[s] \in Seconds
  BY <1>a DEF IInv, ParentsInv, NoToken, Seconds
<1>1. ASSUME NEW r \in Requests, Issue(r) PROVE ParentsInv' /\ OldSessionsEnd'
  <2>1. req[r] \in Request /\ (req[r].old => req[r].carried)
    BY <1>1, <1>a, RequestOrNot DEF Issue, IInv, RequestInv, Steps
  <2>2. req[r].kind = "refresh" => Spent(req[r].token) /\ req[r].token \in Seconds
    BY <1>1, <2>1 DEF Issue, IInv, RequestInv
  <2>3. \A s \in Seconds : row'[s] = "live" /\ parent'[s] # NoToken => Spent(parent'[s]) /\ parent'[s] \in Seconds
    BY <1>1, <1>a, <1>b, <2>2 DEF Issue
  <2>4. ParentsInv'
    <3> SUFFICES ASSUME NEW s \in Seconds, row'[s] = "live", parent'[s] # NoToken PROVE Spent(parent[s])'
      BY DEF ParentsInv
    <3>1. PICK p \in Seconds : p = parent'[s] /\ Spent(p)
      BY <2>3
    <3>2. Spent(p)'
      BY <3>1, NextSpent
    <3> QED
      BY <3>1, <3>2 DEF Spent
  <2>5. OldSessionsEnd'
    BY <1>1, <1>a, <2>1 DEF Issue, IInv, OldSessionsEnd
  <2> QED
    BY <2>4, <2>5
\* No other step makes a token live or gives it a parent.
<1>2. ASSUME \A s \in Seconds : row'[s] = "live" => row[s] = "live" /\ parent'[s] = parent[s]
      PROVE  ParentsInv'
  <2> SUFFICES ASSUME NEW s \in Seconds, row'[s] = "live", parent'[s] # NoToken PROVE Spent(parent[s])'
    BY DEF ParentsInv
  <2>1. PICK p \in Seconds : p = parent[s] /\ p = parent'[s] /\ Spent(p)
    BY <1>2, <1>b
  <2>2. Spent(p)'
    BY <2>1, NextSpent
  <2> QED
    BY <2>1, <2>2 DEF Spent
<1>3. ASSUME NEW r \in Requests, RevokeRow(r) PROVE ParentsInv' /\ OldSessionsEnd'
  <2>1. \A s \in Seconds : row'[s] = "live" => row[s] = "live" /\ parent'[s] = parent[s] /\ s # req[r].token
    BY <1>3, <1>a DEF RevokeRow
  <2> QED
    BY <1>2, <1>3, <2>1 DEF RevokeRow, IInv, OldSessionsEnd
<1>4. ASSUME NEW r \in Requests, RevokeAll(r) PROVE ParentsInv' /\ OldSessionsEnd'
  <2>1. \A s \in Seconds : row'[s] # "live"
    BY <1>4, <1>a DEF RevokeAll, RevokedTogether
  <2> QED
    BY <1>2, <2>1 DEF OldSessionsEnd
<1>5. CASE Cleanup
  <2>1. \A s \in Seconds : row'[s] = "live" => row[s] = "live" /\ parent'[s] = parent[s]
    BY <1>5, <1>a DEF Cleanup
  <2>2. OldSessionsEnd'
    BY <1>5, <2>1 DEF Cleanup, IInv, OldSessionsEnd
  <2> QED
    BY <1>2, <2>1, <2>2
<1>6. ASSUME UNCHANGED <<row, parent, old, carried>> PROVE ParentsInv' /\ OldSessionsEnd'
  BY <1>2, <1>6 DEF IInv, OldSessionsEnd
<1>7. ASSUME NEW r \in Requests, Step(r), ~Issue(r), ~RevokeRow(r), ~RevokeAll(r)
      PROVE  UNCHANGED <<row, parent, old, carried>>
  BY <1>7 DEF Step, Reply, ReadUser, SaveUser, IssueFails, FindNothing, FindRevoked, FindLive, FindForLogout,
              Remove, NoSuchUser, history
<1>8. ASSUME NEW r \in Requests, Step(r) PROVE ParentsInv' /\ OldSessionsEnd'
  BY <1>8, <1>1, <1>3, <1>4, <1>6, <1>7
<1>9. CASE \E r \in Requests : Lose(r) \/ \E b \in Browsers, kind \in Kinds : Send(r, b, kind)
  BY <1>9, <1>6 DEF Lose, Send
<1>10. CASE Tick \/ UNCHANGED vars
  BY <1>10, <1>6 DEF Tick, vars, history
<1> QED
  BY <1>5, <1>8, <1>9, <1>10 DEF Next

\* Every step preserves what is known of the requests.
LEMMA NextRequests == IInv /\ [Next]_vars => RequestInv'
<1> SUFFICES ASSUME IInv, [Next]_vars PROVE RequestInv'
  OBVIOUS
<1>a. /\ now \in Seconds /\ row \in [Seconds -> {"none", "live", "revoked"}]
      /\ cookie \in [Browsers -> 0..MaxNow]
      /\ req \in [Requests -> {Idle} \union Request \union Answer]
  BY DEF IInv, TypeOK
<1>b. \A r \in Requests : req[r].pc \in Steps => req[r] \in Request
  BY <1>a, RequestOrNot
\* What a request is after a step, if it was not touched by the end of all.
<1> DEFINE Kept(q) ==
      /\ q.kind = "refresh" => q.token \in Seconds
      /\ q.pc = "revoke" => q.token \in Seconds
      /\ q.kind = "refresh" /\ q.pc = "issue" => row'[q.token] = "revoked" \/ (row'[q.token] = "none" /\ q.token < now')
      /\ q.old => q.carried
<1>c. \A r \in Requests : req[r] \in Request => Kept(req[r])
  <2> SUFFICES ASSUME NEW r \in Requests, req[r] \in Request PROVE Kept(req[r])
    OBVIOUS
  <2>1. ASSUME req[r].kind = "refresh", req[r].pc = "issue"
        PROVE  row'[req[r].token] = "revoked" \/ (row'[req[r].token] = "none" /\ req[r].token < now')
    <3>1. PICK p \in Seconds : p = req[r].token /\ Spent(p)
      BY <2>1 DEF IInv, RequestInv
    <3>2. Spent(p)'
      BY <3>1, NextSpent
    <3> QED
      BY <3>1, <3>2 DEF Spent
  <2> QED
    BY <2>1 DEF IInv, RequestInv
<1>d. ASSUME \A r \in Requests : req'[r] \in Request => Kept(req'[r]) PROVE RequestInv'
  BY <1>d DEF RequestInv, Spent
<1> HIDE DEF Kept
\* One request moves, the others stay.
<1>e. ASSUME NEW r \in Requests, \A q \in Requests : q # r => req'[q] = req[q],
             req'[r] \in Request => Kept(req'[r])
      PROVE  RequestInv'
  BY <1>c, <1>d, <1>e
<1>f. ASSUME NEW r \in Requests, NEW q, req' = [req EXCEPT ![r] = q], q \in Request => Kept(q) PROVE RequestInv'
  BY <1>a, <1>e, <1>f
<1>g. ASSUME NEW r \in Requests, NEW set, req' = [req EXCEPT ![r] = AnswerOf(r, set)] PROVE RequestInv'
  <2>1. AnswerOf(r, set) \notin Request
    BY DEF AnswerOf, Request, Steps
  <2> QED
    BY <1>f, <1>g, <2>1
<1>h. ASSUME NEW r \in Requests, End(r) PROVE RequestInv'
  <2>1. Idle \notin Request
    BY RequestOrNot
  <2> QED
    BY <1>f, <1>h, <2>1 DEF End
<1>i. ASSUME NEW r \in Requests, req[r] \in Request, NEW step \in Steps, Goto(r, step),
             step = "revoke" => req[r].token \in Seconds,
             step = "issue" /\ req[r].kind = "refresh" => row'[req[r].token] = "revoked"
      PROVE  RequestInv'
  <2>1. Kept([req[r] EXCEPT !.pc = step])
    BY <1>c, <1>i DEF Kept, Request
  <2> QED
    BY <1>f, <1>i, <2>1 DEF Goto
<1>1. ASSUME NEW r \in Requests, NEW b \in Browsers, NEW kind \in Kinds, Send(r, b, kind) PROVE RequestInv'
  <2> DEFINE q == [kind |-> kind, by |-> b, pc |-> First(kind),
                   token |-> IF kind \in {"refresh", "logout"} THEN cookie[b] ELSE NoToken,
                   user |-> "active", old |-> FALSE, carried |-> FALSE]
  <2>1. kind = "refresh" => cookie[b] \in Seconds
    BY <1>1, <1>a, SessionsAssumption DEF Send, NoToken, Seconds
  <2>2. Kept(q)
    BY <2>1 DEF Kept, First
  <2>3. req' = [req EXCEPT ![r] = q]
    BY <1>1 DEF Send
  <2> QED
    BY <1>f, <2>2, <2>3
<1>2. ASSUME NEW r \in Requests, Reply(r) \/ Lose(r) PROVE RequestInv'
  BY <1>2, <1>h DEF Reply, Lose
<1>3. ASSUME NEW r \in Requests, FindNothing(r) \/ NoSuchUser(r) \/ Issue(r) \/ IssueFails(r) PROVE RequestInv'
  BY <1>3, <1>g DEF FindNothing, NoSuchUser, Issue, IssueFails, Refuse
<1>4. ASSUME NEW r \in Requests, ReadUser(r) PROVE RequestInv'
  <2>1. req[r] \in Request /\ AfterRead(req[r].pc) \in {"touch", "save"}
    BY <1>4, <1>b DEF ReadUser, AfterRead, Steps
  <2>2. AfterRead(req[r].pc) \in Steps
    BY <2>1 DEF Steps
  <2> QED
    BY <1>4, <1>g, <1>i, <2>1, <2>2 DEF ReadUser, Refuse
<1>5. ASSUME NEW r \in Requests, SaveUser(r) PROVE RequestInv'
  <2>1. req[r] \in Request /\ req[r].kind = "login" /\ "issue" \in Steps
    BY <1>5, <1>b DEF SaveUser, At, Steps
  <2> QED
    BY <1>5, <1>i, <2>1 DEF SaveUser
<1>6. ASSUME NEW r \in Requests, FindRevoked(r) \/ Remove(r) PROVE RequestInv'
  <2>1. req[r] \in Request /\ "revokeAll" \in Steps
    BY <1>6, <1>b DEF FindRevoked, Remove, At, Steps
  <2> QED
    BY <1>6, <1>i, <2>1 DEF FindRevoked, Remove
<1>7. ASSUME NEW r \in Requests, FindLive(r) PROVE RequestInv'
  <2>1. req[r] \in Request /\ req[r].kind = "refresh" /\ req[r].token \in Seconds
    BY <1>7, <1>b DEF FindLive, At, Steps, IInv, RequestInv
  <2> DEFINE o == req[r].token \in old
             c == req[r].token \in carried
             q == [req[r] EXCEPT !.pc = "revoke", !.user = user, !.old = o, !.carried = c]
  <2>2. o => c
    BY <1>7, <2>1 DEF FindLive, Presented, IInv, OldSessionsEnd
  <2> HIDE DEF o, c
  <2>3. Kept(q)
    BY <2>1, <2>2 DEF Kept, Request
  <2>4. req' = [req EXCEPT ![r] = q]
    BY <1>7 DEF FindLive, o, c
  <2> QED
    BY <1>f, <2>3, <2>4
<1>8. ASSUME NEW r \in Requests, FindForLogout(r) PROVE RequestInv'
  <2>1. req[r] \in Request /\ "revoke" \in Steps
    BY <1>8, <1>b DEF FindForLogout, At, Steps
  <2>2. CASE req[r].token # NoToken
    <3>1. req[r].token \in Seconds
      BY <2>1, <2>2, SessionsAssumption DEF Request, NoToken, Seconds
    <3> QED
      BY <1>8, <1>g, <1>i, <2>1, <3>1 DEF FindForLogout
  <2>3. CASE req[r].token = NoToken
    BY <1>8, <1>g, <2>3 DEF FindForLogout
  <2> QED
    BY <2>2, <2>3
<1>9. ASSUME NEW r \in Requests, RevokeRow(r) PROVE RequestInv'
  <2>1. req[r] \in Request /\ "issue" \in Steps /\ req[r].token \in Seconds
    BY <1>9, <1>b DEF RevokeRow, Steps, IInv, RequestInv
  <2>2. row'[req[r].token] = "revoked"
    BY <1>9, <1>a, <2>1 DEF RevokeRow
  <2> QED
    BY <1>9, <1>g, <1>i, <2>1, <2>2 DEF RevokeRow
<1>10. ASSUME NEW r \in Requests, RevokeAll(r) PROVE RequestInv'
  <2> SUFFICES ASSUME NEW q \in Requests, req'[q] \in Request PROVE Kept(req'[q])
    BY <1>d
  <2>1. q # r
    <3>1. AnswerOf(r, Keep) \notin Request
      BY DEF AnswerOf, Request, Steps
    <3> QED
      BY <1>10, <3>1 DEF RevokeAll
  <2>2. CASE Issuing(q)
    <3>1. req[q] \in Request
      BY <1>b, <2>2 DEF Issuing, Steps
    <3>2. req'[q] = [req[q] EXCEPT !.old = TRUE, !.carried = TRUE]
      BY <1>10, <2>1, <2>2 DEF RevokeAll
    <3> QED
      BY <1>c, <3>1, <3>2 DEF Kept, Request
  <2>3. CASE ~Issuing(q)
    <3>1. req'[q] = req[q]
      BY <1>10, <2>1, <2>3 DEF RevokeAll
    <3> QED
      BY <1>c, <3>1
  <2> QED
    BY <2>2, <2>3
<1>11. CASE Tick \/ Cleanup \/ UNCHANGED vars
  BY <1>11, <1>c, <1>d DEF Tick, Cleanup, vars
<1> QED
  BY <1>1, <1>2, <1>3, <1>4, <1>5, <1>6, <1>7, <1>8, <1>9, <1>10, <1>11 DEF Next, Step

\* The invariant holds in every state.
LEMMA SpecIInv == Spec => []IInv
<1>1. IInv /\ [Next]_vars => IInv'
  BY NextType, NextRequests, NextTokens DEF IInv
<1> QED
  BY <1>1, InitIInv, PTL DEF Spec

\* Refresh tokens, cookies and requests keep their types.
THEOREM TypeCorrect == Spec => []TypeOK
  BY SpecIInv, PTL DEF IInv

(***************************************************************************)
(* A token that was exchanged for a live one is not live itself.           *)
(***************************************************************************)
THEOREM ParentTheorem == Spec => []ParentSpent
<1>1. IInv => ParentSpent
  BY DEF IInv, ParentsInv, Spent, ParentSpent
<1> QED
  BY <1>1, SpecIInv, PTL

(***************************************************************************)
(* Ending all sessions ends them, but for the tokens of requests that were *)
(* under way and what was exchanged for them.                              *)
(***************************************************************************)
THEOREM OldSessionsTheorem == Spec => []OldSessionsEnd
  BY SpecIInv, PTL DEF IInv
-----------------------------------------------------------------------------
(* Who has a token: it is in the cookie of the browser, came with one of   *)
(* its requests that is under way, or goes to it with an answer.           *)

Asks(r, b) == req[r] \in Request /\ req[r].by = b
Answers(r, b) == req[r] \in Answer /\ req[r].by = b
UnderWayOf(r, b) == Asks(r, b) \/ Answers(r, b)

Has(b, s) ==
  \/ cookie[b] = s
  \/ \E r \in Requests : Asks(r, b) /\ req[r].token = s
  \/ \E r \in Requests : Answers(r, b) /\ req[r].set = s

Unissued(s) == s >= now /\ row[s] = "none"

\* A token belongs to the browser it was issued to, and to none before that.
OwnersInv ==
  /\ \A s \in Seconds : s > now => row[s] = "none"
  /\ \A s \in Seconds : Unissued(s) => revokedBy[s] = "" /\ \A b \in Browsers : ~Has(b, s)
  /\ \A s \in Seconds, b, c \in Browsers : Has(b, s) /\ Has(c, s) => b = c

\* Revoked by nothing that the browser would know of.
Unknowing(s) == revokedBy[s] \in {"", "all", "failure"}

\* The request of a browser after which its cookie is another.
Exchanging(r, b) ==
  \/ Asks(r, b) /\ req[r].kind = "refresh" /\ req[r].pc = "issue"
  \/ Answers(r, b) /\ req[r].set # Keep

\* A browser that waits for each reply before its next request.
SingleInv ==
  \A b \in single :
    /\ \A q, r \in Requests : UnderWayOf(q, b) /\ UnderWayOf(r, b) => q = r
    /\ \A r \in Requests : Asks(r, b) /\ req[r].kind \in {"refresh", "logout"} => req[r].token = cookie[b]
    /\ cookie[b] \in Seconds /\ (\A r \in Requests : ~Exchanging(r, b)) => Unknowing(cookie[b])
    /\ \A r \in Requests : Answers(r, b) /\ req[r].set \in Seconds => Unknowing(req[r].set)

\* What is revoked has a cause, and so has what refreshToken finds revoked.
CauseInv ==
  /\ \A s \in Seconds : row[s] = "revoked" => revokedBy[s] # ""
  /\ \A r \in Requests : At(r, {"refresh"}, "revokeAll") => revokedBy[req[r].token] # ""

ReuseInv == OwnersInv /\ SingleInv /\ CauseInv

\* The two shapes of what is under way are told apart.
LEMMA AsksOrAnswers ==
  /\ \A q \in Request : q.pc \in Steps /\ q \notin Answer
  /\ \A q \in Answer : q.pc = "reply" /\ q \notin Request /\ q # Idle
  /\ Idle \notin Request /\ Idle \notin Answer
  /\ Keep # NoToken /\ Keep \notin Seconds /\ NoToken \notin Seconds
  BY DEF Idle, Answer, Request, Steps, Keep, NoToken, Seconds

\* The same request as before, but for the traces of the end of all sessions.
Alike(q, p) ==
  \/ p = q
  \/ /\ q \in Request /\ p \in Request
     /\ p.pc = q.pc /\ p.kind = q.kind /\ p.by = q.by /\ p.token = q.token

\* What a step makes of its own request, and that it leaves the others alone.
LEMMA StepShape ==
  ASSUME TypeOK, TypeOK', NEW r \in Requests, Step(r)
  PROVE  /\ \A q \in Requests : q # r => Alike(req[q], req'[q])
         /\ Reply(r) => req[r] \in Answer /\ req'[r] = Idle
         /\ ~Reply(r) => /\ req[r] \in Request
                         /\ \/ /\ req'[r] \in Request /\ req'[r].kind = req[r].kind
                               /\ req'[r].by = req[r].by /\ req'[r].token = req[r].token
                            \/ /\ req'[r] \in Answer /\ req'[r].by = req[r].by
                               /\ req'[r].set \in {Keep, NoToken} \/ (Issue(r) /\ req'[r].set = now)
<1>a. req \in [Requests -> {Idle} \union Request \union Answer] /\ req' \in [Requests -> {Idle} \union Request \union Answer]
  BY DEF TypeOK
<1>b. req[r].pc \in Steps => req[r] \in Request
  BY <1>a, RequestOrNot
<1>1. CASE Reply(r)
  <2>1. req[r] \in Answer
    BY <1>1, <1>a, AsksOrAnswers DEF Reply, Idle, Steps
  <2> QED
    BY <1>1, <1>a, <2>1 DEF Reply, End, Alike
<1>2. CASE RevokeAll(r)
  <2>1. req[r] \in Request
    BY <1>2, <1>b DEF RevokeAll, Steps
  <2>2. ASSUME NEW q \in Requests, q # r PROVE Alike(req[q], req'[q])
    <3>1. CASE Issuing(q)
      <4>1. req[q] \in Request
        BY <1>a, <3>1, RequestOrNot DEF Issuing, Steps
      <4>2. req'[q] = [req[q] EXCEPT !.old = TRUE, !.carried = TRUE]
        BY <1>2, <2>2, <3>1 DEF RevokeAll
      <4> QED
        BY <4>1, <4>2 DEF Alike, Request
    <3>2. CASE ~Issuing(q)
      BY <1>2, <2>2, <3>2 DEF RevokeAll, Alike
    <3> QED
      BY <3>1, <3>2
  <2>3. req'[r] = AnswerOf(r, Keep)
    BY <1>2 DEF RevokeAll
  <2>4. req'[r] \in Answer /\ req'[r].by = req[r].by /\ req'[r].set = Keep
    BY <1>a, <2>3 DEF AnswerOf, Idle, Request, Answer, Steps
  <2>5. ~Reply(r)
    BY <2>1, AsksOrAnswers DEF Reply, Steps
  <2> QED
    BY <2>1, <2>2, <2>4, <2>5
\* A request that goes on, and one that is answered.
<1>3. ASSUME req[r] \in Request, NEW step \in Steps, Goto(r, step)
      PROVE  /\ req'[r] \in Request /\ req'[r].kind = req[r].kind /\ req'[r].by = req[r].by /\ req'[r].token = req[r].token
             /\ \A q \in Requests : q # r => Alike(req[q], req'[q])
  BY <1>3, <1>a DEF Goto, Request, Alike
<1>4. ASSUME req[r] \in Request, NEW set, req' = [req EXCEPT ![r] = AnswerOf(r, set)]
      PROVE  /\ req'[r] \in Answer /\ req'[r].by = req[r].by /\ req'[r].set = set
             /\ \A q \in Requests : q # r => Alike(req[q], req'[q])
  <2>1. req'[r] = AnswerOf(r, set)
    BY <1>4, <1>a
  <2>2. req'[r] \in Answer
    BY <1>a, <2>1 DEF AnswerOf, Idle, Request, Steps
  <2> QED
    BY <1>4, <1>a, <2>1, <2>2 DEF AnswerOf, Alike
<1>5. CASE ~Reply(r) /\ ~RevokeAll(r)
  <2>0. req[r] \in Request
    BY <1>5, <1>b DEF Step, At, Steps, ReadUser, SaveUser, Issue, IssueFails, FindNothing, FindRevoked, FindLive,
                      FindForLogout, RevokeRow, Remove, NoSuchUser
  <2>1. CASE Issue(r)
    BY <2>0, <2>1, <1>4, <1>5 DEF Issue
  <2>2. CASE FindLive(r)
    <3>1. PICK o, c : req' = [req EXCEPT ![r].pc = "revoke", ![r].user = user, ![r].old = o, ![r].carried = c]
      BY <2>2 DEF FindLive
    <3>2. \A q \in Requests : q # r => Alike(req[q], req'[q])
      BY <1>a, <3>1 DEF Alike
    <3>3. req'[r].pc = "revoke" /\ req'[r].kind = req[r].kind /\ req'[r].by = req[r].by /\ req'[r].token = req[r].token
      BY <1>a, <2>0, <3>1 DEF Request
    <3>4. req'[r] \in Request
      BY <1>a, <3>3, RequestOrNot DEF Steps
    <3> QED
      BY <2>0, <3>2, <3>3, <3>4, <1>5
  <2>3. CASE IssueFails(r) \/ FindNothing(r) \/ NoSuchUser(r)
    BY <2>0, <2>3, <1>4, <1>5 DEF IssueFails, FindNothing, NoSuchUser, Refuse
  <2>4. CASE ReadUser(r)
    <3>1. AfterRead(req[r].pc) \in Steps
      BY DEF AfterRead, Steps
    <3> QED
      BY <2>0, <2>4, <3>1, <1>3, <1>4, <1>5 DEF ReadUser, Refuse
  <2>5. CASE SaveUser(r) \/ FindRevoked(r) \/ Remove(r)
    <3>1. "issue" \in Steps /\ "revokeAll" \in Steps
      BY DEF Steps
    <3> QED
      BY <2>0, <2>5, <3>1, <1>3, <1>5 DEF SaveUser, FindRevoked, Remove
  <2>6. CASE FindForLogout(r) \/ RevokeRow(r)
    <3>1. "issue" \in Steps /\ "revoke" \in Steps
      BY DEF Steps
    <3> QED
      BY <2>0, <2>6, <3>1, <1>3, <1>4, <1>5 DEF FindForLogout, RevokeRow
  <2> QED
    BY <1>5, <2>1, <2>2, <2>3, <2>4, <2>5, <2>6 DEF Step
<1> QED
  BY <1>1, <1>2, <1>5

\* A browser has no other tokens after a step than those it had, and the one
\* that the step issues to it.
LEMMA NextHas ==
  ASSUME TypeOK, TypeOK', [Next]_vars, NEW b \in Browsers, NEW s \in Seconds, Has(b, s)'
  PROVE  Has(b, s) \/ \E r \in Requests : Issue(r) /\ req[r] \in Request /\ req[r].by = b /\ s = now
<1>a. cookie \in [Browsers -> 0..MaxNow] /\ req \in [Requests -> {Idle} \union Request \union Answer]
  BY DEF TypeOK
<1>b. s # NoToken /\ s # Keep
  BY AsksOrAnswers
<1>1. ASSUME NEW r \in Requests, NEW c \in Browsers, NEW kind \in Kinds, Send(r, c, kind) PROVE Has(b, s)
  <2>1. req'[r].token \in {cookie[c], NoToken} /\ req'[r].by = c /\ req'[r] \notin Answer
    BY <1>1, <1>a, AsksOrAnswers DEF Send, First, Steps, Answer
  <2>2. cookie' = cookie /\ \A q \in Requests : q # r => req'[q] = req[q]
    BY <1>1, <1>a DEF Send
  <2> QED
    BY <1>b, <2>1, <2>2 DEF Has, Asks, Answers
<1>2. ASSUME NEW r \in Requests, Lose(r) PROVE Has(b, s)
  <2>1. cookie' = cookie /\ req'[r] = Idle /\ \A q \in Requests : q # r => req'[q] = req[q]
    BY <1>2, <1>a DEF Lose, End
  <2> QED
    BY <2>1, AsksOrAnswers DEF Has, Asks, Answers
<1>3. ASSUME NEW r \in Requests, Step(r), ~Reply(r)
      PROVE  Has(b, s) \/ \E q \in Requests : Issue(q) /\ req[q] \in Request /\ req[q].by = b /\ s = now
  <2>1. cookie' = cookie
    BY <1>3 DEF Step, ReadUser, SaveUser, Issue, IssueFails, FindNothing, FindRevoked, FindLive, FindForLogout, RevokeRow,
                Remove, NoSuchUser, RevokeAll
  <2>2. CASE \E q \in Requests : q # r /\ ((Asks(q, b)' /\ req'[q].token = s) \/ (Answers(q, b)' /\ req'[q].set = s))
    BY <1>3, <2>2, StepShape, AsksOrAnswers DEF Alike, Has, Asks, Answers
  <2>3. CASE (Asks(r, b)' /\ req'[r].token = s) \/ (Answers(r, b)' /\ req'[r].set = s)
    BY <1>3, <1>b, <2>3, StepShape, AsksOrAnswers DEF Has, Asks, Answers
  <2>4. CASE cookie'[b] = s
    BY <2>1, <2>4 DEF Has
  <2> QED
    BY <2>2, <2>3, <2>4 DEF Has
<1>4. ASSUME NEW r \in Requests, Reply(r) PROVE Has(b, s)
  <2>1. req[r] \in Answer /\ req'[r] = Idle /\ \A q \in Requests : q # r => req'[q] = req[q]
    BY <1>4, <1>a, StepShape DEF Step, Reply, End
  <2>2. cookie'[b] = cookie[b] \/ (req[r].by = b /\ cookie'[b] = req[r].set)
    BY <1>4, <1>a DEF Reply
  <2> QED
    BY <2>1, <2>2, AsksOrAnswers DEF Has, Asks, Answers
<1>5. CASE Tick \/ Cleanup \/ UNCHANGED vars
  BY <1>5 DEF Tick, Cleanup, vars, Has, Asks, Answers
<1> QED
  BY <1>1, <1>2, <1>3, <1>4, <1>5 DEF Next

\* What changes the cause of a token's end.
LEMMA NextCauses ==
  ASSUME IInv, [Next]_vars, NEW s \in Seconds
  PROVE  \/ revokedBy'[s] = revokedBy[s]
         \/ revokedBy'[s] = "all" /\ row[s] = "live"
         \/ revokedBy'[s] = "failure" /\ \E r \in Requests : IssueFails(r) /\ Asks(r, req[r].by) /\ req[r].token = s
         \/ /\ revokedBy'[s] \in {"exchange", "logout"}
            /\ \E r \in Requests : RevokeRow(r) /\ Asks(r, req[r].by) /\ req[r].token = s
<1>a. revokedBy \in [Seconds -> Causes] /\ \A r \in Requests : req[r].pc \in Steps => Asks(r, req[r].by)
  BY RequestOrNot DEF IInv, TypeOK, Asks
<1>1. ASSUME NEW r \in Requests, Step(r), revokedBy'[s] # revokedBy[s]
      PROVE  IssueFails(r) \/ RevokeRow(r) \/ RevokeAll(r)
  BY <1>1 DEF Step, Reply, ReadUser, SaveUser, Issue, FindNothing, FindRevoked, FindLive, FindForLogout, Remove, NoSuchUser, history
<1>2. CASE revokedBy'[s] # revokedBy[s]
  <2>1. PICK r \in Requests : IssueFails(r) \/ RevokeRow(r) \/ RevokeAll(r)
    BY <1>1, <1>2 DEF Next, Lose, Send, Tick, Cleanup, vars, history
  <2>2. CASE IssueFails(r)
    BY <1>2, <2>2, <1>a DEF IssueFails, Steps
  <2>3. CASE RevokeRow(r)
    BY <1>2, <2>3, <1>a DEF RevokeRow, Steps
  <2>4. CASE RevokeAll(r)
    BY <1>2, <2>4, <1>a DEF RevokeAll, RevokedTogether
  <2> QED
    BY <2>1, <2>2, <2>3, <2>4
<1> QED
  BY <1>2

\* What changes the row of a token.
LEMMA NextRows ==
  ASSUME IInv, [Next]_vars, NEW s \in Seconds
  PROVE  \/ row'[s] = row[s]
         \/ row[s] = "none" /\ row'[s] = "live" /\ s = now /\ \E r \in Requests : Issue(r)
         \/ row[s] = "live" /\ row'[s] = "revoked" /\ revokedBy'[s] = "all"
         \/ /\ row'[s] = "revoked" /\ revokedBy'[s] # ""
            /\ \E r \in Requests : RevokeRow(r) /\ Asks(r, req[r].by) /\ req[r].token = s
         \/ row'[s] = "none" /\ s < now
<1> USE DEF IInv, TypeOK
<1>1. CASE row'[s] # row[s]
  <2>1. Cleanup \/ \E r \in Requests : Issue(r) \/ RevokeRow(r) \/ RevokeAll(r)
    BY <1>1 DEF Next, Step, Lose, Send, Reply, ReadUser, SaveUser, IssueFails, FindNothing, FindRevoked, FindLive,
                FindForLogout, Remove, NoSuchUser, Tick, vars
  <2>2. ASSUME NEW r \in Requests, Issue(r)
        PROVE row[s] = "none" /\ row'[s] = "live" /\ s = now
    BY <1>1, <2>2 DEF Issue, CanIssue
  <2>3. ASSUME NEW r \in Requests, RevokeRow(r)
        PROVE row'[s] = "revoked" /\ revokedBy'[s] # "" /\ Asks(r, req[r].by) /\ req[r].token = s
    <3>1. req[r] \in Request
      BY <2>3, RequestOrNot DEF RevokeRow, Steps
    <3> QED
      BY <1>1, <2>3, <3>1 DEF RevokeRow, Asks
  <2>4. ASSUME NEW r \in Requests, RevokeAll(r)
        PROVE row[s] = "live" /\ row'[s] = "revoked" /\ revokedBy'[s] = "all"
    BY <1>1, <2>4 DEF RevokeAll, RevokedTogether
  <2>5. ASSUME Cleanup PROVE row'[s] = "none" /\ s < now
    BY <1>1, <2>5, SessionsAssumption DEF Cleanup, Deletable, Expired, Seconds
  <2> QED
    BY <2>1, <2>2, <2>3, <2>4, <2>5
<1> QED
  BY <1>1

\* Every step preserves the owners of the tokens.
LEMMA NextOwners == IInv /\ OwnersInv /\ [Next]_vars /\ TypeOK' => OwnersInv'
<1> SUFFICES ASSUME IInv, OwnersInv, [Next]_vars, TypeOK' PROVE OwnersInv'
  OBVIOUS
<1>a. TypeOK /\ now \in Nat /\ now' \in Nat /\ Seconds \subseteq Nat
  BY DEF IInv, TypeOK, Seconds
<1>b. now' >= now
  <2>1. CASE Tick
    BY <2>1, <1>a DEF Tick
  <2>2. CASE ~Tick
    <3>1. now' = now
      BY <2>2 DEF Next, Step, Lose, Send, Reply, ReadUser, SaveUser, Issue, IssueFails, FindNothing, FindRevoked, FindLive,
                  FindForLogout, RevokeRow, Remove, NoSuchUser, RevokeAll, Cleanup, vars
    <3> QED
      BY <1>a, <3>1
  <2> QED
    BY <2>1, <2>2
<1>c. ASSUME NEW r \in Requests, Asks(r, req[r].by), req[r].token \in Seconds PROVE ~Unissued(req[r].token)
  <2>1. req[r].by \in Browsers /\ Has(req[r].by, req[r].token)
    BY <1>c DEF Asks, Has, Request
  <2> QED
    BY <1>c, <2>1 DEF OwnersInv
<1>1. ASSUME NEW s \in Seconds, s > now' PROVE row'[s] = "none"
  <2>0. s > now /\ s >= now /\ s # now /\ ~(s < now)
    BY <1>1, <1>a, <1>b
  <2>1. row[s] = "none" /\ Unissued(s)
    BY <2>0 DEF OwnersInv, Unissued
  <2> QED
    BY <1>c, <2>0, <2>1, NextRows
<1>2. ASSUME NEW s \in Seconds, s >= now', row'[s] = "none"
      PROVE  Unissued(s) /\ revokedBy'[s] = "" /\ \A b \in Browsers : ~Has(b, s)'
  <2>1. Unissued(s)
    <3>1. s >= now /\ ~(s < now)
      BY <1>2, <1>a, <1>b
    <3> QED
      BY <1>2, <3>1, NextRows DEF Unissued
  <2>2. row[s] = "none" /\ revokedBy[s] = ""
    BY <2>1 DEF OwnersInv, Unissued
  <2>3. revokedBy'[s] = ""
    BY <1>c, <2>1, <2>2, NextCauses
  <2>4. ASSUME NEW b \in Browsers, Has(b, s)' PROVE FALSE
    <3>1. ~Has(b, s)
      BY <2>1 DEF OwnersInv
    <3>2. PICK r \in Requests : Issue(r) /\ s = now
      BY <1>a, <2>4, <3>1, NextHas
    <3>3. row'[s] = "live"
      BY <3>2, <1>a DEF Issue, TypeOK
    <3> QED
      BY <1>2, <3>3
  <2> QED
    BY <2>1, <2>3, <2>4
<1>3. ASSUME NEW s \in Seconds, NEW b \in Browsers, NEW c \in Browsers, Has(b, s)', Has(c, s)' PROVE b = c
  <2>1. CASE Has(b, s) /\ Has(c, s)
    BY <2>1 DEF OwnersInv
  <2>2. CASE ~(Has(b, s) /\ Has(c, s))
    <3>1. PICK r \in Requests : Issue(r) /\ s = now
      BY <1>3, <1>a, <2>2, NextHas
    <3>2. Unissued(s)
      BY <3>1, <1>a DEF Issue, CanIssue, Unissued
    <3>3. ~Has(b, s) /\ ~Has(c, s)
      BY <3>2 DEF OwnersInv
    <3>4. PICK p \in Requests : Issue(p) /\ req[p].by = b
      BY <1>3, <1>a, <3>3, NextHas
    <3>5. PICK q \in Requests : Issue(q) /\ req[q].by = c
      BY <1>3, <1>a, <3>3, NextHas
    <3>6. p = q
      BY <3>4, <3>5, <1>a DEF Issue, AnswerOf, TypeOK
    <3> QED
      BY <3>4, <3>5, <3>6
  <2> QED
    BY <2>1, <2>2
<1> QED
  BY <1>1, <1>2, <1>3 DEF OwnersInv, Unissued

\* Every step preserves that what is revoked has a cause.
LEMMA NextCause == IInv /\ CauseInv /\ [Next]_vars /\ TypeOK' => CauseInv'
<1> SUFFICES ASSUME IInv, CauseInv, [Next]_vars, TypeOK' PROVE CauseInv'
  OBVIOUS
<1>a. TypeOK
  BY DEF IInv
<1>1. ASSUME NEW s \in Seconds, revokedBy[s] # "" PROVE revokedBy'[s] # ""
  BY <1>1, NextCauses
<1>2. ASSUME NEW s \in Seconds, row'[s] = "revoked" PROVE revokedBy'[s] # ""
  BY <1>1, <1>2, NextRows DEF CauseInv
<1>3. ASSUME NEW r \in Requests, At(r, {"refresh"}, "revokeAll")' PROVE revokedBy'[req'[r].token] # ""
  <2>1. CASE At(r, {"refresh"}, "revokeAll") /\ req'[r].token = req[r].token
    <3>1. req[r].token \in Seconds
      BY <2>1, <1>a, RequestOrNot DEF At, Steps, IInv, RequestInv, TypeOK
    <3> QED
      BY <1>1, <2>1, <3>1 DEF CauseInv
  <2>2. CASE FindRevoked(r)
    <3>1. req[r] \in Request /\ req[r].token \in Seconds /\ row[req[r].token] = "revoked"
      BY <2>2, <1>a, RequestOrNot DEF FindRevoked, Presented, At, Steps, IInv, RequestInv, TypeOK
    <3>2. req'[r].token = req[r].token
      BY <2>2, <3>1, <1>a DEF FindRevoked, Goto, Request, TypeOK
    <3> QED
      BY <1>1, <3>1, <3>2 DEF CauseInv
  <2>3. req'[r] \in Request /\ req'[r].kind = "refresh" /\ req'[r].pc = "revokeAll"
    BY <1>3, RequestOrNot DEF At, Steps, TypeOK
  <2>4. ASSUME NEW q \in Requests, Step(q), ~FindRevoked(r)
        PROVE  At(r, {"refresh"}, "revokeAll") /\ req'[r].token = req[r].token
    <3>1. CASE q # r
      BY <1>a, <2>3, <2>4, <3>1, StepShape DEF Alike, At
    <3>2. CASE q = r
      <4>1. req[r] \in Request /\ req[r].kind = "refresh"
        BY <1>a, <2>3, <2>4, <3>2, StepShape, AsksOrAnswers
      <4>2. \A set : req'[r] # AnswerOf(r, set)
        BY <2>3 DEF AnswerOf
      <4>3. IssueFails(r) \/ FindLive(r) \/ Issue(r) \/ FindNothing(r) \/ RevokeRow(r) \/ RevokeAll(r)
        BY <2>4, <3>2, <4>1, AsksOrAnswers DEF Step, Reply, At, ReadUser, SaveUser, FindForLogout, Remove, NoSuchUser, Steps
      <4>4. req'[r].pc \in {"revoke", "issue"} \/ \E set : req'[r] = AnswerOf(r, set)
        <5>1. CASE FindLive(r)
          <6>1. PICK o, c : req' = [req EXCEPT ![r].pc = "revoke", ![r].user = user, ![r].old = o, ![r].carried = c]
            BY <5>1 DEF FindLive
          <6> QED
            BY <1>a, <4>1, <6>1 DEF TypeOK, Request
        <5>2. CASE RevokeRow(r)
          BY <1>a, <4>1, <5>2 DEF RevokeRow, Goto, TypeOK, Request
        <5>3. CASE IssueFails(r) \/ Issue(r) \/ FindNothing(r)
          BY <1>a, <5>3 DEF IssueFails, Issue, FindNothing, Refuse, TypeOK
        <5>4. CASE RevokeAll(r)
          BY <1>a, <5>4 DEF RevokeAll
        <5> QED
          BY <4>3, <5>1, <5>2, <5>3, <5>4
      <4> QED
        BY <2>3, <4>2, <4>4
    <3> QED
      BY <3>1, <3>2
  <2>5. ASSUME NEW q \in Requests, Lose(q) \/ \E b \in Browsers, kind \in Kinds : Send(q, b, kind)
        PROVE  At(r, {"refresh"}, "revokeAll") /\ req'[r].token = req[r].token
    <3>1. q # r
      BY <1>a, <2>3, <2>5, AsksOrAnswers DEF Lose, End, Send, First, TypeOK
    <3> QED
      BY <1>a, <2>3, <2>5, <3>1 DEF Lose, End, Send, At, TypeOK
  <2>6. CASE Tick \/ Cleanup \/ UNCHANGED vars
    BY <2>1, <2>3, <2>6 DEF Tick, Cleanup, vars, At
  <2> QED
    BY <2>1, <2>2, <2>4, <2>5, <2>6 DEF Next
<1> QED
  BY <1>2, <1>3 DEF CauseInv

\* A step of a request preserves what is known of the browsers that wait.
LEMMA StepSingle ==
  ASSUME IInv, OwnersInv, SingleInv, TypeOK', NEW r \in Requests, Step(r), NEW b \in single
  PROVE  /\ \A p, q \in Requests : UnderWayOf(p, b)' /\ UnderWayOf(q, b)' => p = q
         /\ \A q \in Requests : Asks(q, b)' /\ req'[q].kind \in {"refresh", "logout"} => req'[q].token = cookie'[b]
         /\ cookie'[b] \in Seconds /\ (\A q \in Requests : ~Exchanging(q, b)') => Unknowing(cookie[b])'
         /\ \A q \in Requests : Answers(q, b)' /\ req'[q].set \in Seconds => Unknowing(req[q].set)'
<1>a. TypeOK /\ b \in Browsers /\ [Next]_vars /\ cookie \in [Browsers -> 0..MaxNow]
  BY DEF IInv, TypeOK, Next
<1>b. /\ \A p, q \in Requests : UnderWayOf(p, b) /\ UnderWayOf(q, b) => p = q
      /\ \A q \in Requests : Asks(q, b) /\ req[q].kind \in {"refresh", "logout"} => req[q].token = cookie[b]
      /\ cookie[b] \in Seconds /\ (\A q \in Requests : ~Exchanging(q, b)) => Unknowing(cookie[b])
      /\ \A q \in Requests : Answers(q, b) /\ req[q].set \in Seconds => Unknowing(req[q].set)
  BY DEF SingleInv, UnderWayOf
<1>c. \A q \in Requests : q # r => Alike(req[q], req'[q])
  BY <1>a, StepShape
<1>d. Reply(r) => req[r] \in Answer /\ req'[r] = Idle
  BY <1>a, StepShape
<1>e. ~Reply(r) => /\ req[r] \in Request
                   /\ \/ /\ req'[r] \in Request /\ req'[r].kind = req[r].kind
                         /\ req'[r].by = req[r].by /\ req'[r].token = req[r].token
                      \/ /\ req'[r] \in Answer /\ req'[r].by = req[r].by
                         /\ req'[r].set \in {Keep, NoToken} \/ (Issue(r) /\ req'[r].set = now)
  BY <1>a, StepShape
<1>f. \A q \in Requests : UnderWayOf(q, b)' => UnderWayOf(q, b)
  BY <1>c, <1>d, <1>e, AsksOrAnswers DEF UnderWayOf, Asks, Answers, Alike
<1>g. cookie'[b] = cookie[b] \/ (Reply(r) /\ req[r].by = b /\ req[r].set # Keep /\ cookie'[b] = req[r].set)
  BY <1>a DEF Step, Reply, ReadUser, SaveUser, Issue, IssueFails, FindNothing, FindRevoked, FindLive, FindForLogout, RevokeRow,
              Remove, NoSuchUser, RevokeAll
\* A token that this browser has is revoked by a request of its own only.
<1>h. ASSUME NEW s \in Seconds, Has(b, s), Unknowing(s), ~Unknowing(s)'
      PROVE  \E q \in Requests : RevokeRow(q) /\ Asks(q, b) /\ req[q].token = s
  <2>1. PICK q \in Requests : RevokeRow(q) /\ Asks(q, req[q].by) /\ req[q].token = s
    BY <1>a, <1>h, NextCauses DEF Unknowing
  <2>2. req[q].by \in Browsers /\ Has(req[q].by, s)
    BY <2>1 DEF Asks, Has, Request
  <2> QED
    BY <1>a, <1>h, <2>1, <2>2 DEF OwnersInv
<1>1. \A p, q \in Requests : UnderWayOf(p, b)' /\ UnderWayOf(q, b)' => p = q
  BY <1>b, <1>f
<1>2. ASSUME NEW q \in Requests, Asks(q, b)', req'[q].kind \in {"refresh", "logout"} PROVE req'[q].token = cookie'[b]
  <2>1. Asks(q, b) /\ req[q].kind = req'[q].kind /\ req[q].token = req'[q].token
    BY <1>2, <1>c, <1>d, <1>e, AsksOrAnswers DEF Asks, Alike
  <2>2. ~(Reply(r) /\ req[r].by = b)
    BY <1>b, <1>d, <2>1, AsksOrAnswers DEF UnderWayOf, Asks, Answers
  <2> QED
    BY <1>b, <1>2, <1>g, <2>1, <2>2
<1>3. ASSUME cookie'[b] \in Seconds, \A q \in Requests : ~Exchanging(q, b)' PROVE Unknowing(cookie[b])'
  <2> DEFINE s == cookie'[b]
  <2>1. CASE Reply(r) /\ req[r].by = b /\ cookie'[b] = req[r].set
    <3>1. Answers(r, b) /\ req[r].set \in Seconds /\ revokedBy' = revokedBy
      BY <1>d, <1>3, <2>1 DEF Answers, Reply, history
    <3> QED
      BY <1>b, <2>1, <3>1 DEF Unknowing
  <2>2. CASE cookie'[b] = cookie[b] /\ ~(Reply(r) /\ req[r].by = b /\ cookie'[b] = req[r].set)
    <3>1. PICK s1 \in Seconds : s1 = cookie[b] /\ s1 = cookie'[b]
      BY <1>3, <2>2
    <3>2. Has(b, s1)
      BY <3>1 DEF Has
    <3>3. CASE \A q \in Requests : ~Exchanging(q, b)
      <4>1. Unknowing(s1)
        BY <1>b, <3>1, <3>3
      <4>2. ASSUME NEW q \in Requests, RevokeRow(q), Asks(q, b), req[q].token = s1 PROVE Exchanging(q, b)'
        <5>1. \/ req' = [req EXCEPT ![q].pc = "issue"] /\ req[q].kind = "refresh"
              \/ req' = [req EXCEPT ![q] = AnswerOf(q, NoToken)]
          BY <4>2 DEF RevokeRow, Goto
        <5>2. CASE req' = [req EXCEPT ![q].pc = "issue"] /\ req[q].kind = "refresh"
          BY <1>a, <4>2, <5>2 DEF TypeOK, Request, Steps, Asks, Exchanging
        <5>3. CASE req' = [req EXCEPT ![q] = AnswerOf(q, NoToken)]
          <6>1. req'[q] = AnswerOf(q, NoToken)
            BY <1>a, <5>3 DEF TypeOK
          <6>2. req'[q].by = b /\ req'[q].set # Keep /\ req'[q].pc = "reply"
            BY <4>2, <6>1, AsksOrAnswers DEF AnswerOf, Asks
          <6>3. req'[q] \in Answer
            BY <6>2 DEF TypeOK, Idle, Request, Steps
          <6> QED
            BY <6>2, <6>3 DEF Exchanging, Answers
        <5> QED
          BY <5>1, <5>2, <5>3
      <4>3. Unknowing(s1)'
        BY <1>3, <1>h, <3>2, <4>1, <4>2
      <4> QED
        BY <3>1, <4>3 DEF Unknowing
    <3>4. ASSUME NEW q \in Requests, Exchanging(q, b) PROVE revokedBy'[s1] = "failure"
      <4>1. q = r
        BY <1>3, <1>c, <3>4, AsksOrAnswers DEF Exchanging, Asks, Answers, Alike
      <4>2. CASE Answers(r, b) /\ req[r].set # Keep
        <5>1. Reply(r)
          BY <1>e, <4>2, AsksOrAnswers DEF Answers
        <5> QED
          BY <2>2, <1>a, <4>2, <5>1 DEF Reply, Answers
      <4>3. CASE Asks(r, b) /\ req[r].kind = "refresh" /\ req[r].pc = "issue"
        <5>1. Issue(r) \/ IssueFails(r)
          BY <4>3 DEF Step, Reply, ReadUser, SaveUser, FindNothing, FindRevoked, FindLive, FindForLogout, RevokeRow,
                      Remove, NoSuchUser, RevokeAll, At
        <5>2. CASE Issue(r)
          <6>1. req'[r] = AnswerOf(r, now) /\ now \in Seconds
            BY <1>a, <5>2 DEF Issue, TypeOK
          <6>2. req'[r].pc = "reply" /\ req'[r].by = b /\ req'[r].set # Keep
            BY <4>3, <6>1, AsksOrAnswers DEF AnswerOf, Asks
          <6>3. req'[r] \in Answer
            BY <6>2 DEF TypeOK, Idle, Request, Steps
          <6> QED
            BY <1>3, <6>2, <6>3 DEF Exchanging, Answers
        <5>3. CASE IssueFails(r)
          <6>1. req[r].token = s1
            BY <1>b, <3>1, <4>3
          <6> QED
            BY <1>a, <4>3, <5>3, <6>1 DEF IssueFails, TypeOK
        <5> QED
          BY <5>1, <5>2, <5>3
      <4> QED
        BY <3>4, <4>1, <4>2, <4>3 DEF Exchanging
    <3> QED
      BY <3>1, <3>3, <3>4 DEF Unknowing
  <2> QED
    BY <1>g, <2>1, <2>2
<1>4. ASSUME NEW q \in Requests, Answers(q, b)', req'[q].set \in Seconds PROVE Unknowing(req[q].set)'
  <2>1. CASE q # r
    <3>1. req'[q] = req[q] /\ Answers(q, b)
      BY <1>4, <1>c, <2>1, AsksOrAnswers DEF Alike, Answers
    <3>2. PICK s \in Seconds : s = req[q].set /\ s = req'[q].set
      BY <1>4, <3>1
    <3>3. Has(b, s) /\ Unknowing(s)
      BY <1>b, <3>1, <3>2 DEF Has
    <3>4. ASSUME NEW p \in Requests, Asks(p, b) PROVE FALSE
      <4>1. p = q
        BY <1>b, <3>1, <3>4 DEF UnderWayOf
      <4> QED
        BY <3>1, <3>4, <4>1, AsksOrAnswers DEF Asks, Answers
    <3>5. Unknowing(s)'
      BY <1>h, <3>3, <3>4
    <3> QED
      BY <3>2, <3>5 DEF Unknowing
  <2>2. CASE q = r
    <3>1. Issue(r) /\ req'[r].set = now
      BY <1>4, <1>d, <1>e, <2>2, AsksOrAnswers DEF Answers
    <3>2. Unissued(now) /\ now \in Seconds
      BY <1>a, <3>1 DEF Issue, CanIssue, Unissued, TypeOK, Seconds
    <3>3. revokedBy'[now] = ""
      BY <3>1, <3>2 DEF Issue, OwnersInv
    <3> QED
      BY <2>2, <3>1, <3>3 DEF Unknowing
  <2> QED
    BY <2>1, <2>2
<1> QED
  BY <1>1, <1>2, <1>3, <1>4

\* Every step preserves what is known of the browsers that wait.
LEMMA NextSingle == IInv /\ OwnersInv /\ SingleInv /\ [Next]_vars /\ TypeOK' => SingleInv'
<1> SUFFICES ASSUME IInv, OwnersInv, SingleInv, [Next]_vars, TypeOK', NEW b \in single'
             PROVE  /\ \A p, q \in Requests : UnderWayOf(p, b)' /\ UnderWayOf(q, b)' => p = q
                    /\ \A q \in Requests : Asks(q, b)' /\ req'[q].kind \in {"refresh", "logout"} => req'[q].token = cookie'[b]
                    /\ cookie'[b] \in Seconds /\ (\A q \in Requests : ~Exchanging(q, b)') => Unknowing(cookie[b])'
                    /\ \A q \in Requests : Answers(q, b)' /\ req'[q].set \in Seconds => Unknowing(req[q].set)'
  BY DEF SingleInv
<1>a. req \in [Requests -> {Idle} \union Request \union Answer]
  BY DEF IInv, TypeOK
<1>b. b \in single =>
      /\ \A p, q \in Requests : UnderWayOf(p, b) /\ UnderWayOf(q, b) => p = q
      /\ \A q \in Requests : Asks(q, b) /\ req[q].kind \in {"refresh", "logout"} => req[q].token = cookie[b]
      /\ cookie[b] \in Seconds /\ (\A q \in Requests : ~Exchanging(q, b)) => Unknowing(cookie[b])
      /\ \A q \in Requests : Answers(q, b) /\ req[q].set \in Seconds => Unknowing(req[q].set)
  BY DEF SingleInv
<1>1. ASSUME NEW r \in Requests, Step(r)
      PROVE  b \in single
  BY <1>1 DEF Step, Reply, ReadUser, SaveUser, Issue, IssueFails, FindNothing, FindRevoked, FindLive, FindForLogout, RevokeRow,
              Remove, NoSuchUser, RevokeAll, history
<1>2. CASE \E r \in Requests : Step(r)
  BY <1>1, <1>2, StepSingle
<1>3. ASSUME NEW r \in Requests, NEW c \in Browsers, NEW kind \in Kinds, Send(r, c, kind)
      PROVE  /\ \A p, q \in Requests : UnderWayOf(p, b)' /\ UnderWayOf(q, b)' => p = q
             /\ \A q \in Requests : Asks(q, b)' /\ req'[q].kind \in {"refresh", "logout"} => req'[q].token = cookie'[b]
             /\ cookie'[b] \in Seconds /\ (\A q \in Requests : ~Exchanging(q, b)') => Unknowing(cookie[b])'
             /\ \A q \in Requests : Answers(q, b)' /\ req'[q].set \in Seconds => Unknowing(req[q].set)'
  <2>1. b \in single /\ cookie' = cookie /\ revokedBy' = revokedBy /\ \A q \in Requests : q # r => req'[q] = req[q]
    BY <1>3, <1>a DEF Send
  <2>2. /\ req'[r].by = c /\ req'[r].pc \in {"read", "revokeAll"} /\ req'[r].kind = kind
        /\ kind \in {"refresh", "logout"} => req'[r].token = cookie[c]
    BY <1>3, <1>a DEF Send, First
  <2>3. req'[r] \notin Answer
    BY <2>2 DEF Answer
  <2>4. b = c => \A q \in Requests : ~UnderWayOf(q, b)
    BY <1>3, AsksOrAnswers DEF Send, UnderWay, UnderWayOf, Asks, Answers
  <2>5. \A q \in Requests : ~UnderWayOf(q, b) => ~Exchanging(q, b)
    BY DEF UnderWayOf, Exchanging
  <2>6. \A q \in Requests : q # r => /\ Asks(q, b)' = Asks(q, b) /\ Answers(q, b)' = Answers(q, b)
                                     /\ Exchanging(q, b)' = Exchanging(q, b)
    BY <2>1 DEF Asks, Answers, Exchanging
  <2>7. ~Answers(r, b)' /\ (Asks(r, b)' => b = c)
    BY <2>2, <2>3 DEF Asks, Answers
  <2>8. req[r] = Idle
    BY <1>3 DEF Send
  <2>9. ~Exchanging(r, b)
    BY <2>8, AsksOrAnswers DEF Exchanging, Asks, Answers
  <2>10. \A p, q \in Requests : UnderWayOf(p, b)' /\ UnderWayOf(q, b)' => p = q
    BY <1>b, <2>1, <2>4, <2>6, <2>7 DEF UnderWayOf
  <2>11. \A q \in Requests : Asks(q, b)' /\ req'[q].kind \in {"refresh", "logout"} => req'[q].token = cookie'[b]
    BY <1>b, <2>1, <2>2, <2>6, <2>7
  <2>12. ASSUME cookie'[b] \in Seconds, \A q \in Requests : ~Exchanging(q, b)' PROVE Unknowing(cookie[b])'
    <3>1. \A q \in Requests : ~Exchanging(q, b)
      BY <2>6, <2>9, <2>12
    <3> QED
      BY <1>b, <2>1, <2>12, <3>1 DEF Unknowing
  <2>13. \A q \in Requests : Answers(q, b)' /\ req'[q].set \in Seconds => Unknowing(req[q].set)'
    BY <1>b, <2>1, <2>6, <2>7 DEF Unknowing
  <2> QED
    BY <2>10, <2>11, <2>12, <2>13
<1>4. ASSUME NEW r \in Requests, Lose(r)
      PROVE  /\ \A p, q \in Requests : UnderWayOf(p, b)' /\ UnderWayOf(q, b)' => p = q
             /\ \A q \in Requests : Asks(q, b)' /\ req'[q].kind \in {"refresh", "logout"} => req'[q].token = cookie'[b]
             /\ cookie'[b] \in Seconds /\ (\A q \in Requests : ~Exchanging(q, b)') => Unknowing(cookie[b])'
             /\ \A q \in Requests : Answers(q, b)' /\ req'[q].set \in Seconds => Unknowing(req[q].set)'
  <2>1. b \in single /\ b # req[r].by /\ cookie' = cookie /\ revokedBy' = revokedBy /\ req'[r] = Idle
        /\ \A q \in Requests : q # r => req'[q] = req[q]
    BY <1>4, <1>a DEF Lose, End
  <2>2. \A q \in Requests : /\ Asks(q, b)' = Asks(q, b) /\ Answers(q, b)' = Answers(q, b)
                            /\ Exchanging(q, b)' = Exchanging(q, b)
    BY <2>1, AsksOrAnswers DEF Asks, Answers, Exchanging
  <2>3. \A q \in Requests : Asks(q, b) \/ Answers(q, b) => req'[q] = req[q]
    BY <2>1 DEF Asks, Answers
  <2> QED
    BY <1>b, <2>1, <2>2, <2>3 DEF UnderWayOf, Unknowing
<1>5. CASE Tick \/ Cleanup \/ UNCHANGED vars
  <2>1. UNCHANGED <<req, cookie, revokedBy, single>>
    BY <1>5 DEF Tick, Cleanup, vars, history
  <2> QED
    BY <1>b, <2>1 DEF UnderWayOf, Asks, Answers, Exchanging, Unknowing
<1> QED
  BY <1>2, <1>3, <1>4, <1>5 DEF Next

\* The initial state satisfies all of it.
LEMMA InitReuse == Init => ReuseInv
<1> SUFFICES ASSUME Init PROVE ReuseInv
  OBVIOUS
<1>1. \A r \in Requests, b \in Browsers : ~Asks(r, b) /\ ~Answers(r, b)
  BY AsksOrAnswers DEF Init, Asks, Answers
<1>2. \A b \in Browsers, s \in Seconds : ~Has(b, s)
  BY <1>1, AsksOrAnswers DEF Init, Has
<1>3. OwnersInv
  BY <1>2 DEF Init, OwnersInv
<1>4. SingleInv
  BY <1>1, AsksOrAnswers DEF Init, SingleInv, UnderWayOf
<1>5. CauseInv
  BY DEF Init, CauseInv, At, Idle
<1> QED
  BY <1>3, <1>4, <1>5 DEF ReuseInv

(***************************************************************************)
(* What refreshToken reports as reuse is not the doing of a browser that   *)
(* waits for each reply before its next request.                           *)
(***************************************************************************)
THEOREM ReuseTheorem == Spec => []ReuseHasCause
<1>1. IInv /\ ReuseInv /\ IInv' /\ [Next]_vars => ReuseInv'
  BY NextOwners, NextSingle, NextCause DEF IInv, ReuseInv
<1>2. IInv /\ ReuseInv => ReuseHasCause
  <2> SUFFICES ASSUME IInv, ReuseInv, NEW r \in Requests, At(r, {"refresh"}, "revokeAll"), req[r].by \in single
               PROVE  revokedBy[req[r].token] \in {"all", "failure"}
    BY DEF ReuseHasCause
  <2> DEFINE b == req[r].by
  <2>1. Asks(r, b) /\ req[r].kind = "refresh" /\ req[r].pc = "revokeAll" /\ req[r].token \in Seconds
    BY RequestOrNot DEF At, Asks, Steps, IInv, RequestInv, TypeOK
  <2>2. req[r].token = cookie[b]
    BY <2>1 DEF ReuseInv, SingleInv
  <2>3. ASSUME NEW q \in Requests PROVE ~Exchanging(q, b)
    <3>1. Exchanging(q, b) => UnderWayOf(q, b)
      BY DEF Exchanging, UnderWayOf
    <3>2. ~Exchanging(r, b)
      BY <2>1, AsksOrAnswers DEF Exchanging, Asks, Answers
    <3> QED
      BY <2>1, <3>1, <3>2 DEF ReuseInv, SingleInv, UnderWayOf
  <2>4. Unknowing(cookie[b])
    BY <2>1, <2>2, <2>3 DEF ReuseInv, SingleInv
  <2>5. revokedBy[req[r].token] # ""
    BY DEF ReuseInv, CauseInv
  <2> QED
    BY <2>2, <2>4, <2>5 DEF Unknowing
<1>3. Spec => [](IInv /\ ReuseInv)
  BY <1>1, InitReuse, SpecIInv, PTL DEF Spec
<1> QED
  BY <1>2, <1>3, PTL
=============================================================================
