------------------------------ MODULE Sessions ------------------------------
(***************************************************************************)
(* Refresh tokens of one user (backend/src/modules/auth/auth.service.ts,   *)
(* auth.controller.ts): login, rotation, logout, and the operations that   *)
(* end all sessions (change and reset of the password, removal of the      *)
(* user).  Every call to the database is a step of its own.                *)
(*                                                                         *)
(* A refresh token is a signed payload of the user and the second of its   *)
(* issue, with nothing random in it: two tokens of one user issued in one  *)
(* second are equal.  A token is therefore named by its second.            *)
(*                                                                         *)
(* A browser keeps the token in a cookie; its requests carry the cookie as *)
(* it was when they were sent.  Who may change or reset the password, and  *)
(* lockout, is the business of module Accounts.                            *)
(***************************************************************************)
EXTENDS Integers, FiniteSets

CONSTANTS
  Browsers,
  Requests,   \* requests that may be under way at a time
  MaxSent,    \* bound on the requests ever sent
  MaxNow,     \* bound on the clock, in seconds in which a token is issued
  Life        \* jwt.refreshExpires (7 days): a token of second s ends at s + Life

ASSUME SessionsAssumption == MaxSent \in Nat /\ MaxNow \in Nat \ {0} /\ Life \in Nat \ {0}

Seconds == 1..MaxNow
NoToken == 0
Keep == -1     \* a reply without Set-Cookie

VARIABLES
  now,
  row,        \* refresh_tokens: the row of a token, by is_revoked
  user,       \* users: "active", or "deleted" by softDelete
  cookie,     \* of each browser
  req,        \* the requests under way
  sent,       \* how many were sent
  \* History, read by the properties only:
  parent,     \* token that was exchanged for this one; NoToken after a login
  old,        \* live tokens whose session was opened before the last RevokeAll
  carried,    \* live tokens issued, or descending from one issued, by a request
              \* that was under way when RevokeAll ran
  revokedBy,  \* what has revoked a token
  single      \* browsers that never had two requests under way and lost no reply

history == <<parent, old, carried, revokedBy, single>>
vars == <<now, row, user, cookie, req, sent, parent, old, carried, revokedBy, single>>

\* "password": changePassword and resetPassword, which differ in whether the
\* tokens are revoked before or after the password is stored.
Kinds == {"login", "refresh", "logout", "password", "remove"}
Steps == {"read", "touch", "save", "revoke", "issue", "revokeAll"}
Causes == {"", "exchange", "failure", "logout", "all"}

Idle == [pc |-> "idle"]

\* token: the one that came with the request; user: as read with its row.
Request == [pc : Steps, kind : Kinds, by : Browsers, token : 0..MaxNow,
            user : {"active", "deleted"}, old : BOOLEAN, carried : BOOLEAN]

\* An answer on its way, and the value it gives to the cookie.
Answer == [pc : {"reply"}, by : Browsers, set : Keep..MaxNow]

TypeOK ==
  /\ now \in Seconds
  /\ row \in [Seconds -> {"none", "live", "revoked"}]
  /\ user \in {"active", "deleted"}
  /\ cookie \in [Browsers -> 0..MaxNow]
  /\ req \in [Requests -> {Idle} \union Request \union Answer]
  /\ sent \in Nat
  /\ parent \in [Seconds -> 0..MaxNow]
  /\ old \subseteq Seconds
  /\ carried \subseteq Seconds
  /\ revokedBy \in [Seconds -> Causes]
  /\ single \subseteq Browsers

Init ==
  /\ now = 1
  /\ row = [s \in Seconds |-> "none"]
  /\ user = "active"
  /\ cookie = [b \in Browsers |-> NoToken]
  /\ req = [r \in Requests |-> Idle]
  /\ sent = 0
  /\ parent = [s \in Seconds |-> NoToken]
  /\ old = {}
  /\ carried = {}
  /\ revokedBy = [s \in Seconds |-> ""]
  /\ single = Browsers

-----------------------------------------------------------------------------
(* Requests start, and their replies arrive.                               *)

UnderWay(b) == \E r \in Requests : req[r] # Idle /\ req[r].by = b

At(r, kinds, step) == req[r].pc = step /\ req[r].kind \in kinds

Goto(r, step) == req' = [req EXCEPT ![r].pc = step]

End(r) == req' = [req EXCEPT ![r] = Idle]

AnswerOf(r, set) == [pc |-> "reply", by |-> req[r].by, set |-> set]

Refuse(r) == req' = [req EXCEPT ![r] = AnswerOf(r, Keep)]

\* The step a request begins with.
First(kind) ==
  IF kind = "password" THEN "revokeAll" ELSE "read"

\* A browser sends a request with its cookie.  Refresh needs one; the removal
\* of the user is a request of an administrator, sent from anywhere.
Send(r, b, kind) ==
  /\ req[r] = Idle
  /\ sent < MaxSent
  /\ sent' = sent + 1
  /\ kind = "refresh" => cookie[b] # NoToken
  /\ kind = "password" => user = "active"
  /\ req' = [req EXCEPT ![r] = [kind |-> kind, by |-> b, pc |-> First(kind),
                                 token |-> IF kind \in {"refresh", "logout"} THEN cookie[b] ELSE NoToken,
                                 user |-> "active", old |-> FALSE, carried |-> FALSE]]
  /\ single' = IF UnderWay(b) THEN single \ {b} ELSE single
  /\ UNCHANGED <<now, row, user, cookie, parent, old, carried, revokedBy>>

\* The reply arrives with its Set-Cookie header, if it has one.
Reply(r) ==
  /\ req[r].pc = "reply"
  /\ cookie' = IF req[r].set = Keep THEN cookie
               ELSE [cookie EXCEPT ![req[r].by] = req[r].set]
  /\ End(r)
  /\ UNCHANGED <<now, row, user, sent, history>>

\* The process handling the request dies, or its reply is lost.
Lose(r) ==
  /\ req[r] # Idle
  /\ End(r)
  /\ single' = single \ {req[r].by}
  /\ UNCHANGED <<now, row, user, cookie, sent, parent, old, carried, revokedBy>>

-----------------------------------------------------------------------------
(* login: the user is read (validateUser), read again and saved with the   *)
(* time of the login (usersService.update), then a token is issued.        *)

AfterRead(step) == IF step = "read" THEN "touch" ELSE "save"

ReadUser(r) ==
  /\ req[r].pc \in {"read", "touch"} /\ req[r].kind = "login"
  /\ IF user = "active" THEN Goto(r, AfterRead(req[r].pc)) ELSE Refuse(r)
  /\ UNCHANGED <<now, row, user, cookie, sent, history>>

\* The entity read before is saved whole, deleted_at included.
SaveUser(r) ==
  /\ At(r, {"login"}, "save")
  /\ user' = "active"
  /\ Goto(r, "issue")
  /\ UNCHANGED <<now, row, cookie, sent, history>>

(***************************************************************************)
(* generateTokens: the row of the new token is inserted.  token_hash is    *)
(* unique, so the insert fails when a token of this second exists; and     *)
(* there is no payload to sign for a user that was read as deleted.  The   *)
(* request then fails, whatever it has revoked before.                     *)
(***************************************************************************)
CanIssue(r) == row[now] = "none" /\ req[r].user = "active"

\* Mutant: the reply to a refresh carries no cookie.
Issue_NoCookie(r) ==
  /\ req[r].pc = "issue"
  /\ CanIssue(r)
  /\ row' = [row EXCEPT ![now] = "live"]
  /\ req' = [req EXCEPT ![r] = AnswerOf(r, IF req[r].kind = "login" THEN now ELSE Keep)]
  /\ parent' = [parent EXCEPT ![now] = IF req[r].kind = "refresh" THEN req[r].token ELSE NoToken]
  /\ old' = IF req[r].old THEN old \union {now} ELSE old \ {now}
  /\ carried' = IF req[r].carried THEN carried \union {now} ELSE carried \ {now}
  /\ UNCHANGED <<now, user, cookie, sent, revokedBy, single>>

Issue(r) ==
  /\ req[r].pc = "issue"
  /\ CanIssue(r)
  /\ row' = [row EXCEPT ![now] = "live"]
  /\ req' = [req EXCEPT ![r] = AnswerOf(r, now)]
  /\ parent' = [parent EXCEPT ![now] = IF req[r].kind = "refresh" THEN req[r].token ELSE NoToken]
  /\ old' = IF req[r].old THEN old \union {now} ELSE old \ {now}
  /\ carried' = IF req[r].carried THEN carried \union {now} ELSE carried \ {now}
  /\ UNCHANGED <<now, user, cookie, sent, revokedBy, single>>

IssueFails(r) ==
  /\ req[r].pc = "issue"
  /\ ~CanIssue(r)
  /\ Refuse(r)
  /\ revokedBy' = IF req[r].kind = "refresh"
                  THEN [revokedBy EXCEPT ![req[r].token] = "failure"] ELSE revokedBy
  /\ UNCHANGED <<now, row, user, cookie, sent, parent, old, carried, single>>

-----------------------------------------------------------------------------
(* refreshToken and logout: the row is read, revoked and saved.            *)

Expired(s) == now >= s + Life

Presented(r) == row[req[r].token]

\* Nobody knows the token, or it has expired: the request is refused.
FindNothing(r) ==
  /\ At(r, {"refresh"}, "read")
  /\ Expired(req[r].token) \/ Presented(r) = "none"
  /\ Refuse(r)
  /\ UNCHANGED <<now, row, user, cookie, sent, history>>

\* A token that was revoked is taken for one used twice.
FindRevoked(r) ==
  /\ At(r, {"refresh"}, "read")
  /\ ~Expired(req[r].token)
  /\ Presented(r) = "revoked"
  /\ Goto(r, "revokeAll")
  /\ UNCHANGED <<now, row, user, cookie, sent, history>>

\* Mutant: a new token without revoking the one presented.
FindLive_NoRotation(r) ==
  /\ At(r, {"refresh"}, "read")
  /\ ~Expired(req[r].token)
  /\ Presented(r) = "live"
  /\ req' = [req EXCEPT ![r].pc = "issue", ![r].user = user,
                        ![r].old = req[r].token \in old,
                        ![r].carried = req[r].token \in carried]
  /\ UNCHANGED <<now, row, user, cookie, sent, history>>

FindLive(r) ==
  /\ At(r, {"refresh"}, "read")
  /\ ~Expired(req[r].token)
  /\ Presented(r) = "live"
  /\ req' = [req EXCEPT ![r].pc = "revoke", ![r].user = user,
                        ![r].old = req[r].token \in old,
                        ![r].carried = req[r].token \in carried]
  /\ UNCHANGED <<now, row, user, cookie, sent, history>>

\* logout looks for the row whatever its state, and clears the cookie anyway.
FindForLogout(r) ==
  /\ At(r, {"logout"}, "read")
  /\ LET found == req[r].token # NoToken /\ Presented(r) # "none"
     IN  IF found THEN Goto(r, "revoke")
         ELSE req' = [req EXCEPT ![r] = AnswerOf(r, NoToken)]
  /\ UNCHANGED <<now, row, user, cookie, sent, history>>

\* save of the entity read before: a row that cleanup has deleted is inserted.
RevokeRow(r) ==
  /\ req[r].pc = "revoke"
  /\ row' = [row EXCEPT ![req[r].token] = "revoked"]
  /\ revokedBy' = [revokedBy EXCEPT ![req[r].token] =
                     IF req[r].kind = "refresh" THEN "exchange" ELSE "logout"]
  /\ IF req[r].kind = "refresh" THEN Goto(r, "issue")
     ELSE req' = [req EXCEPT ![r] = AnswerOf(r, NoToken)]
  /\ old' = old \ {req[r].token}
  /\ carried' = carried \ {req[r].token}
  /\ UNCHANGED <<now, user, cookie, sent, parent, single>>

-----------------------------------------------------------------------------
(* Ending all sessions.                                                    *)

\* users.service.ts softDelete: the user is marked deleted before the tokens
\* are revoked.
Remove(r) ==
  /\ At(r, {"remove"}, "read")
  /\ user = "active"
  /\ user' = "deleted"
  /\ Goto(r, "revokeAll")
  /\ UNCHANGED <<now, row, cookie, sent, history>>

NoSuchUser(r) ==
  /\ At(r, {"remove"}, "read")
  /\ user = "deleted"
  /\ Refuse(r)
  /\ UNCHANGED <<now, row, user, cookie, sent, history>>

\* Mutant: the newest session, taken for the caller's own, is spared.
RevokedTogether_SparesNewest == {s \in Seconds : row[s] = "live" /\ \E t \in Seconds : t > s /\ row[t] = "live"}

\* The rows that one UPDATE revokes.
RevokedTogether == {s \in Seconds : row[s] = "live"}

\* Requests that have read the user or a row and are about to issue a token.
Issuing(r) == req[r].pc \in {"touch", "save", "revoke", "issue"} /\ req[r].kind \in {"login", "refresh"}

\* revokeAllUserTokens
RevokeAll(r) ==
  /\ req[r].pc = "revokeAll"
  /\ row' = [s \in Seconds |-> IF s \in RevokedTogether THEN "revoked" ELSE row[s]]
  /\ revokedBy' = [s \in Seconds |-> IF s \in RevokedTogether THEN "all" ELSE revokedBy[s]]
  /\ old' = {s \in Seconds : row'[s] = "live"}
  /\ carried' = carried \intersect old'
  /\ req' = [q \in Requests |->
              IF q = r THEN AnswerOf(r, Keep)
              ELSE IF Issuing(q) THEN [req[q] EXCEPT !.old = TRUE, !.carried = TRUE]
              ELSE req[q]]
  /\ UNCHANGED <<now, user, cookie, sent, parent, single>>

-----------------------------------------------------------------------------
(* The clock, and the daily job that deletes expired rows                  *)
(* (common/cron/refresh-tokens-cleanup.cron.ts).                           *)

Tick ==
  /\ now < MaxNow
  /\ now' = now + 1
  /\ UNCHANGED <<row, user, cookie, req, sent, history>>

Deletable(s) == row[s] # "none" /\ Expired(s)

Cleanup ==
  /\ \E s \in Seconds : Deletable(s)
  /\ row' = [s \in Seconds |-> IF Deletable(s) THEN "none" ELSE row[s]]
  /\ parent' = [s \in Seconds |-> IF Deletable(s) THEN NoToken ELSE parent[s]]
  /\ old' = {s \in old : row'[s] = "live"}
  /\ carried' = {s \in carried : row'[s] = "live"}
  /\ UNCHANGED <<now, user, cookie, req, sent, revokedBy, single>>

-----------------------------------------------------------------------------
Step(r) ==
  \/ Reply(r) \/ ReadUser(r) \/ SaveUser(r) \/ Issue(r) \/ IssueFails(r)
  \/ FindNothing(r) \/ FindRevoked(r) \/ FindLive(r) \/ FindForLogout(r) \/ RevokeRow(r)
  \/ Remove(r) \/ NoSuchUser(r) \/ RevokeAll(r)

Next ==
  \/ \E r \in Requests : Step(r) \/ Lose(r)
  \/ \E r \in Requests, b \in Browsers, kind \in Kinds : Send(r, b, kind)
  \/ Tick
  \/ Cleanup

Spec == Init /\ [][Next]_vars

-----------------------------------------------------------------------------
(***************************************************************************)
(* A token that was exchanged is spent: while a token issued by a refresh  *)
(* lives, the token it was exchanged for does not, in any interleaving of  *)
(* refreshes, logouts and the cleanup (refreshToken revokes first and      *)
(* issues then).                                                           *)
(***************************************************************************)
ParentSpent ==
  \A s \in Seconds : row[s] = "live" /\ parent[s] # NoToken => row[parent[s]] # "live"

(***************************************************************************)
(* Ending all sessions ends them: a token of a session opened before the   *)
(* last RevokeAll can only live when a login or a refresh somewhere in its *)
(* ancestry was under way while RevokeAll ran.  (changePassword revokes    *)
(* before it stores the password "to avoid a window"; the window that      *)
(* remains is exactly this one.)                                           *)
(***************************************************************************)
OldSessionsEnd ==
  \A s \in Seconds : row[s] = "live" /\ s \in old => s \in carried

(***************************************************************************)
(* What refreshToken reports as the reuse of a token is not the doing of a *)
(* browser that waits for each reply before its next request: its token    *)
(* was revoked with all others, or an exchange of it has failed half-way.  *)
(* In particular a rotation always reaches the cookie, and a token that    *)
(* was logged out is not in it.                                            *)
(***************************************************************************)
ReuseHasCause ==
  \A r \in Requests :
    At(r, {"refresh"}, "revokeAll") /\ req[r].by \in single
    => revokedBy[req[r].token] \in {"all", "failure"}
=============================================================================
