------------------------------ MODULE Accounts ------------------------------
(***************************************************************************)
(* The row of one user and the lockout counter                             *)
(* (backend/src/modules/auth/auth.service.ts, two-factor.service.ts,       *)
(* modules/users/users.service.ts): logins, changes and resets of the      *)
(* password, backup codes, and what administrators edit.                   *)
(*                                                                         *)
(* Most of them end in BaseService.update, which reads the whole row,      *)
(* merges the new columns into it and saves the entity: the columns that   *)
(* differ from the row at the time of the save are written, those that     *)
(* others have written since the read among them.  The backup codes are    *)
(* consumed by one guarded UPDATE instead.                                 *)
(*                                                                         *)
(* What the user proves with a password, a code or a token is a choice of  *)
(* the model where the row does not decide it.  Refresh tokens are the     *)
(* business of module Sessions.                                            *)
(***************************************************************************)
EXTENDS Integers, FiniteSets

CONSTANTS
  Ops,          \* requests that may be under way at a time
  MaxOps,       \* bound on the requests ever served
  MaxAttempts,  \* MAX_LOGIN_ATTEMPTS (5)
  Passwords, Codes, Jtis   \* values the columns may have

NoJti == "null"
On == "is_active"

\* Values of different columns are told apart.
ASSUME AccountsAssumption ==
  /\ IsFiniteSet(Ops)
  /\ MaxOps \in Nat
  /\ MaxAttempts \in Nat \ {0}
  /\ Passwords \intersect Codes = {} /\ Passwords \intersect Jtis = {} /\ Codes \intersect Jtis = {}
  /\ {NoJti, On} \intersect (Passwords \union Codes \union Jtis) = {}

VARIABLES
  db,        \* users: the row
  attempts,  \* Redis: login attempts, whether the key has a time to live
  op,        \* requests under way
  served,    \* how many were ever started
  issued,    \* backup codes and reset tokens ever issued
  \* History, read by the properties only:
  tries,     \* wrong passwords since the key was last deleted or expired
  died,      \* requests that ended while an attempt was being counted
  retired,   \* values replaced, consumed or switched off
  restored,  \* retired values that a save of an older copy has put back
  accepted,  \* backup codes that a request has been let in with
  again      \* ... and those that another was let in with later

vars == <<db, attempts, op, served, issued, tries, died, retired, restored, accepted, again>>
history == <<tries, died, retired, restored, accepted, again>>

Row == [password : Passwords, codes : SUBSET Codes, reset : Jtis \union {NoJti}, active : BOOLEAN]

\* What a row lets its user do something with.
Values(row) ==
  {row.password} \union row.codes \union ({row.reset} \ {NoJti})
    \union (IF row.active THEN {On} ELSE {})

Kinds == {"login", "change", "forgot", "reset", "toggle", "edit", "disable"}
Steps == {"check", "compare", "incr", "expire", "clear", "factor", "consume",
          "start", "find", "save", "drop"}

NoCopy == [none |-> TRUE]

\* arg: the password, code or token of the request; copy: the entity it read.
Request == [kind : Kinds, pc : Steps, arg : Passwords \union Codes \union Jtis \union {NoJti},
            copy : Row \union {NoCopy}]
Idle == [pc |-> "idle"]

TypeOK ==
  /\ db \in Row
  /\ attempts \in [count : Nat, ttl : BOOLEAN]
  /\ op \in [Ops -> Request \union {Idle}]
  /\ served \in Nat
  /\ issued \subseteq Codes \union Jtis
  /\ tries \in Nat
  /\ died \in Nat
  /\ retired \subseteq Passwords \union Codes \union Jtis \union {On}
  /\ restored \subseteq retired
  /\ accepted \subseteq Codes /\ again \subseteq accepted

Init ==
  /\ \E p \in Passwords, c \in Codes :
       /\ db = [password |-> p, codes |-> {c}, reset |-> NoJti, active |-> TRUE]
       /\ issued = {c}
  /\ attempts = [count |-> 0, ttl |-> FALSE]
  /\ op = [o \in Ops |-> Idle]
  /\ served = 0
  /\ tries = 0
  /\ died = 0
  /\ retired = {}
  /\ restored = {}
  /\ accepted = {}
  /\ again = {}

-----------------------------------------------------------------------------
At(o, kinds, step) == op[o].pc = step /\ op[o].kind \in kinds

Goto(o, step) == op' = [op EXCEPT ![o].pc = step]

End(o) == op' = [op EXCEPT ![o] = Idle]

First(kind) == IF kind = "login" THEN "check" ELSE IF kind = "edit" THEN "find" ELSE "start"

\* The arguments requests come with: a new password, a backup code or (NoJti)
\* a code of the authenticator, a token from a mail.
Arguments(kind) ==
  CASE kind = "change" -> Passwords
    [] kind = "reset" -> Jtis
    [] kind \in {"login", "disable"} -> Codes \union {NoJti}
    [] kind \in {"forgot", "toggle", "edit"} -> {NoJti}

Begin(o, kind, arg) ==
  /\ op[o] = Idle
  /\ served < MaxOps
  /\ served' = served + 1
  /\ arg \in Arguments(kind)
  /\ arg \in Codes \union Jtis => arg \in issued
  /\ op' = [op EXCEPT ![o] = [kind |-> kind, pc |-> First(kind), arg |-> arg, copy |-> NoCopy]]
  /\ UNCHANGED <<db, attempts, issued, history>>

-----------------------------------------------------------------------------
(* Lockout: checkLockout, recordFailedAttempt and clearFailedAttempts.     *)

\* Mutant: the attempt that reaches the limit is let through.
MayTry_OffByOne(count) == count <= MaxAttempts

MayTry(count) == count < MaxAttempts

CheckLockout(o) ==
  /\ At(o, {"login"}, "check")
  /\ IF MayTry(attempts.count) THEN Goto(o, "compare") ELSE End(o)
  /\ UNCHANGED <<db, attempts, served, issued, history>>

\* A disabled user is refused without being counted.
Disabled(o) ==
  /\ At(o, {"login"}, "compare")
  /\ ~db.active
  /\ End(o)
  /\ UNCHANGED <<db, attempts, served, issued, history>>

WrongPassword(o) ==
  /\ At(o, {"login"}, "compare")
  /\ db.active
  /\ Goto(o, "incr")
  /\ tries' = tries + 1
  /\ UNCHANGED <<db, attempts, served, issued, died, retired, restored, accepted, again>>

RightPassword(o) ==
  /\ At(o, {"login"}, "compare")
  /\ db.active
  /\ Goto(o, "clear")
  /\ UNCHANGED <<db, attempts, served, issued, history>>

\* Mutant: the time to live is set by the attempt that reaches the limit.
SetsExpiry_Late(count) == count = MaxAttempts

\* Only the attempt that created the key gives it a time to live.
SetsExpiry(count) == count = 1

Incr(o) ==
  /\ At(o, {"login"}, "incr")
  /\ attempts' = [attempts EXCEPT !.count = @ + 1]
  /\ IF SetsExpiry(attempts.count + 1) THEN Goto(o, "expire") ELSE End(o)
  /\ UNCHANGED <<db, served, issued, history>>

\* EXPIRE on a key that has been deleted meanwhile does nothing.
Expire(o) ==
  /\ At(o, {"login"}, "expire")
  /\ attempts' = [attempts EXCEPT !.ttl = attempts.count > 0]
  /\ End(o)
  /\ UNCHANGED <<db, served, issued, history>>

NoKey == [count |-> 0, ttl |-> FALSE]

ClearAttempts(o) ==
  /\ At(o, {"login"}, "clear")
  /\ attempts' = NoKey
  /\ tries' = 0
  /\ Goto(o, IF op[o].arg \in Codes THEN "factor" ELSE "find")
  /\ UNCHANGED <<db, served, issued, died, retired, restored, accepted, again>>

\* Redis deletes the key when its time to live is over.
KeyExpires ==
  /\ attempts.ttl
  /\ attempts' = NoKey
  /\ tries' = 0
  /\ UNCHANGED <<db, op, served, issued, died, retired, restored, accepted, again>>

-----------------------------------------------------------------------------
(* Backup codes (two-factor.service.ts).                                   *)

\* verifyCode: the codes of the entity must hold the code ...
Factor(o) ==
  /\ At(o, {"login"}, "factor") \/ (At(o, {"disable"}, "start") /\ op[o].arg \in Codes)
  /\ IF op[o].arg \in db.codes THEN Goto(o, "consume") ELSE End(o)
  /\ UNCHANGED <<db, attempts, served, issued, history>>

\* Mutant: the UPDATE goes without looking for the code in the row again.
StillThere_Unguarded(o) == op[o].arg \in Codes

\* ... and one UPDATE takes it out of the row, if it is still there.
StillThere(o) == op[o].arg \in db.codes

Consume(o) ==
  /\ op[o].pc = "consume"
  /\ StillThere(o)
  /\ db' = [db EXCEPT !.codes = @ \ {op[o].arg}]
  /\ accepted' = accepted \union {op[o].arg}
  /\ again' = again \union (accepted \intersect {op[o].arg})
  /\ retired' = retired \union {op[o].arg}
  /\ Goto(o, IF op[o].kind = "login" THEN "find" ELSE "drop")
  /\ UNCHANGED <<attempts, served, issued, tries, died, restored>>

ConsumedByOther(o) ==
  /\ op[o].pc = "consume"
  /\ ~StillThere(o)
  /\ End(o)
  /\ UNCHANGED <<db, attempts, served, issued, history>>

AuthenticatorCode(o) ==
  /\ At(o, {"disable"}, "start")
  /\ op[o].arg \notin Codes
  /\ Goto(o, "drop")
  /\ UNCHANGED <<db, attempts, served, issued, history>>

\* userRepo.update writes the named column only: disable drops the codes and
\* generateBackupCodes replaces them, whatever they have become.
WriteCodes(codes) ==
  /\ db' = [db EXCEPT !.codes = codes]
  /\ retired' = (retired \union db.codes) \ codes
  /\ restored' = (restored \ codes) \intersect retired'

DropCodes(o) ==
  /\ At(o, {"disable"}, "drop")
  /\ WriteCodes({})
  /\ End(o)
  /\ UNCHANGED <<attempts, served, issued, tries, died, accepted, again>>

GenerateBackupCodes ==
  /\ served < MaxOps
  /\ served' = served + 1
  /\ \E c \in Codes \ issued : WriteCodes({c}) /\ issued' = issued \union {c}
  /\ UNCHANGED <<attempts, op, tries, died, accepted, again>>

-----------------------------------------------------------------------------
(* Requests that end in usersService.update.                               *)

\* What a request looks at first: changePassword compares the password (the
\* user knows it), forgotPassword wants an active user, resetPassword the
\* token of the row, toggleActive remembers the flag in its copy.
Accepts(o) ==
  CASE op[o].kind = "change" -> TRUE
    [] op[o].kind = "forgot" -> db.active
    [] op[o].kind = "reset"  -> db.reset = op[o].arg
    [] op[o].kind = "toggle" -> TRUE

Start(o) ==
  /\ At(o, {"change", "forgot", "reset", "toggle"}, "start")
  /\ IF Accepts(o) THEN op' = [op EXCEPT ![o].pc = "find", ![o].copy = db] ELSE End(o)
  /\ UNCHANGED <<db, attempts, served, issued, history>>

\* BaseService.update: findById, then merge of the request's columns.
Merged(o, row, jti, password) ==
  CASE op[o].kind \in {"login", "edit"} -> row
    [] op[o].kind = "change" -> [row EXCEPT !.password = op[o].arg]
    [] op[o].kind = "forgot" -> [row EXCEPT !.reset = jti]
    [] op[o].kind = "reset"  -> [row EXCEPT !.password = password, !.reset = NoJti]
    [] op[o].kind = "toggle" -> [row EXCEPT !.active = ~op[o].copy.active]

\* forgotPassword: a fresh token; resetPassword: the password of the request.
Find(o) ==
  /\ op[o].pc = "find"
  /\ \E jti \in (Jtis \ issued) \union {NoJti}, password \in Passwords :
       /\ op[o].kind = "forgot" <=> jti # NoJti
       /\ op[o].kind # "reset" => password = db.password
       /\ op' = [op EXCEPT ![o].pc = "save", ![o].copy = Merged(o, db, jti, password),
                           ![o].arg = NoJti]
       /\ issued' = issued \union ({jti} \ {NoJti})
  /\ UNCHANGED <<db, attempts, served, history>>

\* The columns a request means to write, as their values in a row.
Meant(o, row) ==
  Values(row) \intersect
    CASE op[o].kind \in {"login", "edit"} -> {}
      [] op[o].kind = "change" -> Passwords
      [] op[o].kind = "forgot" -> Jtis
      [] op[o].kind = "reset"  -> Passwords \union Jtis
      [] op[o].kind = "toggle" -> {On}

\* Mutant: the entity is saved with the token it was read with.
Saved_KeepsToken(o) == IF op[o].kind = "reset" THEN [op[o].copy EXCEPT !.reset = db.reset] ELSE op[o].copy

\* What the save leaves in the row: the whole entity.
Saved(o) == op[o].copy

Save(o) ==
  /\ op[o].pc = "save"
  /\ db' = Saved(o)
  /\ LET mine == Meant(o, op[o].copy)
     IN  /\ retired' = (retired \union Meant(o, db)) \ mine
         /\ restored' = (restored \union (retired \intersect (Values(db') \ Values(db)))) \ mine
  /\ End(o)
  /\ UNCHANGED <<attempts, served, issued, tries, died, accepted, again>>

\* The process that serves a request dies, or one of its calls fails.
Dies(o) ==
  /\ op[o] # Idle
  /\ died' = IF op[o].pc \in {"incr", "expire"} THEN died + 1 ELSE died
  /\ End(o)
  /\ UNCHANGED <<db, attempts, served, issued, tries, retired, restored, accepted, again>>

-----------------------------------------------------------------------------
Step(o) ==
  \/ CheckLockout(o) \/ Disabled(o) \/ WrongPassword(o) \/ RightPassword(o)
  \/ Incr(o) \/ Expire(o) \/ ClearAttempts(o)
  \/ Factor(o) \/ Consume(o) \/ ConsumedByOther(o) \/ AuthenticatorCode(o) \/ DropCodes(o)
  \/ Start(o) \/ Find(o) \/ Save(o)

Next ==
  \/ \E o \in Ops : Step(o) \/ Dies(o)
  \/ \E o \in Ops, kind \in Kinds, arg \in Passwords \union Codes \union Jtis \union {NoJti} : Begin(o, kind, arg)
  \/ GenerateBackupCodes
  \/ KeyExpires

Spec == Init /\ [][Next]_vars

-----------------------------------------------------------------------------
(***************************************************************************)
(* Lockout bounds the guesses: between two deletions of the counter, no    *)
(* more wrong passwords are compared than the limit, less one, and one for *)
(* each request that may be under way (they have all read the counter      *)
(* before any of them was counted) or has died before it was counted.      *)
(***************************************************************************)
GuessesBounded == tries <= MaxAttempts - 1 + Cardinality(Ops) + died

(***************************************************************************)
(* A lockout ends: a counter without a time to live, which would refuse    *)
(* the user for ever, exists only while the request that created it is     *)
(* about to set it, or after such a request has died there.                *)
(***************************************************************************)
LockoutEnds ==
  attempts.count > 0 /\ ~attempts.ttl => died > 0 \/ \E o \in Ops : op[o].pc = "expire"

(***************************************************************************)
(* A backup code lets in once, whatever logins overlap, unless the save of *)
(* an entity read before has put it back in the row.                       *)
(***************************************************************************)
CodeLetsInOnce == again \subseteq restored

(***************************************************************************)
(* What was replaced, consumed or switched off stays out of the row (an    *)
(* old password, a used code, a used or superseded reset token, the flag   *)
(* of a disabled user), unless the save of an entity read before has put   *)
(* it back.                                                                *)
(***************************************************************************)
RetiredStaysOut == retired \intersect Values(db) \subseteq restored
=============================================================================
