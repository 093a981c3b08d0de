-------------------------------- MODULE Chat --------------------------------
(***************************************************************************)
(* One conversation of the support chat (backend/src/modules/chat:         *)
(* chat.service.ts, chat.gateway.ts, chat.controller.ts,                   *)
(* cron/chat-scheduler.service.ts): messages of the customer over the      *)
(* socket and over HTTP, of agents, and of the AI, the apology that takes  *)
(* the place of a failed answer, assignment, closing, and reading.         *)
(*                                                                         *)
(* Every call to the database is a step of its own.  A message is saved    *)
(* first and the conversation patched after it, with a counter computed    *)
(* from a copy; assignment and closing save the whole copy they read.      *)
(***************************************************************************)
EXTENDS Integers, FiniteSets, Sequences

CONSTANTS
  Ops,       \* requests, cron runs and replies that may be under way at a time
  MaxOps     \* bound on those ever started

ASSUME ChatAssumption == MaxOps \in Nat

VARIABLES
  conv,      \* conversations: the row
  unseen,    \* messages of the customer whose readAt is null
  op,        \* what is under way
  started,
  \* History, read by the properties only:
  hidden,    \* a copy saved over the row, or a death, has lost the count of a message
  pending,   \* a question put to the AI has no answer yet
  dropped    \* ... and what was to answer it has died or failed twice, or had no words

history == <<hidden, pending, dropped>>
vars == <<conv, unseen, op, started, hidden, pending, dropped>>

\* mode "AI" stands for AI and HYBRID; badge is unreadByAgent (unreadByCustomer
\* only ever grows: no code resets it).
Conversation ==
  [status : {"open", "waiting_agent", "with_agent", "closed"}, mode : {"AI", "HUMAN"},
   agent : BOOLEAN, badge : Nat]

\* "ask" comes over the socket, "post" over HTTP; "cron" is the job for
\* conversations that wait for an agent.
Kinds == {"ask", "post", "say", "assign", "close", "read", "cron"}
Steps == {"find", "insert", "patch", "trigger", "check", "think", "meta", "status", "save", "zero", "stamp"}
Roles == {"user", "agent", "ai", "system"}

\* role: whose message it sends; copy: the conversation it has read; fresh:
\* nobody has closed or taken over the conversation since its check.
Operation == [kind : Kinds, pc : Steps, role : Roles, copy : Conversation, fresh : BOOLEAN]
Idle == [pc |-> "idle"]

TypeOK ==
  /\ conv \in Conversation
  /\ unseen \in Nat
  /\ op \in [Ops -> Operation \union {Idle}]
  /\ started \in 0..MaxOps
  /\ hidden \in BOOLEAN /\ pending \in BOOLEAN /\ dropped \in BOOLEAN

Init ==
  /\ conv = [status |-> "open", mode |-> "AI", agent |-> FALSE, badge |-> 0]
  /\ unseen = 0
  /\ op = [o \in Ops |-> Idle]
  /\ started = 0
  /\ hidden = FALSE
  /\ pending = FALSE
  /\ dropped = FALSE

-----------------------------------------------------------------------------
At(o, step) == op[o].pc = step

Goto(o, step) == op' = [op EXCEPT ![o].pc = step]

End(o) == op' = [op EXCEPT ![o] = Idle]

\* The cron job selects conversations that wait and have no agent.
Waiting == conv.status = "waiting_agent" /\ ~conv.agent /\ conv.mode # "HUMAN"

\* Mutant: the messages are stamped first and the counter is reset after.
ReadSteps_StampFirst == <<"stamp", "zero">>

\* The two steps of markAsRead.
ReadSteps == <<"zero", "stamp">>

First(kind) ==
  CASE kind = "cron" -> "check"
    [] kind = "read" -> ReadSteps[1]
    [] kind \in {"ask", "post", "say", "assign", "close"} -> "find"

Begin(o, kind) ==
  /\ op[o] = Idle
  /\ started < MaxOps
  /\ kind = "cron" => Waiting
  /\ started' = started + 1
  /\ op' = [op EXCEPT ![o] = [kind |-> kind, pc |-> First(kind), copy |-> conv, fresh |-> FALSE,
                               role |-> IF kind = "say" THEN "agent" ELSE "user"]]
  /\ UNCHANGED <<conv, unseen, history>>

-----------------------------------------------------------------------------
(* sendMessage and insertMessage.                                          *)

Find(o) ==
  /\ At(o, "find")
  /\ op' = [op EXCEPT ![o].copy = conv,
                      ![o].pc = IF op[o].kind \in {"assign", "close"} THEN "save" ELSE "insert"]
  /\ UNCHANGED <<conv, unseen, started, history>>

\* A question the gateway will put to the AI, if the conversation stays as it is.
Question(o) == op[o].kind = "ask" /\ conv.mode = "AI" /\ conv.status # "closed"

Insert(o) ==
  /\ At(o, "insert")
  /\ IF op[o].role = "user"
     THEN /\ unseen' = unseen + 1
          /\ pending' = (pending \/ Question(o))
          /\ dropped' = IF Question(o) THEN FALSE ELSE dropped
     ELSE /\ pending' = FALSE
          /\ UNCHANGED <<unseen, dropped>>
  /\ Goto(o, "patch")
  /\ UNCHANGED <<conv, started, hidden>>

\* What follows a message once the conversation is patched.
AfterPatch(o) ==
  CASE op[o].role = "user"   -> Goto(o, "trigger")
    [] op[o].role = "agent"  -> End(o)
    [] op[o].role = "ai"     -> Goto(o, "meta")
    [] op[o].role = "system" -> Goto(o, "status")

\* Messages of the customer set the counter of the agents to the copy's plus
\* one, whatever it has become meanwhile.
Patch(o) ==
  /\ At(o, "patch")
  /\ AfterPatch(o)
  /\ IF op[o].role = "user"
     THEN conv' = [conv EXCEPT !.badge = op[o].copy.badge + 1] /\ hidden' = FALSE
     ELSE UNCHANGED <<conv, hidden>>
  /\ UNCHANGED <<unseen, started, pending, dropped>>

\* The gateway asks the conversation for its mode, the HTTP controller asks the
\* schedules, which may say anything.
Trigger(o) ==
  /\ At(o, "trigger")
  /\ \/ op[o].kind = "post" /\ End(o)
     \/ /\ op[o].kind = "post" \/ conv.mode = "AI"
        /\ Goto(o, "check")
     \/ op[o].kind = "ask" /\ conv.mode # "AI" /\ End(o)
  /\ UNCHANGED <<conv, unseen, started, history>>

-----------------------------------------------------------------------------
(* triggerAiReply.                                                         *)

\* Mutant: a closed conversation is answered.
MayAnswer_Closed(row) == row.mode # "HUMAN"

MayAnswer(row) == row.status # "closed" /\ row.mode # "HUMAN"

Check(o) ==
  /\ At(o, "check")
  /\ IF MayAnswer(conv)
     THEN op' = [op EXCEPT ![o].pc = "think", ![o].role = "ai", ![o].fresh = TRUE]
     ELSE End(o)
  /\ UNCHANGED <<conv, unseen, started, history>>

\* The AI has an answer, which is sent like any message ...
Think(o) ==
  /\ At(o, "think")
  /\ Goto(o, "find")
  /\ UNCHANGED <<conv, unseen, started, history>>

\* ... or one without words, which is not sent.
NoWords(o) ==
  /\ At(o, "think")
  /\ End(o)
  /\ dropped' = TRUE
  /\ UNCHANGED <<conv, unseen, started, hidden, pending>>

\* The metadata of the answer is saved with it.
SaveMeta(o) ==
  /\ At(o, "meta")
  /\ End(o)
  /\ UNCHANGED <<conv, unseen, started, history>>

\* Mutant: a failed answer is logged and nothing else.
Caught_OnlyLogged(o) == End(o)

\* The catch block: an apology of the system is sent instead.
Caught(o) == op' = [op EXCEPT ![o].role = "system", ![o].pc = "find"]

\* A call of the try block fails, be it after the answer was inserted.
AiFails(o) ==
  /\ op[o].pc \in {"think", "find", "insert", "patch", "meta"} /\ op[o].role = "ai"
  /\ Caught(o)
  /\ UNCHANGED <<conv, unseen, started, history>>

\* The conversation is left for an agent, whatever its status has become.
LeaveToAgent(o) ==
  /\ At(o, "status")
  /\ conv' = [conv EXCEPT !.status = "waiting_agent"]
  /\ End(o)
  /\ UNCHANGED <<unseen, started, history>>

-----------------------------------------------------------------------------
(* assignAgent, closeConversation, markAsRead.                             *)

Edited(o) ==
  IF op[o].kind = "assign"
  THEN [op[o].copy EXCEPT !.status = "with_agent", !.mode = "HUMAN", !.agent = TRUE]
  ELSE [op[o].copy EXCEPT !.status = "closed"]

\* The copy is saved whole: counter, mode and agent go back to what was read.
SaveCopy(o) ==
  /\ At(o, "save")
  /\ conv' = Edited(o)
  /\ op' = [q \in Ops |-> IF q = o \/ op[q] = Idle THEN Idle ELSE [op[q] EXCEPT !.fresh = FALSE]]
  /\ hidden' = (hidden \/ op[o].copy.badge < conv.badge)
  /\ pending' = FALSE
  /\ UNCHANGED <<unseen, started, dropped>>

AfterRead(o) == IF op[o].pc = ReadSteps[1] THEN Goto(o, ReadSteps[2]) ELSE End(o)

ZeroBadge(o) ==
  /\ At(o, "zero")
  /\ conv' = [conv EXCEPT !.badge = 0]
  /\ AfterRead(o)
  /\ UNCHANGED <<unseen, started, history>>

Stamp(o) ==
  /\ At(o, "stamp")
  /\ unseen' = 0
  /\ hidden' = FALSE
  /\ AfterRead(o)
  /\ UNCHANGED <<conv, started, pending, dropped>>

-----------------------------------------------------------------------------
\* Counter and messages disagree: a message is not counted yet, or the counter
\* is reset and the messages are not stamped yet.
InBetween(o) == (At(o, "patch") /\ op[o].role = "user") \/ At(o, "stamp")

\* The process dies, a call fails that nobody catches, or the apology fails.
Dies(o) ==
  /\ op[o] # Idle
  /\ End(o)
  /\ hidden' = (hidden \/ InBetween(o))
  /\ dropped' = TRUE
  /\ UNCHANGED <<conv, unseen, started, pending>>

-----------------------------------------------------------------------------
Step(o) ==
  \/ Find(o) \/ Insert(o) \/ Patch(o) \/ Trigger(o) \/ Check(o) \/ Think(o) \/ SaveMeta(o)
  \/ LeaveToAgent(o) \/ SaveCopy(o) \/ ZeroBadge(o) \/ Stamp(o)

Next ==
  \/ \E o \in Ops : Step(o) \/ NoWords(o) \/ AiFails(o) \/ Dies(o)
  \/ \E o \in Ops, kind \in Kinds : Begin(o, kind)

\* Every handler that is under way goes on; requests need not come, and calls
\* need not fail.
Spec == Init /\ [][Next]_vars /\ \A o \in Ops : WF_vars(Step(o))

-----------------------------------------------------------------------------
(***************************************************************************)
(* A message of the customer that no agent has read shows in the counter,  *)
(* in any interleaving of messages and markAsRead, except where a message  *)
(* is not counted yet, the messages are being stamped, or the count was    *)
(* lost: with a process that died between the two, or under the save of    *)
(* an older copy.                                                          *)
(***************************************************************************)
BadgeShown ==
  unseen > 0 =>
    conv.badge > 0 \/ hidden \/ \E o \in Ops : InBetween(o)

(***************************************************************************)
(* A conversation that was closed is opened again only by an assignment,   *)
(* or by the apology for an answer that was begun before the closing.      *)
(***************************************************************************)
ReopenedLate ==
  [][conv.status = "closed" /\ conv'.status # "closed" =>
       \E o \in Ops : \/ At(o, "save") /\ op[o].kind = "assign"
                      \/ At(o, "status") /\ ~op[o].fresh]_vars

(***************************************************************************)
(* A question that finds the conversation in the hands of the AI is        *)
(* answered: by the AI, by an agent, or by the apology; unless somebody    *)
(* closes or takes over the conversation, the process dies, or the apology *)
(* fails as well.                                                          *)
(***************************************************************************)
QuestionAnswered == pending ~> (~pending \/ dropped)
=============================================================================
