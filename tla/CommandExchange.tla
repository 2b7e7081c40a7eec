-------------------------- MODULE CommandExchange --------------------------
(***************************************************************************)
(* One command and its answer, over and over: CommandChannel::exchange and *)
(* send of command.cpp, as they are, for a V2 or a V3, and inside the      *)
(* framing of programmer_v1.cpp, where a status wrapper follows every      *)
(* operation, for a V1.                                                    *)
(*                                                                         *)
(* The transport is external and promises what transport.h:98-117 says: a  *)
(* reply may be short or empty, one longer than the buffer is an error,    *)
(* and nothing of a transfer that failed turns up later, so that a command *)
(* whose transfer failed is not answered either.  What it has for us to    *)
(* read is a queue, and everything in it is stale once another command has *)
(* been sent.                                                              *)
(***************************************************************************)
EXTENDS Naturals, Sequences

CONSTANT MaxInbox  \* bound: no command starts with more than this unread

ASSUME MaxInboxIsNat == MaxInbox \in Nat

VARIABLES
  version,  \* of the programmer, 1 or 2, fixed
  stage,    \* where the call is
  op,       \* what is being sent: see Op
  sends,    \* how often it has been sent: retry + 1 of command.cpp:106
  first,    \* what reply[0] holds
  inbox,    \* what the reply endpoint has for us, oldest first
  result,   \* how the last call ended
  answer,   \* what it returned, when it ended well
  link      \* history: "upset" once a transfer has failed, "sound" until then

exchangeVars == <<version, stage, op, sends, first, inbox, result, answer, link>>

(* kWaitRetries. *)
WaitRetries == 3

Check == {"None", "ReplyLength", "Status", "Retry"}

(* room: the reply asked for.  A wrapper is longer than a small reply and   *)
(* shorter than a large one.  then: a memory write's data follows, or not.  *)
Op == [check : Check, room : {"nothing", "small", "large"}, then : {"done", "data"}]

(* A V2 always, a V1 as long as no transfer has failed. *)
Trusted == version = 2 \/ link = "sound"

Size == [nothing |-> 0, small |-> 4, wrapper |-> 13, large |-> 84]

(* A V1 has nothing for the channel to check, a V2 checks as it pleases.  *)
(* Only a command that answers with nothing is followed by data.          *)
OpsOf(v) ==
  {o \in Op : /\ v = 1 => o.check = "None"
              /\ o.room = "nothing" => o.check = "None"
              /\ o.then = "data" => v = 1 /\ o.room = "nothing"}

Status == {"ok", "wait", "refused"}

Item == [kind : {"small", "wrapper", "large"}, says : Status,
         extent : {"full", "short", "empty"}, age : {"fresh", "stale"}]

NoAnswer == [kind |-> "nothing"]

Stale(item) ==
  [kind |-> item.kind, says |-> item.says, extent |-> item.extent, age |-> "stale"]

Aged(items) == [i \in DOMAIN items |-> Stale(items[i])]

Wrapper == [kind |-> "wrapper", says |-> "ok", extent |-> "full", age |-> "fresh"]

RepliesTo(o) ==
  IF o.room = "nothing" THEN {<<>>}
  ELSE {<<r>> : r \in {s \in Item : s.kind = o.room /\ s.age = "fresh"}}

(* What a programmer that took the command puts in the queue. *)
AnswersTo(o) ==
  {IF version = 1 /\ o.then = "done" THEN Append(r, Wrapper) ELSE r : r \in RepliesTo(o)}

ExchangeInit ==
  /\ version \in {1, 2}
  /\ stage = "idle"
  /\ op \in {o \in OpsOf(version) : o.room = "nothing" /\ o.then = "done"}
  /\ sends = 0
  /\ first = "zero"
  /\ inbox = <<>>
  /\ result = "none"
  /\ answer = NoAnswer
  /\ link = "sound"

Return(how, what) ==
  /\ stage' = "idle"
  /\ result' = how
  /\ answer' = what

-----------------------------------------------------------------------------
(* The call, and each time its command goes out.                           *)

(* Faulty: the reply is read into what the last one left. *)
CallWithOldBuffer(o) ==
  /\ stage = "idle"
  /\ Len(inbox) <= MaxInbox
  /\ stage' = "sending"
  /\ op' = o
  /\ sends' = 0
  /\ result' = "none"
  /\ answer' = NoAnswer
  /\ UNCHANGED <<version, first, inbox, link>>

(* Every caller begins with a reply of zeros, which is no status of Ok. *)
Call(o) ==
  /\ stage = "idle"
  /\ Len(inbox) <= MaxInbox
  /\ stage' = "sending"
  /\ op' = o
  /\ sends' = 0
  /\ first' = "zero"
  /\ result' = "none"
  /\ answer' = NoAnswer
  /\ UNCHANGED <<version, inbox, link>>

SendFails ==
  /\ stage = "sending"
  /\ Return("io", NoAnswer)
  /\ sends' = sends + 1
  /\ inbox' = Aged(inbox)
  /\ link' = "upset"
  /\ UNCHANGED <<version, op, first>>

(* Faulty: a V2 is waited upon as if it were a V1. *)
AfterSendFramed ==
  IF op.then = "data" THEN "data" ELSE IF op.room # "nothing" THEN "receiving" ELSE "wrapper"

(* Faulty: a reply that is not to be checked is not read. *)
AfterSendUnread ==
  IF op.then = "data" THEN "data"
  ELSE IF op.check # "None" THEN "receiving"
  ELSE IF version = 1 THEN "wrapper" ELSE "sent"

(* Where the call goes once the command is out. *)
AfterSend ==
  IF op.then = "data" THEN "data"
  ELSE IF op.room # "nothing" THEN "receiving"
  ELSE IF version = 1 THEN "wrapper" ELSE "sent"

(* The programmer takes the command, or only part of it, which is logged *)
(* and leaves the answer, or its absence, to decide.                     *)
Send ==
  /\ stage = "sending"
  /\ stage' = AfterSend
  /\ sends' = sends + 1
  /\ \E items \in AnswersTo(op) \cup {<<>>} : inbox' = Aged(inbox) \o items
  /\ link' = IF Len(inbox') = Len(inbox) /\ <<>> \notin AnswersTo(op) THEN "upset" ELSE link
  /\ UNCHANGED <<version, op, first, result, answer>>

(* send() of a V2: there is nothing to wait for. *)
Sent ==
  /\ stage = "sent"
  /\ Return("ok", NoAnswer)
  /\ UNCHANGED <<version, op, sends, first, inbox, link>>

-----------------------------------------------------------------------------
(* The reply.                                                              *)

(* No answer in time: what comes of it later the transport drops. *)
ReceiveFails ==
  /\ stage = "receiving"
  /\ Return("io", NoAnswer)
  /\ inbox' = IF inbox = <<>> THEN <<>> ELSE Tail(inbox)
  /\ link' = "upset"
  /\ UNCHANGED <<version, op, sends, first>>

Fits(item, room) == Size[item.kind] <= Size[room]

(* reply[0] after the next item has been read over it. *)
FirstByte == IF Head(inbox).extent = "empty" THEN first ELSE Head(inbox).says

Arrives ==
  /\ stage = "receiving"
  /\ inbox # <<>>
  /\ Fits(Head(inbox), op.room)
  /\ inbox' = Tail(inbox)
  /\ first' = FirstByte
  /\ UNCHANGED <<version, op, sends, link>>

Overflows ==
  /\ stage = "receiving"
  /\ inbox # <<>>
  /\ ~Fits(Head(inbox), op.room)
  /\ Return("io", NoAnswer)
  /\ inbox' = Tail(inbox)
  /\ link' = "upset"
  /\ UNCHANGED <<version, op, sends, first>>

StatusChecked == op.check \in {"Status", "Retry"}

WaitAgain == op.check = "Retry" /\ FirstByte = "wait" /\ sends <= WaitRetries

(* Faulty: one retry too many. *)
RetriesOnceMore ==
  /\ Arrives
  /\ op.check = "Retry" /\ FirstByte = "wait" /\ sends <= WaitRetries + 1
  /\ stage' = "sending"
  /\ UNCHANGED <<result, answer>>

(* The target asks to wait: the whole command goes again. *)
Retries ==
  /\ Arrives
  /\ WaitAgain
  /\ stage' = "sending"
  /\ UNCHANGED <<result, answer>>

Refused ==
  /\ Arrives
  /\ StatusChecked
  /\ FirstByte # "ok"
  /\ ~WaitAgain
  /\ Return("refused", NoAnswer)

Complete(item) == item.kind = op.room /\ item.extent = "full"

WrongLength ==
  /\ Arrives
  /\ op.check = "ReplyLength"
  /\ ~Complete(Head(inbox))
  /\ Return("protocol", NoAnswer)

Accepts ==
  /\ Arrives
  /\ StatusChecked => FirstByte = "ok"
  /\ op.check = "ReplyLength" => Complete(Head(inbox))
  /\ IF version = 1
     THEN stage' = "wrapper" /\ answer' = Head(inbox) /\ UNCHANGED result
     ELSE Return("ok", Head(inbox))

-----------------------------------------------------------------------------
(* What a V1 adds.                                                         *)

(* The data of a memory write: then the operation is over. *)
WriteData ==
  /\ stage = "data"
  /\ stage' = "wrapper"
  /\ inbox' = Append(inbox, Wrapper)
  /\ UNCHANGED <<version, op, sends, first, result, answer, link>>

(* All of it or part of it was not taken: the programmer may or may not *)
(* call the operation over, and its wrapper is not read.                *)
WriteDataFails ==
  /\ stage = "data"
  /\ Return("io", NoAnswer)
  /\ inbox' \in {inbox, Append(inbox, Wrapper)}
  /\ link' = "upset"
  /\ UNCHANGED <<version, op, sends, first>>

(* Faulty: the wrapper is left for later. *)
WrapperLeft ==
  /\ stage = "wrapper"
  /\ inbox # <<>>
  /\ Return("ok", answer)
  /\ UNCHANGED <<version, op, sends, first, inbox, link>>

(* Its contents are not examined: whatever is next, if it fits, is it. *)
DiscardWrapper ==
  /\ stage = "wrapper"
  /\ inbox # <<>>
  /\ Fits(Head(inbox), "wrapper")
  /\ Return("ok", answer)
  /\ inbox' = Tail(inbox)
  /\ UNCHANGED <<version, op, sends, first, link>>

(* Faulty: a wrapper is waited for until it comes. *)
DiscardWaits == stage = "wrapper" /\ inbox = <<>> /\ UNCHANGED exchangeVars

(* It does not come in time, or what comes does not fit. *)
DiscardFails ==
  /\ stage = "wrapper"
  /\ Return("io", NoAnswer)
  /\ inbox' = IF inbox = <<>> THEN <<>> ELSE Tail(inbox)
  /\ link' = "upset"
  /\ UNCHANGED <<version, op, sends, first>>

(* The only cure: unplugged, plugged in and opened anew. *)
Reopen ==
  /\ stage = "idle"
  /\ inbox' = <<>>
  /\ link' = "sound"
  /\ result' = "none"
  /\ answer' = NoAnswer
  /\ UNCHANGED <<version, stage, op, sends, first>>

-----------------------------------------------------------------------------
CallProceeds ==
  \/ SendFails \/ Send \/ Sent
  \/ ReceiveFails \/ Overflows
  \/ Retries \/ Refused \/ WrongLength \/ Accepts
  \/ WriteData \/ WriteDataFails
  \/ DiscardWrapper \/ DiscardFails

ExchangeNext == (\E o \in OpsOf(version) : Call(o)) \/ CallProceeds \/ Reopen

ExchangeSpec == ExchangeInit /\ [][ExchangeNext]_exchangeVars

(* Every transfer has a timeout, every pause is finite. *)
FairExchangeSpec == ExchangeSpec /\ WF_exchangeVars(CallProceeds)

-----------------------------------------------------------------------------
(* Properties.                                                             *)

(* Types, and: only a V1 waits for wrappers and writes data here. *)
ExchangeTypeOK ==
  /\ version \in {1, 2} /\ link \in {"sound", "upset"}
  /\ stage \in {"idle", "sending", "receiving", "sent", "data", "wrapper"}
  /\ op \in OpsOf(version)
  /\ sends \in Nat
  /\ first \in Status \cup {"zero"}
  /\ inbox \in Seq(Item)
  /\ result \in {"none", "io", "refused", "protocol", "ok"}
  /\ answer \in Item \cup {NoAnswer}
  /\ stage \in {"data", "wrapper"} => version = 1

(* command.cpp:101-169 returns, as the answer to a command, only what the  *)
(* programmer answered to the last time it was sent: not to an earlier     *)
(* try, nor to a command before it that failed half way.  On a V1 that     *)
(* holds until a transfer fails, and no longer.                            *)
AnswerIsForThisSend ==
  result = "ok" /\ op.room # "nothing" /\ Trusted =>
    answer.kind = op.room /\ answer.age = "fresh"

(* command.cpp:127-156 reads reply[0] without asking how much arrived, and *)
(* still a checked command succeeds only when its last reply held a status *)
(* of Ok: an empty reply leaves zeros there, or the wait before it.        *)
OkWasSaid ==
  result = "ok" /\ StatusChecked => answer.extent # "empty" /\ answer.says = "ok"

(* A command is sent once, unless it is to be retried: then four times at  *)
(* most (kWaitRetries), and a target that asked to wait is given up only   *)
(* after the fourth.                                                       *)
FourSendsAtMost ==
  /\ sends <= WaitRetries + 1
  /\ sends > 1 => op.check = "Retry"
  /\ result = "refused" /\ op.check = "Retry" /\ first = "wait" => sends = WaitRetries + 1

(* Between calls there is nothing left to read: whatever failed, on a V2;  *)
(* until something has, on a V1.                                           *)
NothingUnread ==
  stage = "idle" /\ Trusted => inbox = <<>>

(* Every call ends, however long the target asks to wait.                  *)
CallEnds == stage # "idle" ~> stage = "idle"

(* programmer_v1.cpp:109-113, "Reading it is what matters, since anything  *)
(* left behind becomes the next reply": no wrapper, and no reply to an     *)
(* earlier command, is ever returned as an answer.                         *)
NothingBecomesTheNextReply ==
  result = "ok" /\ op.room # "nothing" => answer.kind = op.room /\ answer.age = "fresh"

=============================================================================
