-------------------------- MODULE PaymentReminders --------------------------
(***************************************************************************)
(* payments.process_payment_reminders: every few minutes the panel sends   *)
(* each due account's reminder to the administrator's chat, a summary and  *)
(* a text to forward, and records every part it has an acknowledgement for *)
(* so that a later run resumes where an earlier one stopped.               *)
(*                                                                         *)
(* The due accounts are read once when a run starts; sending and waiting   *)
(* between accounts takes minutes, without any lock, and administrators    *)
(* edit, delete and approve accounts, and the month changes, meanwhile.    *)
(*                                                                         *)
(* Simplifications.  arrived holds the accounts whose day and hour have    *)
(* come this month; editing the day may move an account either way.  Every *)
(* limit an account can have has a price.  One run at a time is what       *)
(* _payment_run_lock gives.  A part counts for a name, not for one of the  *)
(* accounts that had it.                                                   *)
(***************************************************************************)
EXTENDS Integers, FiniteSets

CONSTANTS Payers,    \* login names, numbered in sorted order
          Edited,    \* bound: those an administrator edits, deletes or approves
          MaxMonth,  \* bounds: months,
          MaxBreaks  \* crashes and failed writes

ASSUME PayersAssumption == Payers \subseteq Nat /\ Edited \subseteq Payers
ASSUME MonthsAssumption == MaxMonth \in Nat \ {0} /\ MaxBreaks \in Nat

VARIABLES
    month, arrived,
    account,  \* users.json: the payment fields of each account
    run,      \* the running delivery, see Runs
    breaks,   \* crashes and failed writes so far
    acked,    \* ghost: parts acknowledged for the month of the latest run
    excused,  \* ghost: names with an acknowledgement whose record was lost or
              \* taken back in that month
    repeated  \* ghost: names that had a part acknowledged twice in that month

paymentVars == <<month, arrived, account, run, breaks, acked, excused, repeated>>

Months == 1..MaxMonth
Parts == {"summary", "forward"}
NoDelivery == [month |-> 0, parts |-> {}]
Fresh == [approved |-> FALSE, enabled |-> FALSE, notified |-> 0, delivery |-> NoDelivery]
Gone == [approved |-> FALSE]
Known(u) == account[u] # Gone
PaymentAccounts == [approved : BOOLEAN, enabled : BOOLEAN, notified : 0..MaxMonth,
                    delivery : [month : 0..MaxMonth, parts : SUBSET Parts]]

\* step: "prepare", a part to be sent, or the part to be recorded.  due: the
\* accounts still to serve, the least first.  parts: what was recorded before.
Steps == {"idle", "prepare", "summary", "forward", "markSummary", "markForward"}
Runs == [step : Steps, month : 0..MaxMonth, due : SUBSET Payers, parts : SUBSET Parts]
Marking(part) == IF part = "summary" THEN "markSummary" ELSE "markForward"

-----------------------------------------------------------------------------
(* One run *)

\* _is_due
IsDue(u) ==
    /\ Known(u) /\ account[u].enabled /\ account[u].approved
    /\ u \in arrived /\ account[u].notified # month

StartRun ==
    /\ run.step = "idle" /\ \E u \in Payers : IsDue(u)
    /\ run' = [step |-> "prepare", month |-> month, due |-> {u \in Payers : IsDue(u)}, parts |-> {}]
    /\ IF run.month = month
       THEN UNCHANGED <<acked, excused, repeated>>
       ELSE acked' = [u \in Payers |-> {}] /\ excused' = {} /\ repeated' = {}
    /\ UNCHANGED <<month, arrived, account, breaks>>

\* The account at its turn.
Turn(u) == u \in run.due /\ \A v \in run.due : u <= v
NextUser(u) == [run EXCEPT !.due = @ \ {u}, !.parts = {},
                           !.step = IF run.due = {u} THEN "idle" ELSE "prepare"]

\* The first part not yet recorded, or the next account.
Towards(u, parts) ==
    IF parts = Parts THEN NextUser(u)
    ELSE [run EXCEPT !.parts = parts,
                     !.step = IF "summary" \in parts THEN "forward" ELSE "summary"]

\* _prepare_delivery: the record of an earlier month does not count.
\* Mutants: it does; or nothing recorded counts.
RecordedEver(u) == account[u].delivery.parts
RecordedNever(u) == {}
Recorded(u) == IF account[u].delivery.month = run.month THEN account[u].delivery.parts ELSE {}

Prepare(u) ==
    /\ run.step = "prepare" /\ Turn(u)
    /\ IF ~Known(u) THEN run' = NextUser(u) /\ UNCHANGED account
       ELSE IF ~account[u].enabled \/ account[u].notified = run.month
       THEN run' = NextUser(u) /\ UNCHANGED account
       ELSE /\ account' = [account EXCEPT ![u].delivery = [month |-> run.month, parts |-> Recorded(u)]]
            /\ run' = Towards(u, Recorded(u))
    /\ UNCHANGED <<month, arrived, breaks, acked, excused, repeated>>

\* The sender returns True: Telegram has the message.
Acknowledged(u, part) ==
    /\ run.step = part /\ Turn(u)
    /\ run' = [run EXCEPT !.step = Marking(part)]
    /\ acked' = [acked EXCEPT ![u] = @ \cup {part}]
    /\ repeated' = IF part \in acked[u] THEN repeated \cup {u} ELSE repeated
    /\ UNCHANGED <<month, arrived, account, breaks, excused>>

\* It returns False: nothing was sent, or the answer got lost.
Unacknowledged(u) ==
    /\ run.step \in Parts /\ Turn(u)
    /\ run' = NextUser(u)
    /\ UNCHANGED <<month, arrived, account, breaks, acked, excused, repeated>>

\* _checkpoint's record of one part.  Mutant: it replaces the earlier one.
MarkedAlone(u, part) == [account[u] EXCEPT !.delivery = [month |-> run.month, parts |-> {part}]]
Marked(u, part) ==
    LET parts == Recorded(u) \cup {part} IN
    IF parts = Parts
    THEN [account[u] EXCEPT !.notified = run.month, !.delivery = NoDelivery]
    ELSE [account[u] EXCEPT !.delivery = [month |-> run.month, parts |-> parts]]

Checkpoint(u, part) ==
    /\ run.step = Marking(part) /\ Turn(u)
    /\ IF ~Known(u) THEN run' = NextUser(u) /\ UNCHANGED account
       ELSE IF ~account[u].enabled THEN run' = NextUser(u) /\ UNCHANGED account
       ELSE /\ account' = [account EXCEPT ![u] = Marked(u, part)]
            /\ run' = Towards(u, run.parts \cup {part})
    /\ UNCHANGED <<month, arrived, breaks, acked, excused, repeated>>

\* A write raises, before or after its effect, or the process dies: the run
\* is over and its locals are gone.
Broken == [run EXCEPT !.step = "idle", !.due = {}, !.parts = {}]
Break ==
    /\ run.step # "idle" /\ breaks < MaxBreaks
    /\ breaks' = breaks + 1
    /\ run' = Broken
    /\ excused' = IF run.step \in {"markSummary", "markForward"}
                  THEN excused \cup {u \in Payers : Turn(u)} ELSE excused
    /\ UNCHANGED <<month, arrived, account, acked, repeated>>

BreakCommitted(u, part) ==
    /\ run.step = Marking(part) /\ Turn(u) /\ breaks < MaxBreaks
    /\ Known(u) /\ account[u].enabled
    /\ breaks' = breaks + 1
    /\ account' = [account EXCEPT ![u] = Marked(u, part)]
    /\ run' = Broken
    /\ UNCHANGED <<month, arrived, acked, excused, repeated>>

-----------------------------------------------------------------------------
(* Around it *)

DayComes(u) ==
    /\ u \notin arrived /\ arrived' = arrived \cup {u}
    /\ UNCHANGED <<month, account, run, breaks, acked, excused, repeated>>

MonthEnds ==
    /\ month < MaxMonth
    /\ month' = month + 1 /\ arrived' = {}
    /\ UNCHANGED <<account, run, breaks, acked, excused, repeated>>

\* admin_edit, with reminders switched on (and any payment day) or off.
EditOn(u) ==
    /\ Known(u)
    /\ account' = [account EXCEPT ![u].enabled = TRUE]
    /\ arrived' \in {arrived \cup {u}, arrived \ {u}}
    /\ UNCHANGED <<month, run, breaks, acked, excused, repeated>>

EditOff(u) ==
    /\ Known(u)
    /\ account' = [account EXCEPT ![u].enabled = FALSE, ![u].delivery = NoDelivery]
    /\ excused' = excused \cup {u}
    /\ UNCHANGED <<month, arrived, run, breaks, acked, repeated>>

\* delete_user and its end; a new registration of the name, and its approval.
Close(u) ==
    /\ Known(u)
    /\ account' = [account EXCEPT ![u].approved = FALSE, ![u].enabled = FALSE]
    /\ excused' = excused \cup {u}
    /\ UNCHANGED <<month, arrived, run, breaks, acked, repeated>>

RemoveOrRegister(u) ==
    /\ account' = [account EXCEPT ![u] = IF Known(u) THEN Gone ELSE Fresh]
    /\ Known(u) => ~account[u].approved
    /\ excused' = excused \cup {u}
    /\ UNCHANGED <<month, arrived, run, breaks, acked, repeated>>

Approved(u) ==
    /\ Known(u)
    /\ account' = [account EXCEPT ![u].approved = TRUE]
    /\ UNCHANGED <<month, arrived, run, breaks, acked, excused, repeated>>

PaymentInit ==
    /\ month = 1 /\ arrived = {}
    /\ account = [u \in Payers |-> [Fresh EXCEPT !.approved = TRUE, !.enabled = TRUE]]
    /\ run = [step |-> "idle", month |-> 0, due |-> {}, parts |-> {}]
    /\ breaks = 0 /\ acked = [u \in Payers |-> {}] /\ excused = {} /\ repeated = {}

RunOf(u) == Prepare(u) \/ Unacknowledged(u) \/ \E part \in Parts : Acknowledged(u, part) \/ Checkpoint(u, part)
Administered(u) == EditOn(u) \/ EditOff(u) \/ Close(u) \/ RemoveOrRegister(u) \/ Approved(u)

PaymentNext ==
    \/ StartRun \/ Break \/ MonthEnds
    \/ \E u \in Edited : Administered(u)
    \/ \E u \in Payers : RunOf(u) \/ DayComes(u) \/ \E part \in Parts : BreakCommitted(u, part)

PaymentSpec == PaymentInit /\ [][PaymentNext]_paymentVars

-----------------------------------------------------------------------------
(* Properties *)

\* Every variable holds what users.json and a run can hold.
PaymentTypeOK ==
    /\ month \in Months /\ arrived \subseteq Payers
    /\ account \in [Payers -> PaymentAccounts \cup {Gone}]
    /\ run \in Runs /\ breaks \in 0..MaxBreaks
    /\ acked \in [Payers -> SUBSET Parts]
    /\ excused \subseteq Payers /\ repeated \subseteq Payers

\* An account carries a month's mark only if Telegram acknowledged both parts
\* in that month, whichever runs, crashes, edits and months lie between them.
NotifiedMeansSent ==
    \A u \in Payers : Known(u) /\ run.month # 0 => (account[u].notified = run.month => acked[u] = Parts)

\* A part acknowledged once is not sent again in that month, unless a crash or
\* a failed write lost the record of it or an administrator took it back.
SentOnce == repeated \subseteq excused

\* Nobody stays due for ever: failures of one account do not starve the next,
\* and a part recorded in one run completes with the other part in a later one.
EventuallyNotified == \A u \in Payers : IsDue(u) ~> ~IsDue(u)

=============================================================================
