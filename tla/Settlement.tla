------------------------------ MODULE Settlement ------------------------------
(***************************************************************************)
(* What a user witness earns (core/sc/settle_calc.go, settle.go,           *)
(* additional.go, period.go).  A node that stores a unit                   *)
(* (core/dagchain_store.go) leaves a mark with it; a service of the node   *)
(* counts the marked units into reports, by period and witness, and the    *)
(* system contract pays by these reports.                                  *)
(*                                                                         *)
(* A unit is stored in several writes, the service gets its units as       *)
(* events and from the marks, and the node may crash between any two       *)
(* writes.  The write-behind of bodies (memory_database_enable, off by     *)
(* default) is left out, and so is the removal of a unit by arbitration.   *)
(***************************************************************************)
EXTENDS Members

CONSTANTS
    Stored,             \* the units of user chains: [chain, height, by, votes, sc]
    Lib,                \* the witnesses of these chains, in order
    BillingPeriod,      \* ConfigParamsBillingPeriod
    MaxSettlement       \* MaxSettlementPeriod

ASSUME SettlementConstants ==
    /\ BillingPeriod \in Nat \ {0} /\ MaxSettlement \in Nat
    /\ Lib \in Seq(Account)
    /\ \A u \in Stored : u.by \in ToSet(Lib) /\ u.sc \in Nat \ {0}

VARIABLES
    phase,      \* where the writing of a unit is, in memory
    db,         \* the node's database: body, receipts, head, todo, report
    calc,       \* the service: what it does, the events, the marks to go through
    purse,      \* contract: next period of fees, last period of rewards
    earned      \* history: how often units were counted, what was paid

settleVars == <<phase, db, calc, purse, earned>>

WithdrawJD == 2

GetSettlePeriod(n) ==
    IF n <= BillingPeriod THEN 1 ELSE (n + BillingPeriod - 1) \div BillingPeriod

Period == 1..GetSettlePeriod(load.height)

(* The period that a unit counts for, by the height it refers to. *)
PeriodOf(u) == GetSettlePeriod(u.sc)

NoReport == [fee |-> 0, last |-> {}]

(***************************************************************************)
(* Storing a unit                                                          *)
(***************************************************************************)
Running == calc.does # "start"
SameChain(u) == {v \in Stored : v.chain = u.chain}
Parents(u) == {v \in SameChain(u) : v.height = u.height - 1}

(* The first part of writeRightUnit, under the lock of the chain, for a    *)
(* unit whose parent and whose unit of the system chain are known: the     *)
(* state and the body.                                                     *)
WriteBody(u) ==
    /\ Calls("InsertUnit") /\ Running
    /\ Parents(u) \subseteq db.head /\ u.sc <= number
    /\ \A v \in SameChain(u) : phase[v] \notin {"body", "receipts"}
    /\ u \notin db.head
    /\ phase' = [phase EXCEPT ![u] = "body"]
    /\ db' = [db EXCEPT !.body = @ \cup {u}]
    /\ UNCHANGED <<calc, purse, earned>>

WriteReceipts(u) ==
    /\ phase[u] = "body"
    /\ phase' = [phase EXCEPT ![u] = "receipts"]
    /\ db' = [db EXCEPT !.receipts = @ \cup {u}]
    /\ UNCHANGED <<calc, purse, earned>>

(* Mutated: the batch is written before the receipts. *)
WriteBatchEarly(u) ==
    /\ phase[u] \in {"body", "receipts"}
    /\ phase' = [phase EXCEPT ![u] = "post"]
    /\ db' = [db EXCEPT !.head = @ \cup {u}, !.todo = @ \cup {u}]
    /\ UNCHANGED <<calc, purse, earned>>

(* The batch: the header, the tail and the mark for the service. *)
WriteBatch(u) ==
    /\ phase[u] = "receipts"
    /\ phase' = [phase EXCEPT ![u] = "post"]
    /\ db' = [db EXCEPT !.head = @ \cup {u}, !.todo = @ \cup {u}]
    /\ UNCHANGED <<calc, purse, earned>>

(* PostChainEvent, after the unlock: the event of a child may overtake.    *)
(* It gets to the service only if that has subscribed.                     *)
PostChainEvent(u) ==
    /\ phase[u] = "post"
    /\ phase' = [phase EXCEPT ![u] = "none"]
    /\ calc' = IF calc.does = "deaf" THEN calc
               ELSE [calc EXCEPT !.units = Append(@, u)]
    /\ UNCHANGED <<db, purse, earned>>

(***************************************************************************)
(* Counting units                                                          *)
(***************************************************************************)
(* The witnesses whose report writeWorkFee renews: the proposer and those  *)
(* who voted, but for a unit that its proposer worked on last only those   *)
(* before the proposer.                                                    *)
Renewed(u) ==
    LET again == db.report[<<PeriodOf(u), u.by>>].last = {u}
        upTo == IF again THEN IndexOf(Lib, u.by) - 1 ELSE Len(Lib)
    IN  ToSet(SubSeq(Lib, 1, upTo)) \cap ({u.by} \cup u.votes)

Counted(u) ==
    [at \in DOMAIN db.report |->
        IF at[1] = PeriodOf(u) /\ at[2] \in Renewed(u)
        THEN [fee |-> db.report[at].fee + (IF at[2] = u.by THEN 1 ELSE 0), last |-> {u}]
        ELSE db.report[at]]

(* Mutated: the mark stays. *)
WriteWorkFeeMarked(u) ==
    /\ db' = [db EXCEPT !.report = Counted(u)]
    /\ earned' = IF u.by \in Renewed(u) THEN [earned EXCEPT !.counted[u] = @ + 1]
                                        ELSE earned

(* writeWorkFee: the reports and the removal of the mark are one batch. *)
WriteWorkFee(u) ==
    /\ db' = [db EXCEPT !.report = Counted(u), !.todo = @ \ {u}]
    /\ earned' = IF u.by \in Renewed(u) THEN [earned EXCEPT !.counted[u] = @ + 1]
                                        ELSE earned

(* Mutated: a unit that cannot be counted loses its mark. *)
ProcessOnce(u) ==
    \/ WriteWorkFee(u)
    \/ db' = [db EXCEPT !.todo = @ \ {u}] /\ UNCHANGED earned

(* process: without the list of the chain's witnesses it only logs. *)
Process(u) == WriteWorkFee(u) \/ UNCHANGED <<db, earned>>

(* An entry of processOld, parents before their children: the marks are    *)
(* ordered by time.  A mark without its unit is removed.                   *)
ProcessOld(u) ==
    /\ calc.does \in {"start", "pass"}
    /\ u \in calc.old /\ Parents(u) \cap calc.old = {}
    /\ calc' = [calc EXCEPT !.old = @ \ {u}]
    /\ IF u \in db.head \cap db.body THEN Process(u)
       ELSE db' = [db EXCEPT !.todo = @ \ {u}] /\ UNCHANGED earned
    /\ UNCHANGED <<phase, purse>>

(* Start goes on to the goroutine of listen, which subscribes later. *)
Started ==
    /\ calc.does = "start" /\ calc.old = {}
    /\ calc' = [calc EXCEPT !.does = "deaf"]
    /\ UNCHANGED <<phase, db, purse, earned>>

Subscribe ==
    /\ calc.does = "deaf"
    /\ calc' = [calc EXCEPT !.does = "listen"]
    /\ UNCHANGED <<phase, db, purse, earned>>

HandleUnit ==
    /\ calc.does = "listen" /\ calc.units # <<>>
    /\ calc' = [calc EXCEPT !.units = Tail(@)]
    /\ Process(Head(calc.units))
    /\ UNCHANGED <<phase, purse>>

(* Units on their way to the service, or waiting there. *)
Coming == ToSet(calc.units) \cup {u \in Stored : phase[u] = "post"}

(* The daily pass over the marks, in the loop of listen. *)
DailyPass ==
    /\ Calls("DailyPass")
    /\ calc.does = "listen" /\ db.todo # {}
    /\ calc' = [calc EXCEPT !.does = "pass", !.old = db.todo]
    /\ earned' = [earned EXCEPT !.twice = @ \cup (db.todo \cap Coming)]
    /\ UNCHANGED <<phase, db, purse>>

PassEnds ==
    /\ calc.does = "pass" /\ calc.old = {}
    /\ calc' = [calc EXCEPT !.does = "listen"]
    /\ UNCHANGED <<phase, db, purse, earned>>

(* The process ends, by a crash or by Stop, which drops the events; what   *)
(* follows is NewDagChain on the same database.                            *)
Restart ==
    /\ Calls("Restart")
    /\ phase' = [u \in Stored |-> "none"]
    /\ calc' = [does |-> "start", units |-> <<>>, old |-> db.todo]
    /\ UNCHANGED <<db, purse, earned>>

(***************************************************************************)
(* Being paid                                                              *)
(***************************************************************************)
CheckSettlementPeriod(next, now) ==
    IF SafeSub(now, next) > MaxSettlement THEN SafeSub(now, MaxSettlement) ELSE next

(* Mutated: the last period that was paid is the first of the next call. *)
NextWithdrawSame(begin, upTo) == IF begin > upTo THEN begin ELSE upTo

(* The period from which the next call is to pay fees. *)
NextWithdraw(begin, upTo) == IF begin > upTo THEN begin ELSE upTo + 1

(* getAbortBalance: the periods up to upTo in which the witness a made     *)
(* units, after the last one that was rewarded.                            *)
Rewarded(a, upTo) ==
    LET after == CheckSettlementPeriod(purse.last[a], upTo)
    IN  {p \in (after + 1)..upTo : db.report[<<p, a>>].fee > 0}

(* GetAdditional fails in the first periods and without a reward. *)
CanGetAdditional(a, now) ==
    /\ number > 1 /\ now > WithdrawJD
    /\ wit.status[a] \in {"normal", "out"} /\ wit.at[a] # SysGroup
    /\ Rewarded(a, SafeSub(now, WithdrawJD)) # {}

(* The call of a user witness: GetAdditional pays the rewards, then        *)
(* Settlement the fees.  Only the periods are kept of the amounts.         *)
SettlementCall(a) ==
    LET now == GetSettlePeriod(number - 1)
        upTo == SafeSub(now, WithdrawJD)
        begin == CheckSettlementPeriod(purse.next[a], now)
        paid(at, periods, x) == IF at[2] = a /\ at[1] \in periods THEN x ELSE 0
    IN  /\ Calls("Settlement") /\ Running
        /\ CanGetAdditional(a, now)
        /\ purse' = [purse EXCEPT !.last[a] = upTo,
                                  !.next[a] = NextWithdraw(begin, upTo)]
        /\ earned' = [earned EXCEPT
                !.rewards = [at \in DOMAIN @ |-> @[at] + paid(at, Rewarded(a, upTo), 1)],
                !.fees = [at \in DOMAIN @ |->
                            @[at] + paid(at, begin..upTo, db.report[at].fee)]]
        /\ UNCHANGED <<phase, db, calc>>

SettlementInit ==
    LET reports == Period \X ToSet(Lib)
    IN  /\ phase = [u \in Stored |-> "none"]
        /\ db = [body |-> {}, receipts |-> {}, head |-> {}, todo |-> {},
                 report |-> [at \in reports |-> NoReport]]
        /\ calc = [does |-> "start", units |-> <<>>, old |-> {}]
        /\ purse = [next |-> [a \in ToSet(Lib) |-> 1], last |-> [a \in ToSet(Lib) |-> 0]]
        /\ earned = [counted |-> [u \in Stored |-> 0], twice |-> {},
                     rewards |-> [at \in reports |-> 0], fees |-> [at \in reports |-> 0]]

(* The steps of the node, and the call of the contract. *)
SettlementNext ==
    \/ \E u \in Stored : WriteBody(u)
    \/ \E u \in Stored : WriteReceipts(u)
    \/ \E u \in Stored : WriteBatch(u)
    \/ \E u \in Stored : PostChainEvent(u)
    \/ \E u \in Stored : ProcessOld(u)
    \/ Started
    \/ Subscribe
    \/ HandleUnit
    \/ DailyPass
    \/ PassEnds
    \/ Restart
    \/ \E a \in ToSet(Lib) : SettlementCall(a)

(***************************************************************************)
(* Properties                                                              *)
(***************************************************************************)
(* A unit that the node knows is whole: with its header there are its      *)
(* body, its receipts and its parent, wherever the node crashed while it   *)
(* stored units, so that the service can always count what is marked.      *)
StoredWhole ==
    \A u \in db.head : u \in db.body \cap db.receipts /\ Parents(u) \subseteq db.head

(* The work for a stored unit is not lost: it has been counted, or a mark  *)
(* is left for the next start or daily pass, even if the event was dropped *)
(* or could not be handled.                                                *)
WorkKept == \A u \in db.head : earned.counted[u] > 0 \/ u \in db.todo

(* A unit is counted once, however often the node restarts and whatever    *)
(* gets lost.  The exception is a unit that the daily pass finds marked    *)
(* while its event is still to come.                                       *)
CountedOnce == \A u \in Stored : earned.counted[u] <= 1 \/ u \in earned.twice

(* No period is paid twice, at any distance between the calls: what was    *)
(* paid of a period is not above its report, and its reward is paid once.  *)
PaidOnce ==
    \A at \in DOMAIN db.report : /\ earned.fees[at] <= db.report[at].fee
                                /\ earned.rewards[at] <= 1
=============================================================================
