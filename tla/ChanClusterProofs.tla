-------------------------- MODULE ChanClusterProofs --------------------------
(***************************************************************************)
(* ChanCluster leaks no slot, for any number of callers, events and names, *)
(* any limit and any size of the channels.                                 *)
(*                                                                         *)
(* currentParallel changes in steps of its own, so that the property speaks *)
(* of it only at rest.  The inductive invariant says what it counts at any *)
(* time: at most the workers between their start and their step in stop.   *)
(* A new worker must not have been counted before, for which every caller  *)
(* must be known to bring an event of its own.                             *)
(***************************************************************************)
EXTENDS ChanCluster, FiniteSetTheorems, TLAPS

InStop == {"uncount", "delete", "wake", "drain", "close", "stopped", "panic"}
InCall == {"load", "limit", "block", "blocked", "store", "count"}

\* Who is where, on behalf of which event.
Places ==
  /\ \A p \in Caller : pc[p] \in {"idle", "put"} \cup InCall \cup InStop
  /\ \A c \in Event : pc[c] \in {"none", "run", "wait"} \cup InStop /\ ctl[c] = c
  /\ \A p \in Caller : pc[p] \in InCall => arg[p] \in Event /\ pc[arg[p]] = "none"
  /\ \A p \in Caller : pc[p] \in InCall => target[arg[p]] # Nil
  /\ \A p \in Caller : pc[p] = "count" => ctl[p] = arg[p]
  /\ \A p \in Caller : pc[p] = "put" => arg[p] \in Event
  /\ \A x \in Proc : pc[x] \in {"put"} \cup InStop => ctl[x] \in Event
  /\ \A p, q \in Caller : pc[p] \in InCall /\ pc[q] \in InCall /\ arg[p] = arg[q] => p = q
  /\ \A e \in Event : target[e] = Nil => pc[e] = "none"

\* The workers that hold a slot.
Counted == {c \in Event : pc[c] \in {"run", "wait", "uncount"}}

Counting == parallel <= Cardinality(Counted)

Inv == TypeOK /\ Places /\ Counting

-----------------------------------------------------------------------------
\* Types

\* An event that is dealt with leaves its channel in order.
LEMMA DealType ==
  ASSUME TypeOK, NEW c \in Event, Deal(c)
  PROVE  /\ queue' \in [Event -> Seq(Event)] /\ \A d \in Event : Len(queue'[d]) <= Size
         /\ dealt' \subseteq Event
<1>1. queue[c] \in Seq(Event) /\ queue[c] # << >> /\ Len(queue[c]) <= Size /\ Size \in Nat
  BY Zenon, ClusterAssumption DEF TypeOK, Deal
<1>2. Tail(queue[c]) \in Seq(Event) /\ Len(Tail(queue[c])) <= Size /\ Head(queue[c]) \in Event
  BY <1>1
<1>3. queue' = [queue EXCEPT ![c] = Tail(queue[c])] /\ dealt' = dealt \cup {Head(queue[c])}
  BY Zenon DEF Deal
<1> QED
  BY Zenon, <1>2, <1>3 DEF TypeOK

\* What an event in a call and a caller in stop refer to.
LEMMA References ==
  ASSUME TypeOK, Places
  PROVE  /\ \A p \in Caller : pc[p] \in InCall =>
              /\ arg[p] \in Event /\ target[arg[p]] \in Name
              /\ channels[target[arg[p]]] \in Event \cup {Nil}
         /\ \A p \in Caller : pc[p] = "count" => ctl[p] \in Event
<1>1. \A e \in Event : target[e] \in Name \cup {Nil}
  BY Zenon DEF TypeOK
<1>2. \A n \in Name : channels[n] \in Event \cup {Nil}
  BY Zenon DEF TypeOK
<1> QED
  BY Zenon, <1>1, <1>2 DEF Places, InCall

\* The steps of a caller that brings an event keep the types.
LEMMA CallsType ==
  ASSUME TypeOK, Places, NEW p \in Caller,
         Calls(p) \/ DeleteAgain(p)
           \/ \E n \in Name : Unregister(p, n) \/ \E e \in Event : Call(p, e, n)
  PROVE  TypeOK'
<1> USE ClusterAssumption DEF TypeOK, shared, history, Proc
<1>1. ASSUME NEW e \in Event, NEW n \in Name, Call(p, e, n) PROVE TypeOK'
  BY Zenon, <1>1 DEF Call, At
<1>2. CASE Load(p)
  <2>1. Registered(p) \in Event \cup {Nil}
    BY Zenon, <1>2, References DEF Load, At, Registered, InCall
  <2>2. ctl' \in [Proc -> Event \cup {Nil}] /\ UNCHANGED <<shared, arg, quit, history>>
    BY Zenon, <1>2, <2>1 DEF Load
  <2>3. \E to \in {"limit", "put"} : pc' = [pc EXCEPT ![p] = to]
    BY Zenon, <1>2 DEF Load, At
  <2> QED
    BY <2>2, <2>3
<1>3. CASE Limit(p)
  BY Zenon, <1>3 DEF Limit, At
<1>4. CASE Block(p)
  BY Zenon, <1>4 DEF Block, At
<1>5. CASE Store(p)
  <2>1. arg[p] \in Event /\ target[arg[p]] \in Name
    BY Zenon, <1>5, References DEF Store, At, InCall
  <2>2. /\ channels' \in [Name -> Event \cup {Nil}] /\ open' \subseteq Event
        /\ ctl' \in [Proc -> Event \cup {Nil}]
    BY Zenon, <1>5, <2>1 DEF Store
  <2> QED
    BY Zenon, <1>5, <2>2 DEF Store, At
<1>6. CASE Count(p)
  <2>1. pc[p] = "count" /\ ctl[p] \in Event
    BY Zenon, <1>6, References DEF Count
  <2>2. parallel' \in Int /\ UNCHANGED <<channels, queue, open, ctl, arg, quit, target, dealt, forced>>
        /\ pc' = [pc EXCEPT ![p] = "put", ![ctl[p]] = "run"]
    BY <1>6 DEF Count
  <2> QED
    BY Zenon, <2>1, <2>2
<1>7. CASE Put(p)
  <2>1. ctl[p] \in Event /\ arg[p] \in Event
    BY Zenon, <1>7 DEF Put, At, Places
  <2>2. queue[ctl[p]] \in Seq(Event)
    BY Zenon, <2>1
  <2>3. queue' \in [Event -> Seq(Event)] /\ \A c \in Event : Len(queue'[c]) <= Size
    <3>1. CASE Len(queue[ctl[p]]) < Size /\ queue' = [queue EXCEPT ![ctl[p]] = Append(@, arg[p])]
      <4>1. Append(queue[ctl[p]], arg[p]) \in Seq(Event)
            /\ Len(Append(queue[ctl[p]], arg[p])) <= Size
        BY <2>1, <2>2, <3>1
      <4> QED
        BY Zenon, <3>1, <4>1
    <3> QED
      BY Zenon, <1>7, <3>1 DEF Put
  <2> QED
    BY Zenon, <1>7, <2>3 DEF Put, At
<1>8. ASSUME NEW n \in Name, Unregister(p, n) PROVE TypeOK'
  BY <1>8 DEF Unregister, At
<1>9. CASE DeleteAgain(p)
  BY Zenon, <1>9 DEF DeleteAgain, At
<1> QED
  BY Zenon, <1>1, <1>2, <1>3, <1>4, <1>5, <1>6, <1>7, <1>8, <1>9 DEF Calls

\* The steps of a worker and of stop keep the types.
LEMMA WorkerType ==
  ASSUME TypeOK, Places, NEW x \in Proc, Stopping(x) \/ (x \in Event /\ Worker(x))
  PROVE  TypeOK'
<1> USE ClusterAssumption DEF TypeOK, shared, history, Proc
<1>1. CASE Uncount(x)
  BY <1>1 DEF Uncount, At
<1>2. CASE Delete(x)
  BY Zenon, <1>2 DEF Delete, At
<1>3. CASE Wake(x)
  BY ZenonT(40), <1>3 DEF Wake, At, AtAndWake, Blocked
<1>4. CASE Drain(x)
  <2>1. ctl[x] \in Event
    BY Zenon, <1>4 DEF Drain, At, Places, InStop
  <2> QED
    BY Zenon, <1>4, <2>1, DealType DEF Drain, At
<1>5. CASE Close(x)
  BY Zenon, <1>5 DEF Close, At
<1>6. CASE x \in Event /\ Work(x)
  BY ZenonT(40), <1>6, DealType DEF Work, At
<1>7. CASE x \in Event /\ Idle(x)
  BY Zenon, <1>7 DEF Idle, At
<1>8. CASE x \in Event /\ End(x)
  BY Zenon, <1>8 DEF End, At
<1>9. CASE x \in Event /\ GiveWay(x)
  BY ZenonT(40), <1>9 DEF GiveWay, AtAndWake, Blocked
<1> QED
  BY Zenon, <1>1, <1>2, <1>3, <1>4, <1>5, <1>6, <1>7, <1>8, <1>9 DEF Worker, Stopping

-----------------------------------------------------------------------------
\* Places

\* A step of x that leaves what everybody is working on, takes x to a place where it
\* may be, and lets a caller in that was blocked.
LEMMA MovePlaces ==
  ASSUME TypeOK, Places, NEW x \in Proc, NEW to,
         UNCHANGED <<ctl, arg, target>>,
         \/ pc' = [pc EXCEPT ![x] = to]
         \/ \E p \in Blocked : pc[x] # "blocked" /\ pc' = [pc EXCEPT ![x] = to, ![p] = "load"],
         \/ x \in Caller /\ pc[x] \in InCall \ {"count"} /\ to \in InCall \ {"count"}
         \/ pc[x] \in {"run", "wait"} /\ to \in {"run", "wait"}
         \/ pc[x] \in InStop \ {"panic"} /\ to \in InStop
         \/ x \in Event /\ pc[x] \in {"run", "wait"} /\ to = "uncount"
  PROVE  Places'
<1> USE ClusterAssumption DEF Proc
<1>1. \A y \in Proc : pc'[y] = IF y = x THEN to
                               ELSE IF pc'[y] # pc[y] THEN "load" ELSE pc[y]
  BY Zenon DEF TypeOK, Blocked
<1>2. \A y \in Proc : y # x /\ pc'[y] # pc[y] => y \in Caller /\ pc[y] = "blocked"
  BY Zenon DEF TypeOK, Blocked
<1>3. x \in Event => pc[x] # "none" /\ to # "none"
  BY Zenon DEF InCall, InStop
<1>4. \A c \in Event : pc'[c] = "none" <=> pc[c] = "none"
  BY <1>1, <1>2, <1>3 DEF Places, InStop
<1>5. \A q \in Caller : pc'[q] \in InCall <=> pc[q] \in InCall
  BY <1>1, <1>2 DEF Places, InCall, InStop
<1>6. \A q \in Caller : pc'[q] \in {"count", "put"} => pc'[q] = pc[q]
  BY <1>1, <1>2 DEF Places, InCall, InStop
<1>7. \A q \in Caller : pc'[q] \in {"idle", "put"} \cup InCall \cup InStop
  BY <1>1, <1>2 DEF Places, InCall, InStop
<1>8. \A c \in Event : pc'[c] \in {"none", "run", "wait"} \cup InStop
  BY <1>1, <1>2 DEF Places, InCall, InStop
<1>9. \A y \in Proc : pc'[y] \in {"put"} \cup InStop => ctl[y] \in Event
  BY <1>1, <1>2 DEF Places, InCall, InStop
<1> QED
  BY <1>4, <1>5, <1>6, <1>7, <1>8, <1>9 DEF Places

\* An event that nobody has handed in yet is brought by one caller.
LEMMA CallPlaces ==
  ASSUME TypeOK, Places, NEW p \in Caller, NEW e \in Event, NEW n \in Name, Call(p, e, n)
  PROVE  Places'
<1> USE ClusterAssumption DEF Proc
<1>1. /\ \A x \in Proc : pc'[x] = IF x = p THEN "load" ELSE pc[x]
      /\ \A q \in Caller : arg'[q] = IF q = p THEN e ELSE arg[q]
      /\ \A d \in Event : target'[d] = IF d = e THEN n ELSE target[d]
      /\ target[e] = Nil /\ n # Nil /\ pc[p] = "idle" /\ ctl' = ctl
  BY Zenon DEF TypeOK, Call, At
<1>2. pc[e] = "none" /\ \A q \in Caller : pc[q] \in InCall => arg[q] # e
  BY Zenon, <1>1 DEF Places
<1>3. \A q \in Caller : pc'[q] \in InCall =>
        /\ arg'[q] \in Event /\ pc'[arg'[q]] = "none" /\ target'[arg'[q]] # Nil
        /\ q # p => pc[q] \in InCall /\ arg'[q] # e
  BY <1>1, <1>2 DEF Places, InCall
<1>4. \A x \in Proc : x # p => pc'[x] = pc[x]
  BY Zenon, <1>1
<1>5. \A q, r \in Caller : pc'[q] \in InCall /\ pc'[r] \in InCall /\ arg'[q] = arg'[r] => q = r
  BY <1>1, <1>3 DEF Places
<1>6. \A q \in Caller : pc'[q] = "count" => ctl'[q] = arg'[q]
  BY <1>1 DEF Places
<1>7. \A q \in Caller : pc'[q] = "put" => arg'[q] \in Event
  BY Zenon, <1>1 DEF Places
<1>8. \A x \in Proc : pc'[x] \in {"put"} \cup InStop => ctl'[x] \in Event
  BY <1>1 DEF Places, InStop
<1>9. \A d \in Event : target'[d] = Nil => pc'[d] = "none"
  BY Zenon, <1>1 DEF Places
<1> QED
  BY <1>1, <1>3, <1>5, <1>6, <1>7, <1>8, <1>9 DEF Places, InCall

\* A step that only changes the place, the event and the controller of one caller.
LEMMA CallerPlaces ==
  ASSUME TypeOK, Places, NEW p \in Caller, NEW to \in {"idle", "put"} \cup InCall \cup InStop,
         pc' = [pc EXCEPT ![p] = to], target' = target,
         \A q \in Proc \ {p} : ctl'[q] = ctl[q],
         \A q \in Caller \ {p} : arg'[q] = arg[q],
         to \in InCall => pc[p] \in InCall /\ arg'[p] = arg[p],
         to = "count" => ctl'[p] = arg'[p],
         to = "put" => arg'[p] \in Event,
         to \in {"put"} \cup InStop => ctl'[p] \in Event
  PROVE  Places'
<1> USE ClusterAssumption DEF Proc
<1>1. \A x \in Proc : pc'[x] = IF x = p THEN to ELSE pc[x]
  BY Zenon DEF TypeOK
<1>2. \A q \in Caller : pc'[q] \in InCall => pc[q] \in InCall /\ arg'[q] = arg[q]
  BY Zenon, <1>1
<1>3. \A c \in Event : pc'[c] = pc[c] /\ ctl'[c] = ctl[c]
  BY Zenon, <1>1
<1>4. \A q \in Caller : pc'[q] \in InCall =>
        arg'[q] \in Event /\ pc'[arg'[q]] = "none" /\ target'[arg'[q]] # Nil
  BY <1>2, <1>3 DEF Places
<1>5. \A q, r \in Caller : pc'[q] \in InCall /\ pc'[r] \in InCall /\ arg'[q] = arg'[r] => q = r
  BY Zenon, <1>2 DEF Places
<1>6. \A q \in Caller : pc'[q] \in {"idle", "put"} \cup InCall \cup InStop
  BY <1>1 DEF Places
<1>7. \A q \in Caller : pc'[q] = "count" => ctl'[q] = arg'[q]
  BY <1>1 DEF Places
<1>8. \A q \in Caller : pc'[q] = "put" => arg'[q] \in Event
  BY <1>1 DEF Places
<1>9. \A x \in Proc : pc'[x] \in {"put"} \cup InStop => ctl'[x] \in Event
  BY <1>1 DEF Places
<1> QED
  BY <1>3, <1>4, <1>5, <1>6, <1>7, <1>8, <1>9 DEF Places

\* The caller has found a controller.
LEMMA LoadPlaces ==
  ASSUME TypeOK, Places, NEW p \in Caller, Load(p)
  PROVE  Places'
<1> USE ClusterAssumption DEF Proc, InCall
<1>1. /\ pc[p] = "load" /\ arg[p] \in Event /\ Registered(p) \in Event \cup {Nil}
      /\ arg' = arg /\ target' = target
  BY Zenon, References DEF Load, At, Registered, history
<1>2. CASE Registered(p) = Nil
  BY Zenon, <1>1, <1>2, CallerPlaces DEF Load, At, TypeOK, InStop
<1>3. CASE Registered(p) # Nil
  <2>1. pc' = [pc EXCEPT ![p] = "put"] /\ ctl' = [ctl EXCEPT ![p] = Registered(p)]
    BY Zenon, <1>3 DEF Load, At
  <2>2. ctl'[p] \in Event /\ \A q \in Proc \ {p} : ctl'[q] = ctl[q]
    BY Zenon, <1>1, <1>3, <2>1 DEF TypeOK
  <2> QED
    BY Zenon, <1>1, <2>1, <2>2, CallerPlaces DEF InStop
<1> QED
  BY Zenon, <1>2, <1>3

\* The caller stores its own controller, or another one was faster.
LEMMA StorePlaces ==
  ASSUME TypeOK, Places, NEW p \in Caller, Store(p)
  PROVE  Places'
<1> USE ClusterAssumption DEF Proc, InCall
<1>1. pc[p] = "store" /\ arg[p] \in Event /\ arg' = arg /\ target' = target
  BY Zenon, References DEF Store, At, history
<1>2. CASE Registered(p) # Nil
  BY Zenon, <1>1, <1>2, CallerPlaces DEF Store, At, TypeOK, InStop
<1>3. CASE Registered(p) = Nil
  <2>1. pc' = [pc EXCEPT ![p] = "count"] /\ ctl' = [ctl EXCEPT ![p] = arg[p]]
    BY Zenon, <1>3 DEF Store, At
  <2>2. ctl'[p] = arg[p] /\ \A q \in Proc \ {p} : ctl'[q] = ctl[q]
    BY Zenon, <1>1, <1>3, <2>1 DEF TypeOK
  <2> QED
    BY Zenon, <1>1, <2>1, <2>2, CallerPlaces DEF InStop
<1> QED
  BY Zenon, <1>2, <1>3

\* The other steps of a caller: waiting at the limit, the put, Unregister.
LEMMA OtherCallPlaces ==
  ASSUME TypeOK, Places, NEW p \in Caller,
         Limit(p) \/ Block(p) \/ Put(p) \/ DeleteAgain(p) \/ \E n \in Name : Unregister(p, n)
  PROVE  Places'
<1> USE ClusterAssumption DEF Proc, InCall
<1>1. CASE Limit(p)
  BY Zenon, <1>1, CallerPlaces DEF Limit, At, history, InStop
<1>2. CASE Block(p)
  BY Zenon, <1>2, CallerPlaces DEF Block, At, history, InStop
<1>3. CASE Put(p)
  <2>1. /\ pc' = [pc EXCEPT ![p] = "idle"] /\ target' = target
        /\ \A q \in Proc \ {p} : ctl'[q] = ctl[q]
        /\ \A q \in Caller \ {p} : arg'[q] = arg[q]
    BY Zenon, <1>3 DEF Put, At, history, TypeOK
  <2> QED
    BY Zenon, <2>1, CallerPlaces DEF InStop
<1>4. CASE DeleteAgain(p)
  <2>1. /\ pc' = [pc EXCEPT ![p] = "idle"] /\ target' = target /\ arg' = arg
        /\ \A q \in Proc \ {p} : ctl'[q] = ctl[q]
    BY Zenon, <1>4 DEF DeleteAgain, At, history, TypeOK
  <2> QED
    BY Zenon, <2>1, CallerPlaces DEF InStop
<1>5. ASSUME NEW n \in Name, Unregister(p, n) PROVE Places'
  <2>1. /\ pc' = [pc EXCEPT ![p] = "uncount"] /\ target' = target /\ arg' = arg
        /\ ctl'[p] \in Event /\ \A q \in Proc \ {p} : ctl'[q] = ctl[q]
    BY Zenon, <1>5 DEF Unregister, At, TypeOK
  <2> QED
    BY Zenon, <2>1, CallerPlaces DEF InStop
<1> QED
  BY Zenon, <1>1, <1>2, <1>3, <1>4, <1>5

\* The worker of a new controller starts; it has not run before.
LEMMA CountPlaces ==
  ASSUME TypeOK, Places, NEW p \in Caller, Count(p)
  PROVE  Places' /\ pc[ctl[p]] = "none" /\ ctl[p] \in Event
<1> USE ClusterAssumption DEF Proc, InCall
<1>1. pc[p] = "count" /\ ctl[p] = arg[p] /\ arg[p] \in Event /\ pc[arg[p]] = "none"
      /\ target[arg[p]] # Nil
  BY Zenon DEF Count, Places
<1>2. /\ \A x \in Proc : pc'[x] = IF x = p THEN "put" ELSE IF x = arg[p] THEN "run" ELSE pc[x]
      /\ UNCHANGED <<ctl, arg, target>>
  BY Zenon, <1>1 DEF Count, TypeOK, history
<1>3. \A q \in Caller : pc'[q] \in InCall => q # p /\ pc[q] \in InCall /\ arg[q] # arg[p]
  BY <1>1, <1>2 DEF Places
<1>4. \A q \in Caller : pc'[q] \in InCall =>
        arg[q] \in Event /\ pc'[arg[q]] = "none" /\ target[arg[q]] # Nil
  BY <1>2, <1>3 DEF Places
<1>5. /\ \A q \in Caller : pc'[q] \in {"idle", "put"} \cup InCall \cup InStop
      /\ \A c \in Event : pc'[c] \in {"none", "run", "wait"} \cup InStop
  BY <1>1, <1>2 DEF Places
<1>6. \A q, r \in Caller : pc'[q] \in InCall /\ pc'[r] \in InCall /\ arg[q] = arg[r] => q = r
  BY Zenon, <1>3 DEF Places
<1>7. \A q \in Caller : pc'[q] = "count" => ctl[q] = arg[q]
  BY Zenon, <1>2 DEF Places
<1>8. \A q \in Caller : pc'[q] = "put" => arg[q] \in Event
  BY Zenon, <1>1, <1>2 DEF Places
<1>9. \A x \in Proc : pc'[x] \in {"put"} \cup InStop => ctl[x] \in Event
  BY <1>1, <1>2 DEF Places, InStop
<1>10. \A e \in Event : target[e] = Nil => pc'[e] = "none"
  BY <1>1, <1>2 DEF Places
<1> QED
  BY <1>1, <1>2, <1>4, <1>5, <1>6, <1>7, <1>8, <1>9, <1>10 DEF Places

\* The steps of a worker and of stop.
LEMMA WorkerPlaces ==
  ASSUME TypeOK, Places, NEW x \in Proc, Stopping(x) \/ (x \in Event /\ Worker(x))
  PROVE  Places'
<1> USE ClusterAssumption DEF Proc, InStop
<1>1. UNCHANGED <<ctl, arg, target>>
  BY Zenon DEF Stopping, Worker, Uncount, Delete, Wake, Drain, Close, Work, Idle, End, GiveWay, history
<1>2. CASE Uncount(x)
  BY Zenon, <1>1, <1>2, MovePlaces DEF Uncount, At
<1>3. CASE Delete(x)
  BY Zenon, <1>1, <1>3, MovePlaces DEF Delete, At
<1>4. CASE Wake(x)
  BY Zenon, <1>1, <1>4, MovePlaces DEF Wake, At, AtAndWake
<1>5. CASE Drain(x)
  BY Zenon, <1>1, <1>5, MovePlaces DEF Drain, At
<1>6. CASE Close(x)
  BY Zenon, <1>1, <1>6, MovePlaces DEF Close, At
<1>7. CASE x \in Event /\ (Work(x) \/ Idle(x) \/ End(x))
  BY Zenon, <1>1, <1>7, MovePlaces DEF Work, Idle, End, At
<1>8. CASE x \in Event /\ GiveWay(x)
  BY Zenon, <1>1, <1>8, MovePlaces DEF GiveWay, AtAndWake
<1> QED
  BY Zenon, <1>2, <1>3, <1>4, <1>5, <1>6, <1>7, <1>8 DEF Stopping, Worker


-----------------------------------------------------------------------------
\* The count

\* A step that starts no worker and takes nobody past its step in stop.
LEMMA SameCounting ==
  ASSUME TypeOK, Counting, parallel' <= parallel, parallel' \in Int,
         \A c \in Event : pc[c] \in {"run", "wait", "uncount"} <=> pc'[c] \in {"run", "wait", "uncount"}
  PROVE  Counting'
<1>1. Counted' = Counted
  BY Zenon DEF Counted
<1>2. Cardinality(Counted) \in Nat
  BY Zenon, FS_Subset, FS_CardinalityType, ClusterAssumption DEF Counted
<1> QED
  BY <1>1, <1>2 DEF Counting, TypeOK

\* A worker is counted when it starts.
LEMMA CountCounting ==
  ASSUME Inv, NEW p \in Caller, Count(p)
  PROVE  Counting'
<1>1. pc[ctl[p]] = "none" /\ ctl[p] \in Event
  BY Zenon, CountPlaces DEF Inv
<1>2. ctl[p] \notin Counted /\ Counted' = Counted \cup {ctl[p]}
  BY <1>1, ClusterAssumption DEF Count, Counted, Inv, TypeOK, Proc
<1>3. IsFiniteSet(Counted) /\ Cardinality(Counted) \in Nat
  BY Zenon, FS_Subset, FS_CardinalityType, ClusterAssumption DEF Counted
<1>4. Cardinality(Counted') = Cardinality(Counted) + 1
  BY Zenon, <1>2, <1>3, FS_AddElement
<1> QED
  BY <1>3, <1>4 DEF Count, Counting, Inv, TypeOK

\* stop takes off one: a worker that was counted, or, called by Unregister, one that
\* will be taken off once more.
LEMMA UncountCounting ==
  ASSUME Inv, NEW x \in Proc, Uncount(x)
  PROVE  Counting'
<1>1. parallel' = parallel - 1 /\ pc[x] = "uncount" /\ pc' = [pc EXCEPT ![x] = "delete"]
  BY Zenon DEF Uncount, At
<1>2. IsFiniteSet(Counted) /\ Cardinality(Counted) \in Nat /\ parallel \in Int
  BY Zenon, FS_Subset, FS_CardinalityType, ClusterAssumption DEF Counted, Inv, TypeOK
<1>3. Counted' = Counted \ {x}
  BY Zenon, <1>1 DEF Counted, Inv, TypeOK, Proc
<1>4. Cardinality(Counted') >= Cardinality(Counted) - 1
  BY <1>2, <1>3, FS_RemoveElement
<1>5. Cardinality(Counted') \in Nat
  BY Zenon, <1>2, <1>3, FS_RemoveElement, FS_CardinalityType
<1> QED
  BY <1>1, <1>2, <1>4, <1>5 DEF Counting, Inv

\* No step counts a worker that does not hold a slot.
LEMMA StepCounting ==
  ASSUME Inv, Next
  PROVE  Counting'
<1> USE ClusterAssumption DEF Proc
<1>1. ASSUME NEW p \in Caller, Count(p) PROVE Counting'
  BY Zenon, <1>1, CountCounting
<1>2. ASSUME NEW x \in Proc, Uncount(x) PROVE Counting'
  BY Zenon, <1>2, UncountCounting
<1>3. ASSUME NEW p \in Caller,
             Load(p) \/ Limit(p) \/ Block(p) \/ Store(p) \/ Put(p) \/ DeleteAgain(p)
               \/ \E n \in Name : Unregister(p, n) \/ \E e \in Event : Call(p, e, n)
      PROVE  Counting'
  <2>1. parallel' = parallel /\ \A c \in Event : pc'[c] = pc[c]
    BY <1>3 DEF Load, Limit, Block, Store, Put, DeleteAgain, Unregister, Call, At, shared, Inv, TypeOK
  <2> QED
    BY <2>1, SameCounting DEF Inv, TypeOK
<1>4. ASSUME NEW x \in Proc, Delete(x) \/ Wake(x) \/ Drain(x) \/ Close(x) PROVE Counting'
  <2>1. /\ parallel' = parallel
        /\ pc[x] \in {"delete", "wake", "drain", "close"}
        /\ pc'[x] \in {"wake", "drain", "close", "stopped", "panic"}
        /\ \A c \in Event : c # x => pc'[c] = pc[c]
    <3>1. CASE Delete(x) \/ Drain(x) \/ Close(x)
      BY <3>1 DEF Delete, Drain, Close, At, Inv, TypeOK
    <3>2. CASE Wake(x)
      BY <3>2 DEF Wake, At, AtAndWake, Blocked, shared, Inv, TypeOK
    <3> QED
      BY Zenon, <1>4, <3>1, <3>2
  <2> QED
    BY <2>1, SameCounting DEF Inv, TypeOK
<1>5. ASSUME NEW c \in Event, Work(c) \/ Idle(c) \/ End(c) \/ GiveWay(c) PROVE Counting'
  <2>1. /\ parallel' = parallel
        /\ pc[c] \in {"run", "wait"} /\ pc'[c] \in {"run", "wait", "uncount"}
        /\ \A d \in Event : d # c => pc'[d] = pc[d]
    <3>1. CASE Work(c) \/ Idle(c) \/ End(c)
      BY Zenon, <3>1 DEF Work, Idle, End, At, shared, Inv, TypeOK
    <3>2. CASE GiveWay(c)
      BY <3>2 DEF GiveWay, AtAndWake, Blocked, shared, Inv, TypeOK
    <3> QED
      BY Zenon, <1>5, <3>1, <3>2
  <2> QED
    BY <2>1, SameCounting DEF Inv, TypeOK
<1>6. CASE Stop
  BY <1>6, SameCounting DEF Stop, shared, Inv, TypeOK
<1> QED
  BY Zenon, <1>1, <1>2, <1>3, <1>4, <1>5, <1>6 DEF Next, Calls, Stopping, Worker

-----------------------------------------------------------------------------
\* The invariant and what follows from it

\* It holds at the start.
LEMMA InitInv == Init => Inv
<1> SUFFICES ASSUME Init PROVE Inv
  BY Zenon
<1> USE ClusterAssumption DEF Init, Proc
<1>1. TypeOK
  <2>1. queue \in [Event -> Seq(Event)] /\ \A c \in Event : queue[c] = << >> /\ Len(queue[c]) = 0
    OBVIOUS
  <2>2. /\ pc \in [Proc -> {"idle", "none"}] /\ ctl \in [Proc -> Event \cup {Nil}]
        /\ arg \in [Caller -> Event \cup {Nil}] /\ target \in [Event -> Name \cup {Nil}]
        /\ channels \in [Name -> Event \cup {Nil}]
    BY Zenon
  <2>3. parallel \in Int /\ open = {} /\ dealt = {} /\ forced \in Nat /\ 0 <= Size
    OBVIOUS
  <2>4. quit \in BOOLEAN
    BY Zenon
  <2> HIDE DEF Init, Proc
  <2>5. \A c \in Event : Len(queue[c]) <= Size
    BY Zenon, <2>1, <2>3
  <2> QED
    BY Zenon, <2>1, <2>2, <2>3, <2>4, <2>5 DEF TypeOK
<1>2. Places
  BY Zenon DEF Places, InCall, InStop
<1>3. Counting
  <2>1. Counted = {}
    BY Zenon DEF Counted
  <2> QED
    BY <2>1, FS_EmptySet DEF Counting
<1> QED
  BY Zenon, <1>1, <1>2, <1>3 DEF Inv

\* Every step keeps it.
LEMMA StepInv == Inv /\ [Next]_vars => Inv'
<1>1. ASSUME Inv, UNCHANGED vars PROVE Inv'
  <2>1. TypeOK'
    BY Zenon, <1>1 DEF Inv, TypeOK, vars, shared, history
  <2>2. Places'
    BY Zenon, <1>1 DEF Inv, Places, vars, shared, history
  <2>3. Counting'
    BY Zenon, <1>1 DEF Inv, Counting, Counted, vars, shared
  <2> QED
    BY Zenon, <2>1, <2>2, <2>3 DEF Inv
<1>2. ASSUME Inv, Next PROVE Inv'
  <2>1. ASSUME NEW p \in Caller,
               Calls(p) \/ DeleteAgain(p)
                 \/ \E n \in Name : Unregister(p, n) \/ \E e \in Event : Call(p, e, n)
        PROVE  TypeOK' /\ Places'
    BY Zenon, <1>2, <2>1, CallsType, CallPlaces, LoadPlaces, StorePlaces, OtherCallPlaces, CountPlaces
    DEF Calls, Inv
  <2>2. ASSUME NEW x \in Proc, Stopping(x) \/ (x \in Event /\ Worker(x))
        PROVE  TypeOK' /\ Places'
    BY Zenon, <1>2, <2>2, WorkerType, WorkerPlaces DEF Inv
  <2>3. ASSUME Stop PROVE TypeOK' /\ Places'
    <3>1. TypeOK'
      BY Zenon, <1>2, <2>3 DEF Stop, shared, history, Inv, TypeOK
    <3>2. Places'
      BY Zenon, <1>2, <2>3 DEF Stop, shared, history, Inv, Places
    <3> QED
      BY Zenon, <3>1, <3>2
  <2>4. TypeOK' /\ Places'
    <3>1. CASE \E p \in Caller :
                 \/ \E n \in Name : Unregister(p, n) \/ \E e \in Event : Call(p, e, n)
                 \/ Calls(p) \/ Stopping(p) \/ DeleteAgain(p)
      BY Zenon, <3>1, <2>1, <2>2 DEF Proc
    <3>2. CASE \E c \in Event : Worker(c)
      BY Zenon, <3>2, <2>2 DEF Proc
    <3> QED
      BY Zenon, <1>2, <2>3, <3>1, <3>2 DEF Next
  <2> QED
    BY Zenon, <1>2, <2>4, StepCounting DEF Inv
<1> QED
  BY Zenon, <1>1, <1>2

\* The variables keep their types: no channel holds more than its size, whoever puts
\* into it (HandleOrRegister) and whoever takes from it (a worker, stop).
THEOREM TypeCorrect == Spec => []TypeOK
<1>1. Inv => TypeOK
  BY Zenon DEF Inv
<1> QED
  BY <1>1, InitInv, StepInv, PTL DEF Spec

\* currentParallel (HandleOrRegister, stop) never counts a worker that is gone.
THEOREM SlotsKept == Spec => []NoSlotLost
<1>1. Inv => NoSlotLost
  <2> SUFFICES ASSUME Inv, AtRest PROVE parallel <= Cardinality(Live)
    BY Zenon DEF NoSlotLost
  <2>1. Counted = Live
    BY Zenon DEF AtRest, Counted, Live
  <2> QED
    BY Zenon, <2>1 DEF Inv, Counting
<1> QED
  BY <1>1, InitInv, StepInv, PTL DEF Spec
=============================================================================
