---------------------------- MODULE WorkersProofs ----------------------------
(***************************************************************************)
(* Theorems of the workers, for any pairs, faults and bounds.  OneEngine   *)
(* and OneTrader need to know what the map holds: a registered goroutine   *)
(* is alive, of the pair it is registered for, and past its                *)
(* initialisation; so whoever enters the map, having found no one there,   *)
(* finds no open engine of its pair either.  Whoever stops a worker leaves *)
(* no engine open under the name; only after a panic can that engine be    *)
(* one that somebody is using.                                             *)
(***************************************************************************)
EXTENDS Workers, TLAPS

Running == Cycle \cup {"loop"}

(* The map s and the goroutines h fit together. *)
MapIn(s, h) ==
    /\ s \in [Pairs -> Ids \cup {None}] /\ h \in [Ids -> Goroutine]
    /\ \A p \in Pairs : s[p] # None => h[s[p]].pair = p /\ h[s[p]].pc \in Running
    /\ \A i \in Ids : h[i].open => s[h[i].pair] = i
    /\ "panic" \in Faults \/ \A i \in Ids : h[i].pc \in Cycle => h[i].open

(* What the refresh has read, and what the pairs share. *)
ReadIn(l) ==
    /\ DOMAIN l \subseteq Pairs
    /\ \A p \in DOMAIN l : l[p] \in [usable : BOOLEAN, term : BOOLEAN]

(* The inductive invariant. *)
IInv ==
    /\ MapIn(signals, g)
    /\ ReadIn(listed)
    /\ status \in [Pairs -> Statuses] /\ usable \subseteq Pairs
    /\ buys \subseteq Pairs /\ rows \subseteq Pairs /\ positions \subseteq Pairs
    /\ failures \in Nat
----------------------------------------------------------------------------
(* A free goroutine is one. *)
LEMMA FreeTyped == Free \in Goroutine /\ Free.pc = "free" /\ ~Free.open
BY WorkersAssumption DEF Free, Goroutine, Places

(* Nobody is number None. *)
LEMMA SomeId == \A i \in Ids : i # None
BY WorkersAssumption DEF Ids, None

(* A goroutine with an open engine moves within its loop. *)
LEMMA MovedMap ==
    ASSUME NEW s, NEW h, MapIn(s, h), NEW i \in Ids, NEW r \in Goroutine,
           r.pair = h[i].pair, r.open = h[i].open, r.pc \in Cycle => r.open \/ "panic" \in Faults,
           r.pc \in Running, h[i].pc \in Running
    PROVE  MapIn(s, [h EXCEPT ![i] = r])
<1> DEFINE k == [h EXCEPT ![i] = r]
<1>1. k \in [Ids -> Goroutine] /\ k[i] = r /\ \A j \in Ids : j # i => k[j] = h[j]
  BY DEF MapIn
<1> HIDE DEF k
<1>2. ASSUME NEW p \in Pairs, s[p] # None PROVE k[s[p]].pair = p /\ k[s[p]].pc \in Running
  BY <1>1, <1>2 DEF MapIn
<1>3. ASSUME NEW j \in Ids, k[j].open PROVE s[k[j].pair] = j
  BY <1>1, <1>3 DEF MapIn
<1>4. "panic" \in Faults \/ \A j \in Ids : k[j].pc \in Cycle => k[j].open
  BY <1>1 DEF MapIn
<1>5. MapIn(s, k)
  BY <1>1, <1>2, <1>3, <1>4 DEF MapIn
<1>6. QED
  BY <1>5 DEF k

(* A goroutine nobody knows starts or ends. *)
LEMMA UnknownMap ==
    ASSUME NEW s, NEW h, MapIn(s, h), NEW i \in Ids, NEW r \in Goroutine,
           ~r.open, r.pc \notin Cycle, \A p \in Pairs : s[p] # i
    PROVE  MapIn(s, [h EXCEPT ![i] = r])
<1> DEFINE k == [h EXCEPT ![i] = r]
<1>1. k \in [Ids -> Goroutine] /\ k[i] = r /\ \A j \in Ids : j # i => k[j] = h[j]
  BY DEF MapIn
<1> HIDE DEF k
<1>2. ASSUME NEW p \in Pairs, s[p] # None PROVE k[s[p]].pair = p /\ k[s[p]].pc \in Running
  BY <1>1, <1>2 DEF MapIn
<1>3. ASSUME NEW j \in Ids, k[j].open PROVE s[k[j].pair] = j
  BY <1>1, <1>3 DEF MapIn
<1>4. "panic" \in Faults \/ \A j \in Ids : k[j].pc \in Cycle => k[j].open
  BY <1>1 DEF MapIn
<1>5. MapIn(s, k)
  BY <1>1, <1>2, <1>3, <1>4 DEF MapIn
<1>6. QED
  BY <1>5 DEF k

(* A goroutine enters the map under a name that is free. *)
LEMMA EnteredMap ==
    ASSUME NEW s, NEW h, MapIn(s, h), NEW i \in Ids, NEW r \in Goroutine,
           r.pair = h[i].pair, r.pc = "loop", r.open, s[r.pair] = None
    PROVE  MapIn([s EXCEPT ![r.pair] = i], [h EXCEPT ![i] = r])
<1> DEFINE k == [h EXCEPT ![i] = r]
           t == [s EXCEPT ![r.pair] = i]
<1>1. k \in [Ids -> Goroutine] /\ k[i] = r /\ \A j \in Ids : j # i => k[j] = h[j]
  BY DEF MapIn
<1>2. r.pair \in Pairs
  BY DEF Goroutine
<1>3. t \in [Pairs -> Ids \cup {None}] /\ t[r.pair] = i /\ \A p \in Pairs : p # r.pair => t[p] = s[p]
  BY <1>2 DEF MapIn
<1> HIDE DEF k, t
<1>4. ASSUME NEW p \in Pairs, t[p] # None PROVE k[t[p]].pair = p /\ k[t[p]].pc \in Running
  <2>1. CASE p = r.pair
    BY <1>1, <1>3, <2>1 DEF Running
  <2>2. CASE p # r.pair
    <3>1. t[p] = s[p] /\ s[p] \in Ids /\ h[s[p]].pair = p
      BY <1>3, <1>4, <2>2 DEF MapIn
    <3>2. s[p] # i
      BY <3>1, <2>2
    <3>3. QED
      BY <1>1, <1>4, <3>1, <3>2 DEF MapIn
  <2>3. QED
    BY <2>1, <2>2
<1>5. ASSUME NEW j \in Ids, k[j].open PROVE t[k[j].pair] = j
  <2>1. CASE j = i
    BY <1>1, <1>3, <2>1
  <2>2. CASE j # i
    <3>1. k[j] = h[j] /\ s[h[j].pair] = j /\ h[j].pair \in Pairs
      BY <1>1, <1>5, <2>2 DEF MapIn, Goroutine
    <3>2. h[j].pair # r.pair
      BY <3>1, SomeId
    <3>3. QED
      BY <1>3, <3>1, <3>2
  <2>3. QED
    BY <2>1, <2>2
<1>6. "panic" \in Faults \/ \A j \in Ids : k[j].pc \in Cycle => k[j].open
  BY <1>1 DEF MapIn
<1>7. MapIn(t, k)
  BY <1>1, <1>3, <1>4, <1>5, <1>6 DEF MapIn
<1>8. QED
  BY <1>7 DEF k, t

(* Goroutine i, which ends or goes on with its loop, stops whoever is       *)
(* registered under its pair's name.                                        *)
LEMMA StoppedMap ==
    ASSUME MapIn(signals, g), NEW i \in Ids, NEW end \in BOOLEAN, Stop(i, end), g[i].pc # "free",
           "panic" \in Faults \/ signals[g[i].pair] = i
    PROVE  MapIn(signals', g')
<1> DEFINE p == g[i].pair
           c == Closed(p)
           r == IF end THEN Free ELSE [c[i] EXCEPT !.pc = "loop"]
<1>1. g \in [Ids -> Goroutine] /\ g[i] \in Goroutine /\ p \in Pairs
  BY DEF MapIn, Goroutine
<1>2. /\ c \in [Ids -> Goroutine]
      /\ \A j \in Ids : c[j].pair = g[j].pair /\ c[j].pc = g[j].pc
      /\ \A j \in Ids : c[j].open <=> g[j].open /\ j # signals[p]
  <2>1. CASE signals[p] = None
    <3>1. c = g /\ \A j \in Ids : j # signals[p]
      BY <2>1, SomeId DEF Closed
    <3> HIDE DEF c, p
    <3>2. QED
      BY <1>1, <3>1
  <2>2. CASE signals[p] # None
    <3> DEFINE v == signals[p]
               u == [g[v] EXCEPT !.open = FALSE]
    <3>1. v \in Ids
      BY <1>1, <2>2 DEF MapIn
    <3>2. u \in Goroutine /\ u.pair = g[v].pair /\ u.pc = g[v].pc /\ ~u.open
      BY <1>1, <3>1 DEF Goroutine
    <3>3. c = [g EXCEPT ![v] = u]
      BY <1>1, <2>2, <3>1 DEF Closed
    <3> HIDE DEF c, u, v, p
    <3>4. c \in [Ids -> Goroutine] /\ c[v] = u /\ \A j \in Ids : j # v => c[j] = g[j]
      BY <1>1, <3>1, <3>2, <3>3
    <3>5. /\ \A j \in Ids : c[j].pair = g[j].pair /\ c[j].pc = g[j].pc
          /\ \A j \in Ids : c[j].open <=> g[j].open /\ j # v
      BY <3>2, <3>4
    <3>6. QED
      BY <3>4, <3>5 DEF v
  <2>3. QED
    BY <2>1, <2>2
<1>3. g[i].open => signals[p] = i
  BY DEF MapIn
<1>4. ~c[i].open
  BY <1>2, <1>3
<1>5. r \in Goroutine /\ ~r.open /\ r.pc \notin Cycle
  <2>1. c[i] \in Goroutine
    BY <1>2
  <2> HIDE DEF c, p
  <2>2. QED
    BY <1>4, <2>1, FreeTyped DEF Goroutine, Places, Cycle
<1>6. g' = [c EXCEPT ![i] = r]
  BY <1>2 DEF Stop
<1> HIDE DEF c, r
<1>7. g' \in [Ids -> Goroutine] /\ g'[i] = r /\ \A j \in Ids : j # i => g'[j] = c[j]
  BY <1>2, <1>5, <1>6
<1>8. /\ signals' \in [Pairs -> Ids \cup {None}] /\ signals'[p] = None
      /\ \A q \in Pairs : q # p => signals'[q] = signals[q]
  BY <1>1 DEF Stop, MapIn
<1> HIDE DEF p
<1>9. ASSUME NEW q \in Pairs, signals'[q] # None PROVE g'[signals'[q]].pair = q /\ g'[signals'[q]].pc \in Running
  <2>1. q # p /\ signals'[q] = signals[q]
    BY <1>8, <1>9
  <2>2. signals[q] \in Ids /\ g[signals[q]].pair = q /\ g[signals[q]].pc \in Running
    BY <1>9, <2>1 DEF MapIn
  <2>3. signals[q] # i
    BY <2>1, <2>2 DEF p
  <2>4. QED
    BY <1>2, <1>7, <2>1, <2>2, <2>3
<1>10. ASSUME NEW j \in Ids, g'[j].open PROVE signals'[g'[j].pair] = j
  <2>1. j # i /\ g'[j] = c[j]
    BY <1>5, <1>7, <1>10
  <2>2. g[j].open /\ j # signals[p] /\ c[j].pair = g[j].pair /\ g[j].pair \in Pairs
    BY <1>1, <1>2, <1>10, <2>1 DEF Goroutine
  <2>3. signals[g[j].pair] = j
    BY <2>2 DEF MapIn
  <2>4. g[j].pair # p
    BY <2>2, <2>3
  <2>5. QED
    BY <1>8, <2>1, <2>2, <2>3, <2>4
<1>11. "panic" \in Faults \/ \A j \in Ids : g'[j].pc \in Cycle => g'[j].open
  <2>1. ASSUME "panic" \notin Faults, NEW j \in Ids, g'[j].pc \in Cycle PROVE g'[j].open
    <3>1. j # i /\ g'[j] = c[j]
      BY <1>5, <1>7, <2>1
    <3>2. g[j].open
      BY <1>2, <2>1, <3>1 DEF MapIn
    <3>3. signals[p] = i
      BY <2>1 DEF p
    <3>4. QED
      BY <1>2, <3>1, <3>2, <3>3
  <2>2. QED
    BY <2>1
<1>12. QED
  BY <1>7, <1>8, <1>9, <1>10, <1>11 DEF MapIn
----------------------------------------------------------------------------
(* The map is empty and no engine open at the start. *)
LEMMA Initially == Init => IInv
BY FreeTyped DEF Init, IInv, MapIn, ReadIn, Statuses, Ids, None, Cycle

(* What the pairs share. *)
Shared ==
    /\ status \in [Pairs -> Statuses] /\ usable \subseteq Pairs
    /\ buys \subseteq Pairs /\ rows \subseteq Pairs /\ positions \subseteq Pairs
    /\ failures \in Nat

(* The management API. *)
LEMMA ManageKept == ASSUME IInv, Manage PROVE IInv'
<1>1. status' \in [Pairs -> Statuses] /\ usable' \subseteq Pairs
  BY DEF IInv, Manage, Statuses
<1>2. QED
  BY <1>1 DEF IInv, Manage, registry, holdings

(* The list holds pairs, with what was read of them. *)
LEMMA LoadStrategiesKept == ASSUME IInv, LoadStrategies PROVE IInv'
<1>1. ReadIn(listed')
  BY DEF IInv, LoadStrategies, ReadIn
<1>2. QED
  BY <1>1 DEF IInv, LoadStrategies, holdings

(* A goroutine that is started is not in the map; one that is updated stays *)
(* where it is.                                                             *)
LEMMA OrchestrateKept == ASSUME IInv, NEW p \in Pairs, Orchestrate(p) PROVE IInv'
<1>1. ReadIn(listed') /\ listed[p] \in [usable : BOOLEAN, term : BOOLEAN]
  BY DEF IInv, Orchestrate, ReadIn
<1>2. MapIn(signals, g')
  <2>1. CASE signals[p] # None /\ g' = [g EXCEPT ![signals[p]] = Updated(signals[p], listed[p])]
    <3> DEFINE i == signals[p]
    <3>1. /\ i \in Ids /\ g[i] \in Goroutine /\ g[i].pc \in Running
          /\ g[i].pc \in Cycle => g[i].open \/ "panic" \in Faults
      BY <2>1 DEF IInv, MapIn
    <3>2. /\ Updated(i, listed[p]) \in Goroutine
          /\ Updated(i, listed[p]).pair = g[i].pair /\ Updated(i, listed[p]).open = g[i].open
          /\ Updated(i, listed[p]).pc = g[i].pc
      BY <1>1, <3>1 DEF Updated, Goroutine
    <3> HIDE DEF i
    <3>3. MapIn(signals, [g EXCEPT ![i] = Updated(i, listed[p])])
      BY <3>1, <3>2, MovedMap DEF IInv
    <3>4. QED
      BY <2>1, <3>3 DEF i
  <2>2. ASSUME NEW i \in Ids, g[i].pc = "free",
               g' = [g EXCEPT ![i] = [pc |-> "init", pair |-> p, usable |-> listed[p].usable,
                                      term |-> listed[p].term, open |-> FALSE]]
        PROVE  MapIn(signals, g')
    <3> DEFINE r == [pc |-> "init", pair |-> p, usable |-> listed[p].usable,
                     term |-> listed[p].term, open |-> FALSE]
    <3>1. r \in Goroutine /\ ~r.open /\ r.pc \notin Cycle
      BY <1>1 DEF Goroutine, Places, Cycle
    <3>2. \A q \in Pairs : signals[q] # i
      BY <2>2, SomeId DEF IInv, MapIn, Running, Cycle
    <3> HIDE DEF r
    <3>3. MapIn(signals, [g EXCEPT ![i] = r])
      BY <3>1, <3>2, UnknownMap DEF IInv
    <3>4. QED
      BY <2>2, <3>3 DEF r
  <2>3. CASE UNCHANGED g
    BY <2>3 DEF IInv
  <2>4. \/ signals[p] # None /\ g' = [g EXCEPT ![signals[p]] = Updated(signals[p], listed[p])]
        \/ \E i \in Ids : /\ g[i].pc = "free"
                          /\ g' = [g EXCEPT ![i] = [pc |-> "init", pair |-> p, usable |-> listed[p].usable,
                                                    term |-> listed[p].term, open |-> FALSE]]
        \/ UNCHANGED g
    BY DEF Orchestrate
  <2>5. QED
    BY <2>1, <2>2, <2>3, <2>4
<1>3. QED
  BY <1>1, <1>2 DEF IInv, Orchestrate, holdings

(* Only a free name is entered; who is refused ends, and nobody knew it. *)
LEMMA RegisterKept == ASSUME IInv, NEW i \in Ids, Register(i) PROVE IInv'
<1>1. g \in [Ids -> Goroutine] /\ g[i] \in Goroutine
  BY DEF IInv, MapIn
<1>2. MapIn(signals', g')
  <2>1. CASE /\ signals[g[i].pair] = None
             /\ signals' = [signals EXCEPT ![g[i].pair] = i]
             /\ g' = [g EXCEPT ![i].pc = "loop", ![i].usable = FALSE, ![i].open = TRUE]
    <3> DEFINE r == [g[i] EXCEPT !.pc = "loop", !.usable = FALSE, !.open = TRUE]
    <3>1. r \in Goroutine /\ r.pair = g[i].pair /\ r.pc = "loop" /\ r.open
      BY <1>1 DEF Goroutine, Places
    <3>2. g' = [g EXCEPT ![i] = r]
      BY <1>1, <2>1
    <3> HIDE DEF r
    <3>3. MapIn([signals EXCEPT ![r.pair] = i], [g EXCEPT ![i] = r])
      BY <2>1, <3>1, EnteredMap DEF IInv
    <3>4. QED
      BY <2>1, <3>1, <3>2, <3>3
  <2>2. CASE Ends(i) /\ UNCHANGED signals
    <3>1. \A q \in Pairs : signals[q] # i
      BY SomeId DEF IInv, MapIn, Running, Cycle, Register
    <3>2. QED
      BY <2>2, <3>1, FreeTyped, UnknownMap DEF Ends, IInv, Cycle
  <2>3. QED
    BY <2>1, <2>2 DEF Register
<1>3. failures' \in Nat
  BY DEF IInv, Register, Fails
<1>4. QED
  BY <1>2, <1>3 DEF IInv, Register, holdings

(* A worker in its loop, or in a cycle, goes somewhere else in it. *)
LEMMA AtKept ==
    ASSUME IInv, NEW i \in Ids, NEW pc \in Running, g[i].pc \in Running, At(i, pc),
           g[i].open \/ "panic" \in Faults \/ pc = "loop"
    PROVE  MapIn(signals, g')
<1> DEFINE r == [g[i] EXCEPT !.pc = pc]
<1>1. g \in [Ids -> Goroutine] /\ g[i] \in Goroutine
  BY DEF IInv, MapIn
<1>2. /\ r \in Goroutine /\ r.pair = g[i].pair /\ r.open = g[i].open /\ r.pc = pc
      /\ pc \in Cycle => r.open \/ "panic" \in Faults
  BY <1>1 DEF Goroutine, Places, Running, Cycle
<1>3. g' = [g EXCEPT ![i] = r]
  BY <1>1 DEF At
<1> HIDE DEF r
<1>4. QED
  BY <1>2, <1>3, MovedMap DEF IInv

(* A goroutine that finds its name gone ends: whoever was registered under  *)
(* it, it was not this one.                                                 *)
LEMMA TickKept == ASSUME IInv, NEW i \in Ids, Tick(i) PROVE IInv'
<1>1. g \in [Ids -> Goroutine] /\ g[i] \in Goroutine /\ g[i].pc = "loop" /\ g[i].pc \in Running
  BY DEF IInv, MapIn, Tick, Running
<1>2. CASE signals[g[i].pair] = None /\ Ends(i)
  <2>1. \A q \in Pairs : signals[q] # i
    BY <1>1, <1>2, SomeId DEF IInv, MapIn, Goroutine
  <2>2. MapIn(signals, g')
    BY <1>2, <2>1, FreeTyped, UnknownMap DEF Ends, IInv, Cycle
  <2>3. QED
    BY <2>2 DEF IInv, Tick, holdings
<1>3. ASSUME g[i].open, NEW pc \in {"retire", "check", "delete"}, At(i, pc) PROVE IInv'
  <2>1. MapIn(signals, g')
    BY <1>1, <1>3, AtKept DEF Running, Cycle
  <2>2. QED
    BY <2>1 DEF IInv, Tick, holdings
<1>4. QED
  BY <1>2, <1>3 DEF Tick

(* In a cycle, unless something has panicked, a worker is the one that is   *)
(* registered.                                                              *)
LEMMA InCycle ==
    ASSUME IInv, NEW i \in Ids, g[i].pc \in Cycle
    PROVE  /\ g \in [Ids -> Goroutine] /\ g[i] \in Goroutine /\ g[i].pair \in Pairs /\ g[i].pc \in Running
           /\ "panic" \in Faults \/ (g[i].open /\ signals[g[i].pair] = i)
BY DEF IInv, MapIn, Goroutine, Running

(* The steps of a cycle that change no more than the place and what the     *)
(* pairs share.                                                             *)
LEMMA StepKept ==
    ASSUME IInv, NEW i \in Ids, g[i].pc \in Cycle, NEW pc \in Running, At(i, pc), UNCHANGED <<signals, listed>>,
           Shared'
    PROVE  IInv'
<1>1. MapIn(signals, g')
  BY InCycle, AtKept
<1>2. QED
  BY <1>1 DEF IInv, Shared

(* The first half of the termination check. *)
LEMMA CheckTerminationKept == ASSUME IInv, NEW i \in Ids, CheckTermination(i) PROVE IInv'
<1>1. g[i].pc \in Cycle /\ UNCHANGED <<signals, listed>> /\ Shared'
  BY DEF CheckTermination, Cycle, Shared, IInv, holdings, Fails
<1>2. PICK pc \in Running : At(i, pc)
  BY DEF CheckTermination, Running, Cycle
<1>3. QED
  BY <1>1, <1>2, StepKept

(* The second half closes the worker itself, unless something has panicked. *)
LEMMA ApplyDisableKept == ASSUME IInv, NEW i \in Ids, ApplyDisable(i) PROVE IInv'
<1>1. g[i].pc \in Cycle /\ g[i].pc # "free"
  BY DEF ApplyDisable, Cycle
<1>2. g[i].pair \in Pairs /\ ("panic" \in Faults \/ signals[g[i].pair] = i)
  BY <1>1, InCycle
<1>3. CASE /\ status' = [status EXCEPT ![g[i].pair] = IF @ = "pending_disabled" THEN "disabled" ELSE @]
           /\ Stop(i, FALSE) /\ UNCHANGED failures
  <2>1. MapIn(signals', g')
    BY <1>1, <1>2, <1>3, StoppedMap DEF IInv
  <2>2. status' \in [Pairs -> Statuses]
    BY <1>2, <1>3 DEF IInv, Statuses
  <2>3. QED
    BY <1>3, <2>1, <2>2 DEF IInv, ApplyDisable, holdings
<1>4. CASE Fails("db") /\ At(i, "loop") /\ UNCHANGED <<status, signals>>
  <2>1. UNCHANGED <<signals, listed>> /\ Shared'
    BY <1>4 DEF ApplyDisable, Shared, IInv, holdings, Fails
  <2>2. QED
    BY <1>1, <1>4, <2>1, StepKept DEF Running
<1>5. QED
  BY <1>3, <1>4 DEF ApplyDisable

(* A goroutine that panics ends, and takes its pair's worker from the map.  *)
LEMMA PanicKept == ASSUME IInv, NEW i \in Ids, Panic(i) PROVE IInv'
<1>1. MapIn(signals', g')
  BY StoppedMap DEF Panic, IInv, Fails
<1>2. QED
  BY <1>1 DEF IInv, Panic, Fails, holdings

(* The steps of a cycle that trade. *)
LEMMA TradeKept ==
    ASSUME IInv, NEW i \in Ids, CheckEntry(i) \/ PlaceBuy(i) \/ CreatePosition(i) \/ DeletePosition(i)
    PROVE  IInv'
<1>1. g[i].pc \in Cycle /\ UNCHANGED <<signals, listed>>
  BY DEF CheckEntry, PlaceBuy, CreatePosition, DeletePosition, Cycle
<1>2. Shared'
  <2>1. g[i].pair \in Pairs
    BY <1>1, InCycle
  <2>2. QED
    BY <2>1 DEF CheckEntry, PlaceBuy, CreatePosition, DeletePosition, Created, Deleted, Shared, IInv,
                holdings, Fails
<1>3. PICK pc \in Running : At(i, pc)
  BY DEF CheckEntry, PlaceBuy, CreatePosition, DeletePosition, Running, Cycle
<1>4. QED
  BY <1>1, <1>2, <1>3, StepKept

(* The tasks touch what the pairs share alone. *)
LEMMA TasksKept ==
    ASSUME IInv, LoadState \/ \E p \in Pairs : SyncOrder(p) \/ SyncPosition(p)
    PROVE  IInv'
BY DEF IInv, LoadState, SyncOrder, SyncPosition, Created, Deleted, registry, Fails

(* Every step keeps the invariant. *)
LEMMA NextKept == IInv /\ [Next]_vars => IInv'
<1> SUFFICES ASSUME IInv, [Next]_vars PROVE IInv'
  OBVIOUS
<1>1. CASE UNCHANGED vars
  BY <1>1 DEF IInv, vars
<1>2. CASE Next
  <2>1. ASSUME NEW i \in Ids, Worker(i) \/ Panic(i) PROVE IInv'
    BY <2>1, RegisterKept, TickKept, CheckTerminationKept, ApplyDisableKept, TradeKept, PanicKept DEF Worker
  <2>2. QED
    BY <1>2, <2>1, ManageKept, LoadStrategiesKept, OrchestrateKept, TasksKept DEF Next, Refresh
<1>3. QED
  BY <1>1, <1>2

(* The invariant holds of every behaviour. *)
THEOREM Registered == Spec => []IInv
<1>1. QED
  BY Initially, NextKept, PTL DEF Spec
----------------------------------------------------------------------------
(* Type correctness; the map holds living goroutines of its own pairs       *)
(* (orchestrator.go).                                                       *)
THEOREM WorkersTyped == Spec => []TypeOK
<1>1. IInv => TypeOK
  BY DEF IInv, MapIn, ReadIn, TypeOK, Running
<1>2. QED
  BY <1>1, Registered, PTL

(* One worker trades a pair, however many goroutines are started for it or  *)
(* stopped, as long as none panics (orchestrator.go:252,                    *)
(* signal_handler.go:87-93).                                                *)
THEOREM PairsTradedOnce == ASSUME "panic" \notin Faults PROVE Spec => []OneTrader
<1>1. IInv => OneTrader
  BY DEF IInv, MapIn, OneTrader
<1>2. QED
  BY <1>1, Registered, PTL

(* Whatever panics, the engine that takes a pair's prices is the registered *)
(* one (orchestrator.go:205, 252, 287).                                     *)
THEOREM EnginesUnique == Spec => []OneEngine
<1>1. IInv => OneEngine
  BY DEF IInv, MapIn, OneEngine
<1>2. QED
  BY <1>1, Registered, PTL

(* Unless the answer of a statement is lost, the count the risk manager     *)
(* sees is the number of positions in the table: every writer changes both  *)
(* under the portfolio's lock (position.go).                                *)
CountExact == "lost" \in Faults \/ positions = rows

THEOREM CountsExact == Spec => []CountExact
<1>1. Init => CountExact
  BY DEF Init, CountExact
<1>2. CountExact /\ [Next]_vars => CountExact'
  <2> SUFFICES ASSUME CountExact, [Next]_vars PROVE CountExact'
    OBVIOUS
  <2>1. CASE UNCHANGED <<rows, positions>>
    BY <2>1 DEF CountExact
  <2>2. ASSUME NEW p, Created(p) \/ Deleted(p) PROVE CountExact'
    BY <2>2 DEF CountExact, Created, Deleted, Fails
  <2>3. CASE LoadState
    BY <2>3 DEF LoadState, CountExact
  <2>4. ASSUME NEW i \in Ids, Worker(i) \/ Panic(i) PROVE CountExact'
    <3>1. CASE CreatePosition(i) \/ DeletePosition(i)
      BY <2>1, <2>2, <3>1 DEF CreatePosition, DeletePosition
    <3>2. QED
      BY <2>1, <2>4, <3>1 DEF Worker, Panic, Register, Tick, CheckTermination, ApplyDisable, CheckEntry,
                              PlaceBuy, holdings
  <2>5. ASSUME NEW p \in Pairs, SyncOrder(p) \/ SyncPosition(p) PROVE CountExact'
    BY <2>1, <2>2, <2>5 DEF SyncOrder, SyncPosition
  <2>6. CASE Manage \/ Refresh
    BY <2>1, <2>6 DEF Manage, Refresh, LoadStrategies, Orchestrate, holdings
  <2>7. QED
    BY <2>1, <2>3, <2>4, <2>5, <2>6 DEF Next, vars
<1>3. QED
  BY <1>1, <1>2, PTL DEF Spec
=============================================================================
