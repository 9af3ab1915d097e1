---------------------------- MODULE EngineProofs ----------------------------
(***************************************************************************)
(* Theorems of the strategy engine, for any price points, configurations   *)
(* and limits of the window.  EvictionInvisible compares two searches, in   *)
(* the entries and in all the points ever believed.  Its strengthening is   *)
(* that the entries are the end of these points (EndOf), that both are in    *)
(* the order of time (Sorted), and that whatever was dropped is older than  *)
(* the window and its tolerance (Outlived): what the search misses among    *)
(* the dropped points is stale for every lookback within the window.        *)
(***************************************************************************)
EXTENDS Engine, SequenceTheorems, WellFoundedInduction, TLAPS

(* Prices in the order of time. *)
Sorted(es) ==
    /\ es \in Seq(PricePoint)
    /\ \A i, j \in 1..Len(es) : i <= j => es[i].ts <= es[j].ts
    /\ \A i \in 1..Len(es) : es[i].price > 0

(* es is what is left of the points all, by dropping some at the front. *)
EndOf(es, all) ==
    /\ Len(es) <= Len(all)
    /\ es = <<>> => all = <<>>
    /\ \A k \in 1..Len(es) : es[k] = all[Len(all) - Len(es) + k]

(* The points dropped are older than win seconds and the tolerance. *)
Outlived(es, all, win) ==
    \A i \in 1..(Len(all) - Len(es)) : all[i].ts < Now(all) - win - Tolerance

(* The inductive invariant. *)
IInv ==
    /\ loading \in BOOLEAN /\ window \in Nat /\ cfg \in Configs /\ feed \in Nat
    /\ state \in StrategyState /\ entry \in Nat /\ high \in Nat
    /\ Sorted(entries) /\ Sorted(ticks)
    /\ EndOf(entries, ticks) /\ Outlived(entries, ticks, window)
    /\ loading => entries = ticks /\ state = "IDLE"
    /\ FeedFollowed
    /\ FreshPeak
----------------------------------------------------------------------------
LEMMA LessThan == \A a, b \in Nat : a < b => <<a, b>> \in OpToRel(<, Nat)
BY Z3 DEF OpToRel

(* A set of positions has a least one. *)
LEMMA Least == ASSUME NEW S \in SUBSET Nat, S # {} PROVE Min(S) \in S /\ \A y \in S : Min(S) <= y
<1>1. PICK x \in S : \A y \in S : ~(<<y, x>> \in OpToRel(<, Nat))
  BY NatLessThanWellFounded, WFMin
<1>2. ASSUME NEW y \in S PROVE x <= y
  <2>1. x \in Nat /\ y \in Nat
    OBVIOUS
  <2>2. ~(y < x)
    BY <1>1, <2>1, LessThan
  <2>3. QED
    BY <2>1, <2>2
<1>3. QED
  BY <1>2 DEF Min

(* A sorted window knows the newest timestamp. *)
LEMMA NowIs ==
    ASSUME NEW es, Sorted(es)
    PROVE  /\ Now(es) \in Nat
           /\ es # <<>> => Len(es) \in Nat \ {0} /\ Newest(es) \in PricePoint /\ Now(es) = es[Len(es)].ts
           /\ \A i \in 1..Len(es) : es[i] \in PricePoint /\ es[i].ts \in Nat /\ es[i].ts <= Now(es)
<1>1. CASE es = <<>>
  BY <1>1, EmptySeq DEF Now
<1>2. CASE es # <<>>
  <2>1. es \in Seq(PricePoint) /\ Len(es) \in Nat \ {0}
    BY <1>2, EmptySeq DEF Sorted
  <2>2. \A i \in 1..Len(es) : es[i] \in PricePoint
    BY <2>1
  <2>3. \A i \in 1..Len(es) : es[i].ts \in Nat
    BY <2>2 DEF PricePoint
  <2>4. Now(es) = es[Len(es)].ts /\ Newest(es) = es[Len(es)]
    BY <1>2 DEF Now, Newest
  <2>5. Len(es) \in 1..Len(es) /\ \A i \in 1..Len(es) : i <= Len(es)
    BY <2>1
  <2>6. \A i \in 1..Len(es) : es[i].ts <= es[Len(es)].ts
    BY <2>5 DEF Sorted
  <2>7. QED
    BY <2>1, <2>2, <2>3, <2>4, <2>5, <2>6
<1>3. QED
  BY <1>1, <1>2

(* A point that is admitted keeps a sorted window sorted. *)
LEMMA AppendSorted ==
    ASSUME NEW es, Sorted(es), NEW p \in PricePoint, p.ts >= Now(es), p.price > 0
    PROVE  Sorted(Append(es, p)) /\ Now(Append(es, p)) = p.ts
<1>1. es \in Seq(PricePoint) /\ Len(es) \in Nat
  BY DEF Sorted
<1>2. Append(es, p) \in Seq(PricePoint) /\ Len(Append(es, p)) = Len(es) + 1
  BY <1>1
<1>3. /\ \A i \in 1..Len(es) : Append(es, p)[i] = es[i]
      /\ Append(es, p)[Len(es) + 1] = p
  BY <1>1
<1>4. \A i \in 1..Len(es) : es[i].ts <= p.ts /\ es[i].ts \in Nat /\ p.ts \in Nat
  BY NowIs DEF PricePoint
<1>5. ASSUME NEW i \in 1..Len(es) + 1, NEW j \in 1..Len(es) + 1, i <= j
      PROVE  Append(es, p)[i].ts <= Append(es, p)[j].ts
  <2>1. CASE j = Len(es) + 1 /\ i = j
    BY <2>1, <1>1, <1>3, <1>4 DEF PricePoint
  <2>2. CASE j = Len(es) + 1 /\ i # j
    <3>1. i \in 1..Len(es)
      BY <1>5, <2>2, <1>1
    <3>2. QED
      BY <3>1, <2>2, <1>3, <1>4
  <2>3. CASE j # Len(es) + 1
    <3>1. i \in 1..Len(es) /\ j \in 1..Len(es)
      BY <1>5, <2>3, <1>1
    <3>2. QED
      BY <3>1, <1>5, <1>3 DEF Sorted
  <2>4. QED
    BY <2>1, <2>2, <2>3
<1>6. ASSUME NEW i \in 1..Len(es) + 1 PROVE Append(es, p)[i].price > 0
  <2>1. CASE i = Len(es) + 1
    BY <2>1, <1>3
  <2>2. CASE i # Len(es) + 1
    <3>1. i \in 1..Len(es)
      BY <2>2, <1>1
    <3>2. QED
      BY <3>1, <1>3 DEF Sorted
  <2>3. QED
    BY <2>1, <2>2
<1>7. Sorted(Append(es, p))
  BY <1>2, <1>5, <1>6 DEF Sorted
<1>8. Append(es, p) # <<>>
  BY <1>1, <1>2, EmptySeq
<1>9. QED
  BY <1>1, <1>2, <1>3, <1>7, <1>8, NowIs

(* What UpdatePrice keeps: the end of the entries with the new point, and   *)
(* only points that the cutoff has overtaken are dropped.                   *)
LEMMA AcceptedIs ==
    ASSUME NEW es, Sorted(es), NEW p \in PricePoint, p.ts >= Now(es), p.price > 0, NEW win \in Nat
    PROVE  LET new == Accepted(es, p, win)
               all == Append(es, p)
           IN  Sorted(new) /\ new # <<>> /\ EndOf(new, all) /\ Outlived(new, all, win) /\ Now(new) = p.ts
<1> DEFINE all  == Append(es, p)
           cut  == p.ts - win - Tolerance
           kept == {k \in DOMAIN all : k = Len(all) \/ all[k].ts >= cut}
           m    == Min(kept)
           new  == SubSeq(all, m, Len(all))
<1>1. Sorted(all) /\ Now(all) = p.ts /\ all \in Seq(PricePoint) /\ Len(all) \in Nat \ {0}
      /\ DOMAIN all = 1..Len(all)
  <2>1. Sorted(all) /\ Now(all) = p.ts
    BY AppendSorted
  <2>2. es \in Seq(PricePoint) /\ all \in Seq(PricePoint)
    BY <2>1 DEF Sorted
  <2>3. Len(all) = Len(es) + 1 /\ Len(es) \in Nat
    BY <2>2, AppendProperties, LenProperties
  <2>4. DOMAIN all = 1..Len(all)
    BY <2>2, LenProperties
  <2>5. QED
    BY <2>1, <2>2, <2>3, <2>4
<1>2. m \in 1..Len(all) /\ \A k \in kept : m <= k
  <2>1. Len(all) \in kept /\ kept \in SUBSET Nat
    BY <1>1
  <2>2. m \in kept /\ \A k \in kept : m <= k
    BY <2>1, Least
  <2>3. QED
    BY <2>2, <1>1
<1> HIDE DEF all, m
<1>3. new \in Seq(PricePoint) /\ Len(new) = Len(all) - m + 1
      /\ \A k \in 1..Len(new) : new[k] = all[m + k - 1]
  BY <1>1, <1>2
<1>4. Len(new) \in Nat \ {0} /\ new # <<>> /\ Len(all) - Len(new) = m - 1
  BY <1>1, <1>2, <1>3
<1>5. \A k \in 1..Len(new) : m + k - 1 \in 1..Len(all)
  BY <1>1, <1>2, <1>3
<1> HIDE DEF new
<1>6. Sorted(new)
  <2>1. ASSUME NEW i \in 1..Len(new), NEW j \in 1..Len(new), i <= j PROVE new[i].ts <= new[j].ts
    <3>1. m + i - 1 <= m + j - 1
      BY <2>1, <1>2, <1>4
    <3>2. QED
      BY <3>1, <1>1, <1>3, <1>5 DEF Sorted
  <2>2. ASSUME NEW i \in 1..Len(new) PROVE new[i].price > 0
    BY <1>1, <1>3, <1>5 DEF Sorted
  <2>3. QED
    BY <1>3, <2>1, <2>2 DEF Sorted
<1>7. EndOf(new, all)
  <2>1. \A k \in 1..Len(new) : Len(all) - Len(new) + k = m + k - 1
    BY <1>1, <1>2, <1>4, SMTT(30)
  <2>2. QED
    BY <2>1, <1>1, <1>2, <1>3, <1>4 DEF EndOf
<1>8. Outlived(new, all, win)
  <2>1. ASSUME NEW i \in 1..(Len(all) - Len(new)) PROVE all[i].ts < cut
    <3>1. i \in 1..(m - 1) /\ m \in 1..Len(all) /\ Len(all) \in Nat
      BY <2>1, <1>1, <1>2, <1>4
    <3>2. i \in 1..Len(all) /\ i < m /\ i # Len(all)
      BY <3>1
    <3>3. i \notin kept
      <4>1. ~(m <= i)
        BY <3>1
      <4>2. QED
        BY <1>2, <4>1
    <3>4. ~(all[i].ts >= cut)
      BY <3>2, <3>3, <1>1
    <3>5. all[i].ts \in Nat /\ p.ts \in Nat
      BY <3>2, <1>1, NowIs DEF PricePoint
    <3>6. QED
      BY <3>4, <3>5, WindowAssumption
  <2>2. QED
    BY <2>1, <1>1 DEF Outlived
<1>9. Now(new) = p.ts
  <2>1. new[Len(new)] = all[Len(all)]
    BY <1>1, <1>2, <1>3, <1>4
  <2>2. Now(new) = new[Len(new)].ts
    BY <1>4 DEF Now, Newest
  <2>3. Now(all) = all[Len(all)].ts
    BY <1>1, NowIs DEF all
  <2>4. QED
    BY <2>1, <2>2, <2>3, <1>1
<1>10. QED
  BY <1>4, <1>6, <1>7, <1>8, <1>9 DEF Accepted, new, m, all

(* The end of the points is a window of its own: it has the same newest     *)
(* point, and its k-th entry is the one Len(all) - Len(es) further on.      *)
LEMMA EndOfIs ==
    ASSUME NEW es, NEW all, Sorted(es), Sorted(all), EndOf(es, all)
    PROVE  /\ Len(es) \in Nat /\ Len(all) \in Nat /\ Len(es) <= Len(all)
           /\ es = <<>> <=> all = <<>>
           /\ Now(es) = Now(all)
           /\ es # <<>> => Newest(es) = Newest(all)
           /\ \A k \in 1..Len(es) : es[k] = all[Len(all) - Len(es) + k]
<1>1. Len(es) \in Nat /\ Len(all) \in Nat
  BY LenProperties DEF Sorted
<1>2. es = <<>> <=> all = <<>>
  <2>1. CASE es = <<>>
    BY <2>1 DEF EndOf
  <2>2. CASE es # <<>>
    <3>1. Len(es) # 0 /\ Len(all) # 0
      BY <2>2, <1>1, EmptySeq DEF Sorted, EndOf
    <3>2. QED
      BY <2>2, <3>1, EmptySeq
  <2>3. QED
    BY <2>1, <2>2
<1>3. ASSUME es # <<>> PROVE es[Len(es)] = all[Len(all)]
  <2>1. Len(es) \in 1..Len(es) /\ Len(all) - Len(es) + Len(es) = Len(all)
    BY <1>1, <1>3, EmptySeq DEF Sorted
  <2>2. QED
    BY <2>1 DEF EndOf
<1>4. QED
  BY <1>1, <1>2, <1>3 DEF EndOf, Now, Newest

(* The same point goes to the end of both. *)
LEMMA EndOfAppend ==
    ASSUME NEW es, NEW all, Sorted(es), Sorted(all), EndOf(es, all), NEW p \in PricePoint
    PROVE  EndOf(Append(es, p), Append(all, p))
<1>1. /\ es \in Seq(PricePoint) /\ all \in Seq(PricePoint)
      /\ Len(es) \in Nat /\ Len(all) \in Nat /\ Len(es) <= Len(all)
      /\ \A k \in 1..Len(es) : es[k] = all[Len(all) - Len(es) + k]
  BY EndOfIs DEF Sorted
<1>2. /\ Len(Append(es, p)) = Len(es) + 1 /\ Len(Append(all, p)) = Len(all) + 1
      /\ Append(es, p) # <<>>
      /\ \A k \in 1..Len(es) : Append(es, p)[k] = es[k]
      /\ \A k \in 1..Len(all) : Append(all, p)[k] = all[k]
      /\ Append(es, p)[Len(es) + 1] = p /\ Append(all, p)[Len(all) + 1] = p
  BY <1>1, AppendProperties
<1>3. ASSUME NEW k \in 1..Len(Append(es, p))
      PROVE  Append(es, p)[k] = Append(all, p)[Len(Append(all, p)) - Len(Append(es, p)) + k]
  <2>1. Len(Append(all, p)) - Len(Append(es, p)) + k = Len(all) - Len(es) + k
    BY <1>1, <1>2
  <2>. k \in 1..Len(es) + 1
    BY <1>2
  <2>2. CASE k = Len(es) + 1
    BY <2>1, <2>2, <1>1, <1>2
  <2>3. CASE k # Len(es) + 1
    <3>1. k \in 1..Len(es) /\ Len(all) - Len(es) + k \in 1..Len(all)
      BY <2>3, <1>1
    <3>2. QED
      BY <3>1, <2>1, <1>1, <1>2
  <2>4. QED
    BY <2>2, <2>3
<1>4. Len(Append(es, p)) <= Len(Append(all, p))
  BY <1>1, <1>2
<1>5. QED
  BY <1>2, <1>3, <1>4 DEF EndOf

(* The end of the end is an end. *)
LEMMA EndOfEnd ==
    ASSUME NEW es, NEW mid, NEW all, Sorted(es), Sorted(mid), Sorted(all),
           EndOf(es, mid), EndOf(mid, all)
    PROVE  EndOf(es, all)
<1>1. /\ Len(es) \in Nat /\ Len(mid) \in Nat /\ Len(all) \in Nat
      /\ Len(es) <= Len(mid) /\ Len(mid) <= Len(all)
      /\ es = <<>> => all = <<>>
      /\ \A k \in 1..Len(es) : es[k] = mid[Len(mid) - Len(es) + k]
      /\ \A k \in 1..Len(mid) : mid[k] = all[Len(all) - Len(mid) + k]
  BY EndOfIs
<1>2. ASSUME NEW k \in 1..Len(es) PROVE es[k] = all[Len(all) - Len(es) + k]
  <2>1. Len(mid) - Len(es) + k \in 1..Len(mid)
    BY <1>1
  <2>2. Len(all) - Len(mid) + (Len(mid) - Len(es) + k) = Len(all) - Len(es) + k
    BY <1>1
  <2>3. QED
    BY <2>1, <2>2, <1>1
<1>3. QED
  BY <1>1, <1>2 DEF EndOf

(* Believing one more point keeps the entries an end of all the points, and *)
(* everything dropped behind the cutoff.                                    *)
LEMMA AcceptedKept ==
    ASSUME NEW es, NEW all, NEW win \in Nat, NEW p \in PricePoint,
           Sorted(es), Sorted(all), EndOf(es, all), Outlived(es, all, win),
           p.ts >= Now(es), p.price > 0
    PROVE  LET new == Accepted(es, p, win)
           IN  /\ Sorted(new) /\ Sorted(Append(all, p))
               /\ EndOf(new, Append(all, p)) /\ Outlived(new, Append(all, p), win)
               /\ Now(new) = p.ts /\ new # <<>>
<1> DEFINE new == Accepted(es, p, win)
<1>1. /\ Len(es) \in Nat /\ Len(all) \in Nat /\ Len(es) <= Len(all) /\ Now(es) = Now(all)
      /\ es \in Seq(PricePoint) /\ all \in Seq(PricePoint) /\ Now(all) \in Nat /\ p.ts \in Nat
      /\ \A k \in 1..Len(all) : all[k].ts \in Nat
  BY EndOfIs, NowIs DEF Sorted, PricePoint
<1>2. Sorted(Append(es, p)) /\ Sorted(Append(all, p)) /\ Now(Append(es, p)) = p.ts /\ Now(Append(all, p)) = p.ts
  BY <1>1, AppendSorted
<1>3. Sorted(new) /\ new # <<>> /\ EndOf(new, Append(es, p)) /\ Outlived(new, Append(es, p), win) /\ Now(new) = p.ts
  BY AcceptedIs
<1> HIDE DEF new
<1>4. EndOf(Append(es, p), Append(all, p))
  BY EndOfAppend
<1>5. EndOf(new, Append(all, p))
  BY <1>2, <1>3, <1>4, EndOfEnd
<1>6. /\ Len(Append(es, p)) = Len(es) + 1 /\ Len(Append(all, p)) = Len(all) + 1
      /\ Len(new) \in Nat /\ Len(new) <= Len(es) + 1
      /\ \A k \in 1..Len(all) : Append(all, p)[k] = all[k]
      /\ \A k \in 1..Len(es) + 1 : Append(es, p)[k] = Append(all, p)[(Len(all) + 1) - (Len(es) + 1) + k]
  <2>1. /\ Len(Append(es, p)) = Len(es) + 1 /\ Len(Append(all, p)) = Len(all) + 1
        /\ \A k \in 1..Len(all) : Append(all, p)[k] = all[k]
    BY <1>1, AppendProperties
  <2>2. Len(new) \in Nat /\ Len(new) <= Len(Append(es, p))
    BY <1>2, <1>3, EndOfIs
  <2>3. \A k \in 1..Len(Append(es, p)) :
           Append(es, p)[k] = Append(all, p)[Len(Append(all, p)) - Len(Append(es, p)) + k]
    BY <1>2, <1>4, EndOfIs
  <2>4. QED
    BY <2>1, <2>2, <2>3
<1>7. ASSUME NEW i \in 1..(Len(all) + 1 - Len(new)) PROVE Append(all, p)[i].ts < p.ts - win - Tolerance
  <2>1. CASE i <= Len(all) - Len(es)
    <3>1. i \in 1..(Len(all) - Len(es)) /\ i \in 1..Len(all)
      BY <2>1, <1>1
    <3>2. all[i].ts < Now(all) - win - Tolerance /\ Append(all, p)[i] = all[i]
      BY <3>1, <1>6 DEF Outlived
    <3>3. all[i].ts \in Nat
      BY <3>1, <1>1
    <3>4. QED
      BY <3>2, <3>3, <1>1, WindowAssumption, SMTT(30)
  <2>2. CASE i > Len(all) - Len(es)
    <3> DEFINE j == i - (Len(all) - Len(es))
    <3>1. j \in 1..(Len(es) + 1 - Len(new)) /\ j \in 1..Len(es) + 1 /\ (Len(all) + 1) - (Len(es) + 1) + j = i
      BY <2>2, <1>1, <1>6
    <3> HIDE DEF j
    <3>2. Append(es, p)[j].ts < p.ts - win - Tolerance
      BY <3>1, <1>2, <1>3, <1>6 DEF Outlived
    <3>3. QED
      BY <3>1, <3>2, <1>6
  <2>3. QED
    BY <2>1, <2>2, <1>1, <1>6
<1>8. Outlived(new, Append(all, p), win)
  BY <1>2, <1>6, <1>7 DEF Outlived
<1>9. QED
  BY <1>2, <1>3, <1>5, <1>8 DEF new
----------------------------------------------------------------------------
(* The invariant is kept. *)

LEMMA InitIInv == Init => IInv
<1> SUFFICES ASSUME Init PROVE IInv
  OBVIOUS
<1>1. cfg \in Configs /\ cfg.window \in Nat
  BY EngineAssumption DEF Init, Config
<1>2. loading \in BOOLEAN /\ window \in Nat /\ feed \in Nat /\ state = "IDLE" /\ entry = 0 /\ high = 0
  BY <1>1 DEF Init
<1>3. entries = <<>> /\ ticks = <<>> /\ feed = 0
  BY DEF Init
<1>4. Sorted(<<>>) /\ EndOf(<<>>, <<>>) /\ Outlived(<<>>, <<>>, window)
  BY EmptySeq DEF Sorted, EndOf, Outlived
<1>5. QED
  BY <1>1, <1>2, <1>3, <1>4 DEF IInv, FeedFollowed, FreshPeak, StrategyState

(* A tick that is refused leaves the engine close behind its feed. *)
LEMMA RefusedFollowed ==
    ASSUME IInv, NEW p \in Points, ~Admits(entries, p), feed' = Offered(p), entries' = entries
    PROVE  feed' \in Nat /\ FeedFollowed'
<1>1. /\ p.ts \in Nat /\ p.price \in Nat /\ feed \in Nat /\ JumpGap \in Nat \ {0}
      /\ Now(entries) \in Nat /\ (entries # <<>> => Newest(entries).ts = Now(entries))
  <2>1. Sorted(entries) /\ feed \in Nat
    BY DEF IInv
  <2>2. Now(entries) \in Nat
    BY <2>1, NowIs
  <2>3. QED
    BY <2>1, <2>2, EngineAssumption, WindowAssumption DEF PricePoint, Now
<1>2. feed > 0 => feed - Now(entries) < JumpGap
  BY DEF IInv, FeedFollowed
<1>3. CASE p.price = 0
  BY <1>1, <1>2, <1>3 DEF Offered, FeedFollowed
<1>4. CASE p.ts < Now(entries)
  BY <1>1, <1>2, <1>4 DEF Offered, FeedFollowed
<1>5. CASE entries # <<>> /\ Jumps(Newest(entries), p)
  <2>1. p.ts - Now(entries) < JumpGap
    BY <1>1, <1>5 DEF Jumps
  <2>2. QED
    BY <2>1, <1>1, <1>2 DEF Offered, FeedFollowed
<1>6. QED
  BY <1>1, <1>3, <1>4, <1>5 DEF Admits

(* A tick that is believed brings the engine level with it. *)
LEMMA AdmittedFollowed ==
    ASSUME IInv, NEW p \in Points, Admits(entries, p), feed' = Offered(p), Now(entries') = p.ts
    PROVE  feed' \in Nat /\ FeedFollowed'
<1>1. p.ts \in Nat /\ feed \in Nat /\ JumpGap \in Nat \ {0} /\ Now(entries) \in Nat
  <2>1. Sorted(entries) /\ feed \in Nat
    BY DEF IInv
  <2>2. QED
    BY <2>1, NowIs, EngineAssumption, WindowAssumption DEF PricePoint
<1>2. (feed > 0 => feed - Now(entries) < JumpGap) /\ p.ts >= Now(entries)
  BY DEF IInv, FeedFollowed, Admits
<1>3. QED
  BY <1>1, <1>2 DEF Offered, FeedFollowed

LEMMA LoadPointKept == ASSUME IInv, NEW p \in Points, LoadPoint(p) PROVE IInv'
<1>1. p \in PricePoint /\ p.ts \in Nat /\ p.price \in Nat
  BY EngineAssumption DEF PricePoint
<1>2. /\ loading' = loading /\ window' = window /\ cfg' = cfg
      /\ state' = state /\ entry' = entry /\ high' = high
  BY DEF LoadPoint, position
<1>3. Sorted(entries) /\ Sorted(ticks) /\ EndOf(entries, ticks) /\ Outlived(entries, ticks, window)
      /\ entries = ticks /\ state = "IDLE" /\ FreshPeak /\ window \in Nat
  BY DEF IInv, LoadPoint
<1>4. CASE p.price = 0 \/ p.ts < Now(entries)
  <2>1. entries' = <<>> /\ ticks' = <<>> /\ feed' = 0
    BY <1>4 DEF LoadPoint
  <2>2. Sorted(<<>>) /\ EndOf(<<>>, <<>>) /\ Outlived(<<>>, <<>>, window)
    BY EmptySeq DEF Sorted, EndOf, Outlived
  <2>3. QED
    BY <1>2, <1>3, <2>1, <2>2 DEF IInv, FeedFollowed, FreshPeak
<1>5. CASE ~(p.price = 0 \/ p.ts < Now(entries)) /\ ~Admits(entries, p)
  <2>1. entries' = entries /\ ticks' = ticks /\ feed' = Offered(p)
    BY <1>5 DEF LoadPoint
  <2>2. feed' \in Nat /\ FeedFollowed'
    BY <2>1, <1>5, RefusedFollowed
  <2>3. QED
    BY <1>2, <2>1, <2>2 DEF IInv, FreshPeak
<1>6. CASE ~(p.price = 0 \/ p.ts < Now(entries)) /\ Admits(entries, p)
  <2>1. entries' = Append(entries, p) /\ ticks' = Append(ticks, p) /\ feed' = Offered(p)
    BY <1>6 DEF LoadPoint
  <2>2. Sorted(entries') /\ Now(entries') = p.ts
    BY <1>1, <1>3, <1>6, <2>1, AppendSorted DEF Admits
  <2>3. feed' \in Nat /\ FeedFollowed'
    BY <2>1, <2>2, <1>6, AdmittedFollowed
  <2>4. entries' = ticks' /\ EndOf(entries', ticks')
    BY <1>1, <1>3, <2>1, EndOfAppend
  <2>5. Outlived(entries', ticks', window')
    BY <2>2, <2>4, LenProperties DEF Outlived, Sorted
  <2>6. QED
    BY <1>2, <1>3, <2>2, <2>3, <2>4, <2>5 DEF IInv, FreshPeak
<1>7. QED
  BY <1>4, <1>5, <1>6

(* The history without its last point, and that point, are the history. *)
LEMMA FrontOf ==
    ASSUME NEW es, Sorted(es), es # <<>>
    PROVE  LET front == SubSeq(es, 1, Len(es) - 1)
           IN  /\ Sorted(front) /\ Append(front, Newest(es)) = es
               /\ Newest(es) \in PricePoint /\ Newest(es).ts >= Now(front) /\ Newest(es).price > 0
<1> DEFINE front == SubSeq(es, 1, Len(es) - 1)
<1>1. es \in Seq(PricePoint) /\ Len(es) \in Nat \ {0} /\ Newest(es) \in PricePoint
  BY NowIs DEF Sorted
<1>2. front \in Seq(PricePoint) /\ Len(front) = Len(es) - 1 /\ \A k \in 1..Len(front) : front[k] = es[k]
  BY <1>1
<1> HIDE DEF front
<1>3. Append(front, Newest(es)) = es
  <2>1. /\ Append(front, Newest(es)) \in Seq(PricePoint) /\ Len(Append(front, Newest(es))) = Len(es)
        /\ \A k \in 1..Len(front) : Append(front, Newest(es))[k] = front[k]
        /\ Append(front, Newest(es))[Len(front) + 1] = Newest(es)
    BY <1>1, <1>2, AppendProperties
  <2>2. ASSUME NEW k \in 1..Len(es) PROVE Append(front, Newest(es))[k] = es[k]
    <3>1. CASE k = Len(es)
      BY <3>1, <1>1, <1>2, <2>1 DEF Newest
    <3>2. CASE k # Len(es)
      <4>1. k \in 1..Len(front)
        BY <3>2, <1>1, <1>2
      <4>2. QED
        BY <4>1, <1>2, <2>1
    <3>3. QED
      BY <3>1, <3>2
  <2>3. QED
    BY <2>1, <2>2, <1>1, SeqEqual
<1>4. /\ \A k \in 1..Len(front) : k \in 1..Len(es)
      /\ Len(es) \in 1..Len(es)
  BY <1>1, <1>2
<1>5. Sorted(front)
  BY <1>2, <1>4 DEF Sorted
<1>6. Newest(es).price > 0 /\ \A k \in 1..Len(es) : es[k].ts <= Newest(es).ts
  BY <1>1, <1>4, NowIs DEF Sorted, Newest
<1>7. Newest(es).ts >= Now(front)
  <2>1. CASE front = <<>>
    BY <2>1, <1>1 DEF Now, PricePoint
  <2>2. CASE front # <<>>
    <3>1. Len(front) \in 1..Len(front) /\ Now(front) = front[Len(front)].ts /\ Now(front) \in Nat
      BY <1>5, <2>2, NowIs
    <3>2. Now(front) <= Newest(es).ts
      BY <3>1, <1>2, <1>4, <1>6
    <3>3. QED
      BY <3>1, <3>2, <1>1 DEF PricePoint
  <2>3. QED
    BY <2>1, <2>2
<1>8. QED
  BY <1>1, <1>3, <1>5, <1>6, <1>7 DEF front

LEMMA FinishLoadKept == ASSUME IInv, FinishLoad PROVE IInv'
<1>1. /\ loading' = FALSE /\ window' = window /\ cfg' = cfg /\ ticks' = ticks /\ feed' = feed
      /\ state' = state /\ entry' = entry /\ high' = high
  BY DEF FinishLoad, position
<1>2. Sorted(entries) /\ entries = ticks /\ window \in Nat
  BY DEF IInv, FinishLoad
<1>3. Sorted(entries') /\ EndOf(entries', ticks) /\ Outlived(entries', ticks, window) /\ Now(entries') = Now(entries)
  <2>1. CASE entries = <<>>
    <3>1. entries' = entries
      BY <2>1 DEF FinishLoad
    <3>2. QED
      BY <3>1 DEF IInv
  <2>2. CASE entries # <<>>
    <3> DEFINE front == SubSeq(entries, 1, Len(entries) - 1)
    <3>1. entries' = Accepted(front, Newest(entries), window)
      BY <2>2 DEF FinishLoad
    <3>2. /\ Sorted(front) /\ Append(front, Newest(entries)) = entries
          /\ Newest(entries) \in PricePoint /\ Newest(entries).ts >= Now(front) /\ Newest(entries).price > 0
      BY <1>2, <2>2, FrontOf
    <3> HIDE DEF front
    <3>3. QED
      BY <1>2, <2>2, <3>1, <3>2, AcceptedIs DEF Now
  <2>3. QED
    BY <2>1, <2>2
<1>4. QED
  BY <1>1, <1>3 DEF IInv, FeedFollowed, FreshPeak

LEMMA TickKept == ASSUME IInv, NEW p \in Points, Tick(p) PROVE IInv'
<1>1. p \in PricePoint /\ p.ts \in Nat /\ p.price \in Nat
  BY EngineAssumption DEF PricePoint
<1>2. loading' = FALSE /\ window' = window /\ cfg' = cfg /\ entry' = entry /\ feed' = Offered(p)
  BY DEF Tick, IInv
<1>3. CASE Admits(entries, p)
  <2>1. /\ entries' = Accepted(entries, p, window) /\ ticks' = Append(ticks, p)
        /\ high' = Peak(p) /\ state' = AfterSignal(entries', high')
    BY <1>3 DEF Tick
  <2>2. /\ Sorted(entries') /\ Sorted(ticks') /\ EndOf(entries', ticks')
        /\ Outlived(entries', ticks', window) /\ Now(entries') = p.ts
    BY <1>1, <1>3, <2>1, AcceptedKept DEF IInv, Admits
  <2>3. feed' \in Nat /\ FeedFollowed'
    BY <1>2, <1>3, <2>2, AdmittedFollowed
  <2>4. high' \in Nat /\ (state \notin Holding => high' = high)
    BY <1>1, <2>1 DEF Peak, IInv
  <2>5. state' \in StrategyState /\ (state' \notin Holding => state \notin Holding)
    BY <2>1 DEF AfterSignal, Holding, StrategyState, IInv
  <2>6. FreshPeak'
    BY <1>2, <2>4, <2>5 DEF FreshPeak, IInv
  <2>7. QED
    BY <1>2, <2>2, <2>3, <2>4, <2>5, <2>6 DEF IInv
<1>4. CASE ~Admits(entries, p)
  <2>1. entries' = entries /\ ticks' = ticks /\ high' = high /\ state' = state
    BY <1>4 DEF Tick
  <2>2. feed' \in Nat /\ FeedFollowed'
    BY <1>2, <1>4, <2>1, RefusedFollowed
  <2>3. QED
    BY <1>2, <2>1, <2>2 DEF IInv, FreshPeak
<1>5. QED
  BY <1>3, <1>4

(* The calls of the worker and of refreshStrategies leave the market alone. *)
LEMMA CallKept ==
    ASSUME IInv,
           \/ ResetPosition \/ RetrySignal
           \/ \E e, h \in {p.price : p \in Points} : SetInPosition(e, h)
           \/ \E c \in Configs : UpdateConfig(c)
    PROVE  IInv'
<1>1. ~loading /\ UNCHANGED <<loading, entries, ticks, feed>> /\ window' = window
  BY DEF ResetPosition, RetrySignal, SetInPosition, UpdateConfig, market
<1>2. cfg' \in Configs
  BY DEF ResetPosition, RetrySignal, SetInPosition, UpdateConfig, IInv
<1>3. state' \in StrategyState /\ entry' \in Nat /\ high' \in Nat /\ FreshPeak'
  <2>1. CASE ResetPosition
    BY <2>1 DEF ResetPosition, StrategyState, FreshPeak
  <2>2. CASE RetrySignal
    BY <2>2 DEF RetrySignal, StrategyState, Holding, FreshPeak, IInv
  <2>3. ASSUME NEW e \in {p.price : p \in Points}, NEW h \in {p.price : p \in Points}, SetInPosition(e, h)
        PROVE  state' \in StrategyState /\ entry' \in Nat /\ high' \in Nat /\ FreshPeak'
    BY <2>3, EngineAssumption DEF SetInPosition, StrategyState, Holding, FreshPeak, IInv, PricePoint
  <2>4. ASSUME NEW c \in Configs, UpdateConfig(c)
        PROVE  state' \in StrategyState /\ entry' \in Nat /\ high' \in Nat /\ FreshPeak'
    BY <2>4 DEF UpdateConfig, position, FreshPeak, IInv
  <2>5. QED
    BY <2>1, <2>2, <2>3, <2>4
<1>4. QED
  BY <1>1, <1>2, <1>3 DEF IInv, FeedFollowed

LEMMA NextIInv == IInv /\ [Next]_vars => IInv'
<1> SUFFICES ASSUME IInv, [Next]_vars PROVE IInv'
  OBVIOUS
<1>1. CASE UNCHANGED vars
  BY <1>1 DEF vars, IInv, FeedFollowed, FreshPeak
<1>2. CASE Next
  BY <1>2, LoadPointKept, FinishLoadKept, TickKept, CallKept DEF Next
<1>3. QED
  BY <1>1, <1>2

(* The entries are, at any time, the end of what was believed, whatever is  *)
(* dropped is behind the cutoff, and the peak is that of the position.       *)
THEOREM Invariant == Spec => []IInv
<1>1. QED
  BY InitIInv, NextIInv, PTL DEF Spec

(* The timestamps of the entries stay in the order that the binary search   *)
(* of GetPriceSecondsAgo assumes, and their prices can be divided by         *)
(* (sliding_window.cpp:126, momentum.cpp:31).                                *)
THEOREM EngineTyped == Spec => []TypeOK
<1>1. IInv => TypeOK
  BY EngineAssumption DEF IInv, TypeOK, Sorted
<1>2. QED
  BY <1>1, Invariant, PTL

(* What the engine believes is never JumpGap behind what it was offered      *)
(* (sliding_window.cpp:84).                                                  *)
THEOREM EngineFollows == Spec => []FeedFollowed
<1>1. IInv => FeedFollowed
  BY DEF IInv
<1>2. QED
  BY <1>1, Invariant, PTL

(* No position starts with an earlier one's peak (strategy.cpp:42-46).      *)
THEOREM PeaksFresh == Spec => []FreshPeak
<1>1. IInv => FreshPeak
  BY DEF IInv
<1>2. QED
  BY <1>1, Invariant, PTL
----------------------------------------------------------------------------
(* Lookbacks. *)

(* The search stops before the first entry that is too young. *)
LEMMA SearchStops ==
    ASSUME NEW es, Sorted(es), NEW target \in Int
    PROVE  LET found == Min({k \in 1..Len(es) + 1 : k > Len(es) \/ es[k].ts > target}) - 1
           IN  /\ found \in 0..Len(es)
               /\ \A k \in 1..found : es[k].ts <= target
               /\ found < Len(es) => es[found + 1].ts > target
<1> DEFINE young == {k \in 1..Len(es) + 1 : k > Len(es) \/ es[k].ts > target}
           least == Min(young)
<1>1. Len(es) \in Nat /\ \A k \in 1..Len(es) : es[k].ts \in Nat
  BY NowIs, LenProperties DEF Sorted
<1>2. Len(es) + 1 \in young /\ young \in SUBSET Nat
  BY <1>1
<1>3. least \in young /\ \A k \in young : least <= k
  BY <1>2, Least
<1>4. least \in 1..Len(es) + 1 /\ (least > Len(es) \/ es[least].ts > target)
  BY <1>3
<1>5. ASSUME NEW k \in 1..(least - 1) PROVE es[k].ts <= target
  <2>1. k \in 1..Len(es) /\ ~(least <= k)
    BY <1>1, <1>4
  <2>2. k \notin young
    BY <2>1, <1>3
  <2>3. ~(es[k].ts > target)
    BY <2>1, <2>2, <1>1
  <2>4. QED
    BY <2>1, <2>3, <1>1
<1> HIDE DEF least
<1>6. least - 1 \in 0..Len(es) /\ (least - 1 < Len(es) => es[least - 1 + 1].ts > target)
  <2>1. least - 1 \in 0..Len(es) /\ least - 1 + 1 = least
    BY <1>1, <1>4
  <2>2. QED
    BY <2>1, <1>1, <1>4
<1>7. QED
  BY <1>5, <1>6 DEF least

(* Nothing else is found: the place of the search is unique. *)
LEMMA SearchUnique ==
    ASSUME NEW es, Sorted(es), NEW target \in Int,
           NEW f \in 0..Len(es), \A k \in 1..f : es[k].ts <= target, f < Len(es) => es[f + 1].ts > target,
           NEW g \in 0..Len(es), \A k \in 1..g : es[k].ts <= target, g < Len(es) => es[g + 1].ts > target
    PROVE  f = g
<1>1. Len(es) \in Nat /\ \A k \in 1..Len(es) : es[k].ts \in Nat
  BY NowIs, LenProperties DEF Sorted
<1>2. CASE f < g
  <2>1. f + 1 \in 1..g /\ f + 1 \in 1..Len(es) /\ f < Len(es)
    BY <1>1, <1>2
  <2>2. QED
    BY <2>1, <1>1
<1>3. CASE g < f
  <2>1. g + 1 \in 1..f /\ g + 1 \in 1..Len(es) /\ g < Len(es)
    BY <1>1, <1>3
  <2>2. QED
    BY <2>1, <1>1
<1>4. QED
  BY <1>1, <1>2, <1>3

(* Dropping entries never changes what a lookback within the window finds   *)
(* (sliding_window.cpp:14): the search in all the points stops the dropped   *)
(* ones further on, or among them, where every price is stale.               *)
LEMMA EvictionKept == IInv => EvictionInvisible
<1> SUFFICES ASSUME IInv, NEW ago \in 0..window
             PROVE  PriceAgo(entries, ago) = PriceAgo(ticks, ago)
  BY DEF EvictionInvisible
<1> DEFINE target == Now(ticks) - ago
           d      == Len(ticks) - Len(entries)
           f      == Min({k \in 1..Len(entries) + 1 : k > Len(entries) \/ entries[k].ts > target}) - 1
           g      == Min({k \in 1..Len(ticks) + 1 : k > Len(ticks) \/ ticks[k].ts > target}) - 1
<1>1. /\ Sorted(entries) /\ Sorted(ticks) /\ EndOf(entries, ticks) /\ Outlived(entries, ticks, window)
      /\ window \in Nat /\ ago \in Nat /\ ago <= window
  BY DEF IInv
<1>2. /\ Len(entries) \in Nat /\ Len(ticks) \in Nat /\ Len(entries) <= Len(ticks)
      /\ Now(entries) = Now(ticks) /\ Now(ticks) \in Nat
      /\ \A k \in 1..Len(entries) : entries[k] = ticks[d + k]
      /\ \A k \in 1..Len(ticks) : ticks[k].ts \in Nat
  BY <1>1, EndOfIs, NowIs
<1>3. target \in Int /\ d \in Nat /\ d + Len(entries) = Len(ticks) /\ target >= Now(ticks) - window
  BY <1>1, <1>2
<1>4. /\ PriceAgo(entries, ago) = IF f = 0 \/ target - entries[f].ts > Staleness THEN 0 ELSE entries[f].price
      /\ PriceAgo(ticks, ago) = IF g = 0 \/ target - ticks[g].ts > Staleness THEN 0 ELSE ticks[g].price
  BY <1>2 DEF PriceAgo
<1> HIDE DEF target
<1>5. /\ f \in 0..Len(entries) /\ \A k \in 1..f : entries[k].ts <= target
      /\ f < Len(entries) => entries[f + 1].ts > target
  BY <1>1, <1>3, SearchStops
<1>6. /\ g \in 0..Len(ticks) /\ \A k \in 1..g : ticks[k].ts <= target
      /\ g < Len(ticks) => ticks[g + 1].ts > target
  BY <1>1, <1>3, SearchStops
<1> HIDE DEF f, g
<1>7. ASSUME NEW k \in 1..d PROVE ticks[k].ts \in Nat /\ target - ticks[k].ts > Staleness
  <2>1. ticks[k].ts < Now(ticks) - window - Tolerance
    BY <1>1 DEF Outlived
  <2>2. k \in 1..Len(ticks)
    BY <1>2, <1>3
  <2>3. QED
    BY <2>1, <2>2, <1>1, <1>2, <1>3, WindowAssumption
<1> HIDE DEF d
<1>8. g = d + f
  <2>1. d + f \in 0..Len(ticks)
    BY <1>2, <1>3, <1>5
  <2>2. ASSUME NEW k \in 1..(d + f) PROVE ticks[k].ts <= target
    <3>1. CASE k <= d
      <4>1. k \in 1..d
        BY <3>1, <1>3
      <4>2. QED
        BY <4>1, <1>3, <1>7, WindowAssumption
    <3>2. CASE k > d
      <4>1. k - d \in 1..f /\ k - d \in 1..Len(entries) /\ d + (k - d) = k
        BY <3>2, <1>2, <1>3, <1>5
      <4>2. QED
        BY <4>1, <1>2, <1>5, SMTT(30)
    <3>3. QED
      BY <3>1, <3>2, <1>3, <1>5
  <2>3. ASSUME d + f < Len(ticks) PROVE ticks[d + f + 1].ts > target
    <3>1. f < Len(entries) /\ f + 1 \in 1..Len(entries) /\ d + (f + 1) = d + f + 1
      BY <2>3, <1>2, <1>3, <1>5, SMTT(30)
    <3>2. QED
      BY <3>1, <1>2, <1>5
  <2>4. QED
    BY <2>1, <2>2, <2>3, <1>1, <1>3, <1>6, SearchUnique
<1>9. CASE f = 0
  <2>1. g = 0 \/ g \in 1..d
    BY <1>8, <1>9, <1>3
  <2>2. g = 0 \/ target - ticks[g].ts > Staleness
    BY <2>1, <1>7
  <2>3. QED
    BY <1>4, <1>9, <2>2
<1>10. CASE f # 0
  <2>1. f \in 1..Len(entries) /\ g # 0
    BY <1>2, <1>3, <1>5, <1>8, <1>10
  <2>2. ticks[g] = entries[f]
    BY <2>1, <1>2, <1>8
  <2>3. QED
    BY <1>4, <1>10, <2>1, <2>2
<1>11. QED
  BY <1>9, <1>10

(* Whatever the window, the tolerance and the staleness, as long as the      *)
(* tolerance is no less, a lookback never misses a price for its having been *)
(* dropped (sliding_window.cpp:95-100, 117-148).                             *)
THEOREM EvictionUnseen == Spec => []EvictionInvisible
<1>1. QED
  BY EvictionKept, Invariant, PTL
----------------------------------------------------------------------------
(* Signals. *)

(* A tick is the only step that ends a search in a buy or an open position   *)
(* in a sale, and it is then one the engine believed.                        *)
LEMMA TickOnly ==
    ASSUME IInv, Next, \/ state = "IDLE" /\ state' = "PENDING_BUY"
                       \/ state = "IN_POSITION" /\ ticks' # ticks
    PROVE  \E p \in Points :
              /\ Admits(entries, p) /\ cfg' = cfg /\ window' = window
              /\ entry' = entry /\ high' = Peak(p) /\ state' = AfterSignal(entries', high')
              /\ ticks' = Append(ticks, p)
<1>1. ASSUME NEW p \in Points, Tick(p)
      PROVE  Admits(entries, p) /\ cfg' = cfg /\ window' = window
             /\ entry' = entry /\ high' = Peak(p) /\ state' = AfterSignal(entries', high')
             /\ ticks' = Append(ticks, p)
  BY <1>1 DEF Tick
<1>2. ASSUME NEW p \in Points, LoadPoint(p) PROVE FALSE
  BY <1>2 DEF LoadPoint, position, IInv
<1>3. ~FinishLoad
  BY DEF FinishLoad, position
<1>4. ~ResetPosition /\ ~RetrySignal
  BY DEF ResetPosition, RetrySignal, market
<1>5. ASSUME NEW e, NEW h, SetInPosition(e, h) PROVE FALSE
  BY <1>5 DEF SetInPosition, market
<1>6. ASSUME NEW c \in Configs, UpdateConfig(c) PROVE FALSE
  BY <1>6 DEF UpdateConfig, market, position
<1>7. QED
  BY <1>1, <1>2, <1>3, <1>4, <1>5, <1>6 DEF Next

(* A lookback finds a price of its age, and no staler than allowed. *)
LEMMA PriceAgoSeen ==
    ASSUME NEW es, Sorted(es), NEW ago \in Nat, PriceAgo(es, ago) > 0
    PROVE  \E k \in 1..Len(es) : /\ Now(es) - es[k].ts \in ago..(ago + Staleness)
                                 /\ PriceAgo(es, ago) = es[k].price
<1> DEFINE target == Now(es) - ago
           f      == Min({k \in 1..Len(es) + 1 : k > Len(es) \/ es[k].ts > target}) - 1
<1>1. /\ Now(es) \in Nat /\ Len(es) \in Nat /\ \A k \in 1..Len(es) : es[k].ts \in Nat
      /\ target \in Int
  BY NowIs, LenProperties DEF Sorted
<1>2. PriceAgo(es, ago) = IF f = 0 \/ target - es[f].ts > Staleness THEN 0 ELSE es[f].price
  BY DEF PriceAgo
<1>3. f \in 0..Len(es) /\ \A k \in 1..f : es[k].ts <= target
  <2> HIDE DEF target
  <2>1. QED
    BY <1>1, SearchStops
<1> HIDE DEF f
<1>4. f # 0 /\ ~(target - es[f].ts > Staleness) /\ PriceAgo(es, ago) = es[f].price
  BY <1>2
<1>5. f \in 1..Len(es) /\ es[f].ts <= target
  BY <1>1, <1>3, <1>4
<1>6. Now(es) - es[f].ts \in ago..(ago + Staleness)
  BY <1>1, <1>4, <1>5, WindowAssumption
<1>7. QED
  BY <1>4, <1>5, <1>6

(* What rises in the entries rose in all the points. *)
LEMMA RisesRose ==
    ASSUME NEW es, NEW all, Sorted(es), Sorted(all), EndOf(es, all), es # <<>>,
           NEW m, m.lookback \in Nat, Rises(es, m)
    PROVE  \E k \in 1..Len(all) :
              /\ Newest(all).ts - all[k].ts \in m.lookback..(m.lookback + Staleness)
              /\ (Newest(all).price - all[k].price) * Unit >= m.threshold * all[k].price
<1>1. PriceAgo(es, m.lookback) > 0
      /\ (Newest(es).price - PriceAgo(es, m.lookback)) * Unit >= m.threshold * PriceAgo(es, m.lookback)
  BY DEF Rises
<1>2. PICK k \in 1..Len(es) : /\ Now(es) - es[k].ts \in m.lookback..(m.lookback + Staleness)
                              /\ PriceAgo(es, m.lookback) = es[k].price
  BY <1>1, PriceAgoSeen
<1>3. /\ Len(es) \in Nat /\ Len(all) \in Nat /\ Len(es) <= Len(all)
      /\ Newest(es) = Newest(all) /\ Now(es) = Newest(all).ts
      /\ es[k] = all[Len(all) - Len(es) + k]
  BY EndOfIs DEF Now
<1>4. Len(all) - Len(es) + k \in 1..Len(all)
  BY <1>3
<1>5. QED
  BY <1>1, <1>2, <1>3, <1>4

(* A buy is signalled only for a rise that was really seen, over a history   *)
(* that spans the window (momentum.cpp:15-38).                               *)
THEOREM BuysJustified == Spec => BuyJustified
<1>1. ASSUME IInv, IInv', Next, state = "IDLE", state' = "PENDING_BUY"
      PROVE  /\ Now(ticks') - ticks'[1].ts >= window
             /\ IF cfg.all THEN \A m \in cfg.momentum : Rose(m)'
                           ELSE \E m \in cfg.momentum : Rose(m)'
  <2>1. PICK p \in Points : cfg' = cfg /\ window' = window /\ state' = AfterSignal(entries', high')
    BY <1>1, TickOnly
  <2>2. Sorted(entries') /\ Sorted(ticks') /\ EndOf(entries', ticks') /\ cfg \in Config /\ window \in Nat
    BY <1>1, EngineAssumption DEF IInv
  <2>3. EntryRule(cfg, entries')
    BY <1>1, <2>1 DEF AfterSignal
  <2>4. entries' # <<>> /\ Now(entries') - entries'[1].ts >= window
    BY <2>3 DEF EntryRule, Ready
  <2>5. Now(ticks') - ticks'[1].ts >= window
    <3>1. /\ Len(entries') \in Nat \ {0} /\ Len(ticks') \in Nat /\ Len(entries') <= Len(ticks')
          /\ Now(entries') = Now(ticks') /\ Now(ticks') \in Nat
          /\ \A k \in 1..Len(entries') : entries'[k] = ticks'[Len(ticks') - Len(entries') + k]
          /\ \A k \in 1..Len(ticks') : ticks'[k].ts \in Nat
      BY <2>2, <2>4, EndOfIs, NowIs
    <3> DEFINE first == Len(ticks') - Len(entries') + 1
    <3>2. first \in 1..Len(ticks') /\ 1 \in 1..Len(ticks') /\ 1 \in 1..Len(entries') /\ 1 <= first
      BY <3>1
    <3>3. entries'[1] = ticks'[first]
      BY <3>1, <3>2
    <3> HIDE DEF first
    <3>4. ticks'[1].ts <= ticks'[first].ts
      BY <2>2, <3>2 DEF Sorted
    <3>5. QED
      BY <2>2, <2>4, <3>1, <3>2, <3>3, <3>4
  <2>6. ASSUME NEW m \in cfg.momentum, Rises(entries', m) PROVE Rose(m)'
    <3>1. m.lookback \in Nat
      BY <2>2 DEF Config
    <3>2. QED
      BY <2>2, <2>4, <2>6, <3>1, RisesRose DEF Rose
  <2>7. QED
    BY <2>3, <2>5, <2>6 DEF EntryRule
<1>2. IInv /\ IInv' /\ [Next]_vars =>
        [state = "IDLE" /\ state' = "PENDING_BUY" =>
            /\ Now(ticks') - ticks'[1].ts >= window
            /\ IF cfg.all THEN \A m \in cfg.momentum : Rose(m)'
                          ELSE \E m \in cfg.momentum : Rose(m)']_vars
  BY <1>1
<1>3. QED
  BY <1>2, Invariant, PTL DEF Spec, BuyJustified

LEMMA TimesMonotone == \A a, b \in Int, c \in Nat : a >= b => a * c >= b * c
BY Z3

(* The signal of an open position at a tick the engine believed. *)
LEMMA SellSignal ==
    ASSUME IInv, IInv', Next, state = "IN_POSITION", ticks' # ticks
    PROVE  /\ cfg' = cfg /\ entry' = entry /\ cfg \in Config
           /\ Newest(ticks').price \in Nat \ {0} /\ entry \in Nat /\ high \in Nat
           /\ high' = IF Newest(ticks').price > high THEN Newest(ticks').price ELSE high
           /\ state' = IF ExitRule(cfg, Newest(ticks').price, entry, high') THEN "PENDING_SELL" ELSE "IN_POSITION"
<1>1. PICK p \in Points :
         /\ Admits(entries, p) /\ cfg' = cfg /\ entry' = entry /\ high' = Peak(p)
         /\ state' = AfterSignal(entries', high') /\ ticks' = Append(ticks, p)
  BY TickOnly
<1>2. Sorted(ticks) /\ Sorted(ticks') /\ Sorted(entries') /\ EndOf(entries', ticks') /\ p \in PricePoint
  BY EngineAssumption DEF IInv
<1>3. Newest(ticks') = p
  <2>1. Len(ticks') = Len(ticks) + 1 /\ ticks'[Len(ticks) + 1] = p
    BY <1>1, <1>2, AppendProperties DEF Sorted
  <2>2. QED
    BY <2>1 DEF Newest
<1>4. Newest(entries') = p
  <2>1. ticks' # <<>>
    BY <1>1, <1>2, AppendProperties DEF Sorted
  <2>2. QED
    BY <2>1, <1>2, <1>3, EndOfIs
<1>5. p.price \in Nat \ {0}
  BY <1>1, <1>2 DEF Admits, PricePoint
<1>6. high' = IF p.price > high THEN p.price ELSE high
  BY <1>1 DEF Peak, Holding
<1>7. state' = IF ExitRule(cfg, p.price, entry, high') THEN "PENDING_SELL" ELSE "IN_POSITION"
  BY <1>1, <1>4 DEF AfterSignal
<1>8. QED
  BY <1>1, <1>3, <1>5, <1>6, <1>7, EngineAssumption DEF IInv

(* Once a position's peak has reached the activation threshold its trailing  *)
(* stop decides alone (trailing_stop.cpp:17-18).                             *)
THEOREM TrailingStays == Spec => TrailingLatched
<1>1. ASSUME IInv, IInv', Next, state = "IN_POSITION", state' \in Holding, cfg' = cfg,
             ticks' # ticks, Trailing(cfg, entry, high)
      PROVE  LET price == Newest(ticks').price
                 best  == IF price > high THEN price ELSE high
             IN  state' = "PENDING_SELL" <=> price * Unit <= best * (Unit - cfg.trail)
  <2>1. /\ cfg \in Config /\ entry \in Nat /\ high \in Nat /\ Newest(ticks').price \in Nat
        /\ high' = IF Newest(ticks').price > high THEN Newest(ticks').price ELSE high
        /\ state' = IF ExitRule(cfg, Newest(ticks').price, entry, high') THEN "PENDING_SELL" ELSE "IN_POSITION"
    BY <1>1, SellSignal
  <2>2. high' - entry >= high - entry /\ high' - entry \in Int /\ high - entry \in Int /\ Unit \in Nat
    BY <2>1, WindowAssumption
  <2>3. (high' - entry) * Unit >= (high - entry) * Unit
    BY <2>2, TimesMonotone
  <2>4. /\ (high' - entry) * Unit \in Int /\ (high - entry) * Unit \in Int /\ cfg.activation * entry \in Int
        /\ (high - entry) * Unit >= cfg.activation * entry /\ cfg.type = "trailing"
    BY <1>1, <2>1, <2>2 DEF Trailing, Config, Percent
  <2>5. (high' - entry) * Unit >= cfg.activation * entry
    BY <2>3, <2>4
  <2>6. ExitRule(cfg, Newest(ticks').price, entry, high')
           <=> Newest(ticks').price * Unit <= high' * (Unit - cfg.trail)
    BY <2>4, <2>5 DEF ExitRule, TrailingRule
  <2>7. QED
    BY <2>1, <2>6
<1>2. IInv /\ IInv' /\ [Next]_vars =>
        [state = "IN_POSITION" /\ state' \in Holding /\ cfg' = cfg /\ ticks' # ticks
         /\ Trailing(cfg, entry, high) =>
            LET price == Newest(ticks').price
                best  == IF price > high THEN price ELSE high
            IN  state' = "PENDING_SELL" <=> price * Unit <= best * (Unit - cfg.trail)]_vars
  BY <1>1
<1>3. QED
  BY <1>2, Invariant, PTL DEF Spec, TrailingLatched

(* A trailing stop that starts above the stop loss stays above it. *)
LEMMA TrailAboveLoss ==
    ASSUME NEW c \in Config, StartsAbove(c), NEW price \in Nat \ {0}, NEW ent \in Nat, NEW hi \in Nat,
           LossCut(c, price, ent), (hi - ent) * Unit >= c.activation * ent
    PROVE  price * Unit <= hi * (Unit - c.trail)
<1> DEFINE U == Unit
           k == Unit - c.trail
           w == Unit - c.stop
           a == c.activation
<1>1. U \in Nat \ {0} /\ k \in Int /\ w \in Int /\ a \in Nat
  BY WindowAssumption DEF Config, Percent
<1>2. (U + a) * k >= U * w /\ price * U <= ent * w /\ (hi - ent) * U >= a * ent
  BY DEF StartsAbove, LossCut
<1> HIDE DEF U, k, w, a
<1>3. w >= 1 /\ ent >= 1
  <2>1. price * U >= 1
    BY <1>1, Z3
  <2>2. ent * w >= 1
    BY <1>1, <1>2, <2>1, Z3
  <2>3. QED
    BY <1>1, <2>2, Z3
<1>4. U * w >= 1
  BY <1>1, <1>3, Z3
<1>5. k >= 1
  BY <1>1, <1>2, <1>4, Z3
<1>6. hi * U >= (U + a) * ent
  BY <1>1, <1>2, Z3
<1>7. (hi * U) * k >= ((U + a) * ent) * k
  BY <1>1, <1>5, <1>6, TimesMonotone
<1>8. ((U + a) * k) * ent >= (U * w) * ent
  BY <1>1, <1>2, TimesMonotone
<1>9. (ent * w) * U >= (price * U) * U
  BY <1>1, <1>2, TimesMonotone
<1>10. (hi * k) * U >= (price * U) * U
  <2>1. (hi * U) * k = (hi * k) * U /\ ((U + a) * ent) * k = ((U + a) * k) * ent /\ (U * w) * ent = (ent * w) * U
    BY <1>1, Z3
  <2>2. QED
    BY <1>1, <1>7, <1>8, <1>9, <2>1, Z3
<1>11. hi * k >= price * U
  BY <1>1, <1>10, Z3
<1>12. QED
  BY <1>11 DEF U, k

(* A position that has fallen to its stop loss is signalled for sale, in     *)
(* either phase of its exit rule (types.h:58).                               *)
THEOREM LossesCut == Spec => StopLossBinds
<1>1. ASSUME IInv, IInv', Next, state = "IN_POSITION", ticks' # ticks, cfg.type # "dummy",
             StartsAbove(cfg), LossCut(cfg, Newest(ticks').price, entry)
      PROVE  state' = "PENDING_SELL"
  <2>1. /\ cfg \in Config /\ entry \in Nat /\ high' \in Nat /\ Newest(ticks').price \in Nat \ {0}
        /\ state' = IF ExitRule(cfg, Newest(ticks').price, entry, high') THEN "PENDING_SELL" ELSE "IN_POSITION"
    BY <1>1, SellSignal
  <2>2. CASE cfg.type = "profit"
    BY <1>1, <2>1, <2>2 DEF ExitRule, ProfitRule
  <2>3. CASE cfg.type = "trailing"
    BY <1>1, <2>1, <2>3, TrailAboveLoss DEF ExitRule, TrailingRule
  <2>4. QED
    BY <1>1, <2>1, <2>2, <2>3 DEF Config
<1>2. IInv /\ IInv' /\ [Next]_vars =>
        [state = "IN_POSITION" /\ ticks' # ticks /\ cfg.type # "dummy" /\ StartsAbove(cfg)
         /\ LossCut(cfg, Newest(ticks').price, entry) => state' = "PENDING_SELL"]_vars
  BY <1>1
<1>3. QED
  BY <1>2, Invariant, PTL DEF Spec, StopLossBinds
=============================================================================
