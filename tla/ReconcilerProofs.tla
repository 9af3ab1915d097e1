-------------------------- MODULE ReconcilerProofs --------------------------
(***************************************************************************)
(* Theorems of the pair and its reconciliation, for any faults, tasks and  *)
(* bounds.  KnownPositionBacked is not inductive: three tasks and the      *)
(* worker write positions they have read earlier, for rows they have read  *)
(* earlier.  The strengthening IInv has two parts:                         *)
(*   the book: a row's exchange id names an order of the row's side, which *)
(*   carries the row's client order id or none, or is a stop order if the  *)
(*   row is; an order's client order id names a market row of its side;    *)
(*   the locals: every row, order or position that the worker or a task    *)
(*   keeps exists and is of the kind the next step takes it for.           *)
(* The second part survives the steps of the others because rows and       *)
(* orders are only added, links never changed and fills never undone       *)
(* (Grown); so each action is shown to keep the book, to be Grown and to   *)
(* set its own locals right.  Quantities are only known to be integers:    *)
(* nothing here depends on the sums by which the exchange admits a sale.   *)
(***************************************************************************)
EXTENDS Reconciler, WellFoundedInduction, TLAPS

USE DEF Unnamed

(* The types, with integers for quantities and with the status of an order  *)
(* on its way, which a row never takes but a single step cannot exclude.    *)
Statuses == RowStatuses \cup {"transit"}
RowI    == [xid : Nat, side : Sides, kind : Kinds, status : Statuses, qty : Int]
OrderI  == [cid : Nat \cup {Unnamed}, side : Sides, kind : Kinds, qty : Int,
            status : {"transit", "open", "closed", "canceled"}]
PositionI == [st : {"none", "ghost", "known"}, order : Nat, qty : Int, sl : BOOLEAN]
WorkerI == [pc : WorkerSteps, h : Handlers, pos : PositionI, bal : Int, row : Nat, x : Nat,
            resp : {"none", "open", "closed"}, todo : SUBSET Nat]

(* Row r is linked to an order of its side: its own, or nobody's. *)
LinkIn(rs, xs, r) ==
    IF rs[r].xid = 0 THEN rs[r].kind = "market"
    ELSE /\ rs[r].xid \in 1..Len(xs)
         /\ xs[rs[r].xid].side = rs[r].side
         /\ IF rs[r].kind = "stop" THEN xs[rs[r].xid].cid = 0 /\ xs[rs[r].xid].kind = "stop"
            ELSE xs[rs[r].xid].cid \in {r, Unnamed}

(* Order x is a stop order of the bot, a filled order of the account's      *)
(* owner, or the market order of a row.                                     *)
OrderIn(rs, xs, x) ==
    IF xs[x].cid = 0 THEN xs[x].kind = "stop"
    ELSE IF xs[x].cid = Unnamed THEN xs[x].status = "closed"
    ELSE /\ xs[x].cid \in 1..Len(rs)
         /\ rs[xs[x].cid].kind = "market"
         /\ rs[xs[x].cid].side = xs[x].side
         /\ xs[x].kind = "market"

(* The book. *)
BookIn(rs, xs) ==
    /\ rs \in Seq(RowI) /\ xs \in Seq(OrderI)
    /\ \A r \in 1..Len(rs) : LinkIn(rs, xs, r)
    /\ \A x \in 1..Len(xs) : OrderIn(rs, xs, x)

(* Backed, for the tables given. *)
BackedIn(rs, xs, r) ==
    /\ r \in 1..Len(rs)
    /\ rs[r].side = "buy" /\ rs[r].kind = "market"
    /\ rs[r].xid \in 1..Len(xs)
    /\ xs[rs[r].xid].side = "buy" /\ xs[rs[r].xid].status = "closed"

(* A position as stored, or as somebody has read it. *)
PositionIn(rs, xs, p) ==
    /\ p \in PositionI
    /\ p.order # 0 => BackedIn(rs, xs, p.order)
    /\ p.st = "known" => p.order # 0

(* The orders the bot may have placed. *)
Own(xs) == {x \in 1..Len(xs) : xs[x].cid # Unnamed}

(* Where the worker has not come across an exchange order yet. *)
Fresh == {"tick", "pending", "lookup", "giveup", "position", "orders", "balance", "stops"}

(* The locals of the worker. *)
WorkerIn(rs, xs, v) ==
    /\ v \in WorkerI
    /\ PositionIn(rs, xs, v.pos)
    /\ v.todo \subseteq Own(xs)
    /\ v.pc \in Fresh => v.x = 0
    /\ v.pc \in {"lookup", "giveup", "send", "confirm"} => v.row \in 1..Len(rs) /\ rs[v.row].xid = 0
    /\ v.pc \in {"send", "confirm"} => (v.h = "buy" => rs[v.row].side = "buy")
    /\ v.pc = "confirm" => /\ v.x \in 1..Len(xs)
                           /\ xs[v.x].cid = v.row
                           /\ v.resp = "open" \/ (v.resp = "closed" /\ xs[v.x].status = "closed")
    /\ v.pc = "create" => BackedIn(rs, xs, v.row)
    /\ v.pc \in {"record", "stoprow", "cancel", "canceled"} /\ v.x # 0 =>
          v.x \in 1..Len(xs) /\ xs[v.x].kind = "stop" /\ xs[v.x].cid = 0
    /\ v.pc \in {"stoprow", "cancel", "canceled"} => v.x # 0

(* The locals of the tasks. *)
OrdersI == [pc : {"idle", "fetch", "create", "balance", "quantity"},
            todo : SUBSET Nat, row : Nat, bal : Int]
PositionsI == [pc : {"idle", "read", "wallet", "delete", "adjust", "pairs", "orders", "adopt"},
               pos : PositionI, wallet : Int]
StopsI == [pc : {"idle", "read", "wallet", "rows", "next", "latest", "cancel", "store"},
           pos : PositionI, wallet : Int, todo : SUBSET Nat, x : Nat, protected : BOOLEAN]

OrdersIn(rs, xs, v) ==
    /\ v \in OrdersI
    /\ v.todo \subseteq {r \in 1..Len(rs) : rs[r].xid # 0 /\ rs[r].kind = "market"}
    /\ v.pc = "fetch" => v.todo # {}
    /\ v.pc = "create" => BackedIn(rs, xs, v.row)

PositionsIn(rs, xs, v) == v \in PositionsI /\ PositionIn(rs, xs, v.pos)

StopsIn(rs, xs, v) ==
    /\ v \in StopsI
    /\ PositionIn(rs, xs, v.pos)
    /\ v.todo \subseteq {r \in 1..Len(rs) : rs[r].xid # 0 /\ rs[r].kind = "stop"}
    /\ v.pc \in {"latest", "cancel", "store"} =>
          v.todo # {} /\ v.x \in 1..Len(xs) /\ xs[v.x].kind = "stop" /\ xs[v.x].cid = 0

(* The inductive invariant. *)
IInv ==
    /\ strat \in StrategyState
    /\ wallet \in Int /\ hold \in Int
    /\ BookIn(rows, xord)
    /\ PositionIn(rows, xord, pos)
    /\ WorkerIn(rows, xord, w)
    /\ OrdersIn(rows, xord, so)
    /\ PositionsIn(rows, xord, sp)
    /\ StopsIn(rows, xord, ss)
----------------------------------------------------------------------------
(* What no step ever takes back. *)
Grown(rs, xs, rt, xt) ==
    /\ Len(rs) <= Len(rt) /\ Len(xs) <= Len(xt)
    /\ \A r \in 1..Len(rs) : /\ rt[r].side = rs[r].side /\ rt[r].kind = rs[r].kind
                             /\ rs[r].xid # 0 => rt[r].xid = rs[r].xid
    /\ \A x \in 1..Len(xs) : /\ xt[x].cid = xs[x].cid /\ xt[x].side = xs[x].side /\ xt[x].kind = xs[x].kind
                             /\ xs[x].status = "closed" => xt[x].status = "closed"

(* ... and what only the worker does, which links rows. *)
Unlinked(rs, rt) == \A r \in 1..Len(rs) : rs[r].xid = 0 => rt[r].xid = 0

(* Nothing is taken back where nothing happens. *)
LEMMA GrownRefl == ASSUME NEW rs, NEW xs, BookIn(rs, xs) PROVE Grown(rs, xs, rs, xs) /\ Unlinked(rs, rs)
BY DEF Grown, Unlinked, BookIn

(* A filled buy order stays one: the exchange never reopens an order, and   *)
(* no row is unlinked.                                                      *)
LEMMA BackedGrown ==
    ASSUME NEW rs, NEW xs, NEW rt, NEW xt, BookIn(rs, xs), BookIn(rt, xt), Grown(rs, xs, rt, xt),
           NEW r, BackedIn(rs, xs, r)
    PROVE  BackedIn(rt, xt, r)
BY DEF BackedIn, Grown, BookIn

(* So what a position says of its order stays true while the tables grow. *)
LEMMA PositionGrown ==
    ASSUME NEW rs, NEW xs, NEW rt, NEW xt, BookIn(rs, xs), BookIn(rt, xt), Grown(rs, xs, rt, xt),
           NEW p, PositionIn(rs, xs, p)
    PROVE  PositionIn(rt, xt, p)
BY BackedGrown DEF PositionIn

(* No order comes to be the owner's. *)
LEMMA OwnGrown ==
    ASSUME NEW rs, NEW xs, NEW rt, NEW xt, BookIn(rs, xs), BookIn(rt, xt), Grown(rs, xs, rt, xt)
    PROVE  Own(xs) \subseteq Own(xt)
BY DEF Own, Grown, BookIn

(* What the worker keeps in its locals stays true whatever the others       *)
(* write.                                                                   *)
LEMMA WorkerGrown ==
    ASSUME NEW rs, NEW xs, NEW rt, NEW xt, BookIn(rs, xs), BookIn(rt, xt), Grown(rs, xs, rt, xt),
           Unlinked(rs, rt), NEW v, WorkerIn(rs, xs, v)
    PROVE  WorkerIn(rt, xt, v)
<1>1. PositionIn(rt, xt, v.pos)
  BY PositionGrown DEF WorkerIn
<1>2. v.pc = "create" => BackedIn(rt, xt, v.row)
  BY BackedGrown DEF WorkerIn
<1>3. v.todo \subseteq Own(xt)
  BY OwnGrown DEF WorkerIn
<1>4. QED
  BY <1>1, <1>2, <1>3, SMTT(30) DEF WorkerIn, Grown, Unlinked, BookIn

(* What a task keeps in its locals stays true whatever the others write. *)
LEMMA TasksGrown ==
    ASSUME NEW rs, NEW xs, NEW rt, NEW xt, BookIn(rs, xs), BookIn(rt, xt), Grown(rs, xs, rt, xt)
    PROVE  /\ \A v : OrdersIn(rs, xs, v) => OrdersIn(rt, xt, v)
           /\ \A v : PositionsIn(rs, xs, v) => PositionsIn(rt, xt, v)
           /\ \A v : StopsIn(rs, xs, v) => StopsIn(rt, xt, v)
<1>1. ASSUME NEW v, OrdersIn(rs, xs, v) PROVE OrdersIn(rt, xt, v)
  <2>1. v.pc = "create" => BackedIn(rt, xt, v.row)
    BY <1>1, BackedGrown DEF OrdersIn
  <2>2. ASSUME NEW r \in v.todo PROVE r \in 1..Len(rt) /\ rt[r].xid # 0 /\ rt[r].kind = "market"
    <3>1. r \in 1..Len(rs) /\ rs[r].xid # 0 /\ rs[r].kind = "market"
      BY <1>1 DEF OrdersIn
    <3>2. QED
      BY <3>1 DEF Grown, BookIn
  <2>3. QED
    BY <1>1, <2>1, <2>2 DEF OrdersIn
<1>2. ASSUME NEW v, PositionsIn(rs, xs, v) PROVE PositionsIn(rt, xt, v)
  BY <1>2, PositionGrown DEF PositionsIn
<1>3. ASSUME NEW v, StopsIn(rs, xs, v) PROVE StopsIn(rt, xt, v)
  <2>1. PositionIn(rt, xt, v.pos)
    BY <1>3, PositionGrown DEF StopsIn
  <2>2. ASSUME NEW r \in v.todo PROVE r \in 1..Len(rt) /\ rt[r].xid # 0 /\ rt[r].kind = "stop"
    <3>1. r \in 1..Len(rs) /\ rs[r].xid # 0 /\ rs[r].kind = "stop"
      BY <1>3 DEF StopsIn
    <3>2. QED
      BY <3>1 DEF Grown, BookIn
  <2>3. v.pc \in {"latest", "cancel", "store"} =>
            v.x \in 1..Len(xt) /\ xt[v.x].kind = "stop" /\ xt[v.x].cid = 0
    BY <1>3 DEF StopsIn, Grown, BookIn
  <2>4. QED
    BY <1>3, <2>1, <2>2, <2>3 DEF StopsIn
<1>4. QED
  BY <1>1, <1>2, <1>3
----------------------------------------------------------------------------
(* The operators on the tables keep the book. *)
LEMMA InsertedBook ==
    ASSUME NEW rs, NEW xs, BookIn(rs, xs), NEW side \in Sides, NEW qty \in Int
    PROVE  /\ BookIn(Inserted(rs, side, qty), xs)
           /\ Grown(rs, xs, Inserted(rs, side, qty), xs) /\ Unlinked(rs, Inserted(rs, side, qty))
           /\ Len(Inserted(rs, side, qty)) = Len(rs) + 1
           /\ Inserted(rs, side, qty)[Len(rs) + 1].xid = 0
           /\ Inserted(rs, side, qty)[Len(rs) + 1].side = side
<1> DEFINE row == [xid |-> 0, side |-> side, kind |-> "market", status |-> "new", qty |-> qty]
           rt  == Append(rs, row)
<1>1. rs \in Seq(RowI) /\ row \in RowI
  BY DEF BookIn, RowI, Kinds, Statuses, RowStatuses
<1>2. /\ rt \in Seq(RowI) /\ Len(rt) = Len(rs) + 1 /\ rt[Len(rs) + 1] = row
      /\ \A r \in 1..Len(rs) : rt[r] = rs[r]
      /\ Len(rs) \in Nat
  BY <1>1
<1>3. row.xid = 0 /\ row.side = side /\ row.kind = "market"
  OBVIOUS
<1> HIDE DEF rt, row
<1>4. \A r \in 1..Len(rt) : LinkIn(rt, xs, r)
  <2>1. TAKE r \in 1..Len(rt)
  <2>2. CASE r = Len(rs) + 1
    <3>1. rt[r].xid = 0 /\ rt[r].kind = "market"
      BY <1>2, <1>3, <2>2
    <3>2. QED
      BY <3>1 DEF LinkIn
  <2>3. CASE r \in 1..Len(rs)
    <3>1. LinkIn(rs, xs, r) /\ rt[r] = rs[r]
      BY <1>2, <2>3 DEF BookIn
    <3>2. QED
      BY <3>1 DEF LinkIn
  <2>4. QED
    BY <1>2, <2>2, <2>3
<1>5. \A x \in 1..Len(xs) : OrderIn(rt, xs, x)
  BY <1>2 DEF BookIn, OrderIn
<1>6. Grown(rs, xs, rt, xs) /\ Unlinked(rs, rt)
  BY <1>2 DEF Grown, Unlinked, BookIn
<1>7. rt = Inserted(rs, side, qty)
  BY DEF rt, row, Inserted
<1>8. QED
  BY <1>2, <1>3, <1>4, <1>5, <1>6, <1>7 DEF BookIn

(* UpdateOrder by id: a row without exchange id gets one of its own side    *)
(* (helper.go:86-103).                                                      *)
LEMMA LinkedBook ==
    ASSUME NEW rs, NEW xs, BookIn(rs, xs), NEW r \in 1..Len(rs), rs[r].xid = 0, NEW status \in Statuses,
           NEW x \in Nat,
           x # 0 => /\ x \in 1..Len(xs) /\ xs[x].cid \in {r, Unnamed}
                    /\ xs[x].side = rs[r].side
    PROVE  /\ BookIn(Linked(rs, r, x, status), xs)
           /\ Grown(rs, xs, Linked(rs, r, x, status), xs)
           /\ x = 0 => Unlinked(rs, Linked(rs, r, x, status))
           /\ Linked(rs, r, x, status)[r].xid = x
<1> DEFINE rt == Linked(rs, r, x, status)
<1>1. rs \in Seq(RowI) /\ rs[r].kind = "market" /\ rs[r] \in RowI
  BY DEF BookIn, LinkIn
<1>2. /\ Len(rt) = Len(rs)
      /\ \A i \in 1..Len(rs) : i # r => rt[i] = rs[i]
      /\ rt[r] \in RowI
      /\ rt[r].xid = x /\ rt[r].side = rs[r].side /\ rt[r].kind = "market"
  <2>1. ASSUME NEW row \in RowI, row.xid = 0
        PROVE  LET a == [row EXCEPT !.xid = x]
                   b == [a EXCEPT !.status = status]
               IN  b \in RowI /\ b.xid = x /\ b.side = row.side /\ b.kind = row.kind
    BY <2>1 DEF RowI
  <2> DEFINE mid == [rs EXCEPT ![r] = [rs[r] EXCEPT !.xid = x]]
             b == [[rs[r] EXCEPT !.xid = x] EXCEPT !.status = status]
  <2>2. mid[r] = [rs[r] EXCEPT !.xid = x] /\ DOMAIN mid = DOMAIN rs /\ DOMAIN rs = 1..Len(rs)
    BY <1>1
  <2>3. rt = [mid EXCEPT ![r] = [mid[r] EXCEPT !.status = status]]
    BY <1>1 DEF Linked
  <2>4. rt = [mid EXCEPT ![r] = b]
    BY <2>2, <2>3
  <2>5. rt = [rs EXCEPT ![r] = b]
    BY <2>4
  <2>6. b \in RowI /\ b.xid = x /\ b.side = rs[r].side /\ b.kind = "market"
    BY <1>1, <2>1
  <2> HIDE DEF rt, b
  <2>7. QED
    BY <1>1, <2>5, <2>6
<1>4. rt \in Seq(RowI)
  <2>1. rt = [rs EXCEPT ![r] = rt[r]]
    BY <1>1, <1>2 DEF Linked
  <2> HIDE DEF rt
  <2>2. QED
    BY <1>1, <1>2, <2>1
<1>5. rt[r].xid = x /\ rt[r].side = rs[r].side /\ rt[r].kind = "market"
  BY <1>2
<1> HIDE DEF rt
<1>6. \A i \in 1..Len(rt) : LinkIn(rt, xs, i)
  <2>1. ASSUME NEW i \in 1..Len(rt), i # r PROVE LinkIn(rt, xs, i)
    BY <1>2, <2>1 DEF BookIn, LinkIn
  <2>2. LinkIn(rt, xs, r)
    BY <1>2, <1>5 DEF LinkIn
  <2>3. QED
    BY <2>1, <2>2
<1>7. \A i \in 1..Len(xs) : OrderIn(rt, xs, i)
  BY <1>2, <1>5 DEF BookIn, OrderIn
<1>8. Grown(rs, xs, rt, xs) /\ (x = 0 => Unlinked(rs, rt))
  BY <1>1, <1>2, <1>5 DEF Grown, Unlinked, BookIn
<1>9. QED
  BY <1>4, <1>5, <1>6, <1>7, <1>8 DEF BookIn, rt

(* updateOrderResponse: known orders get a status, unknown ones a row       *)
(* (service.go).                                                            *)
LEMMA UpsertedBook ==
    ASSUME NEW rs, NEW xs, BookIn(rs, xs), NEW x \in 1..Len(xs), NEW status \in Statuses,
           Recorded(rs, x) \/ xs[x].cid = 0
    PROVE  /\ BookIn(Upserted(rs, x, xs[x], status), xs)
           /\ Grown(rs, xs, Upserted(rs, x, xs[x], status), xs)
           /\ Unlinked(rs, Upserted(rs, x, xs[x], status))
<1> DEFINE rt == Upserted(rs, x, xs[x], status)
<1>1. rs \in Seq(RowI) /\ xs \in Seq(OrderI) /\ xs[x] \in OrderI /\ DOMAIN rs = 1..Len(rs) /\ Len(rs) \in Nat
  BY DEF BookIn
<1>2. CASE Recorded(rs, x)
  <2>1. rt = [i \in 1..Len(rs) |-> IF rs[i].xid = x THEN [rs[i] EXCEPT !.status = status] ELSE rs[i]]
    BY <1>1, <1>2 DEF Upserted
  <2>2. \A i \in 1..Len(rs) : /\ rt[i] \in RowI /\ rt[i].xid = rs[i].xid
                              /\ rt[i].side = rs[i].side /\ rt[i].kind = rs[i].kind
    <3>1. ASSUME NEW i \in 1..Len(rs), NEW row \in RowI
          PROVE  LET s == [row EXCEPT !.status = status]
                 IN  s \in RowI /\ s.xid = row.xid /\ s.side = row.side /\ s.kind = row.kind
      BY DEF RowI
    <3>2. \A i \in 1..Len(rs) : rs[i] \in RowI
      BY <1>1
    <3>3. QED
      BY <2>1, <3>1, <3>2
  <2>3. rt \in Seq(RowI) /\ Len(rt) = Len(rs)
    BY <1>1, <2>1, <2>2
  <2> HIDE DEF rt
  <2>4. \A i \in 1..Len(rt) : LinkIn(rt, xs, i)
    BY <2>2, <2>3 DEF BookIn, LinkIn
  <2>5. \A i \in 1..Len(xs) : OrderIn(rt, xs, i)
    BY <2>2, <2>3 DEF BookIn, OrderIn
  <2>6. Grown(rs, xs, rt, xs) /\ Unlinked(rs, rt)
    BY <2>2, <2>3 DEF Grown, Unlinked, BookIn
  <2>7. QED
    BY <2>3, <2>4, <2>5, <2>6 DEF BookIn, rt
<1>3. CASE ~Recorded(rs, x)
  <2> DEFINE row == [xid |-> x, side |-> xs[x].side, kind |-> xs[x].kind, status |-> status, qty |-> xs[x].qty]
  <2>1. rt = Append(rs, row) /\ row \in RowI
    BY <1>1, <1>3 DEF Upserted, OrderI, RowI
  <2>2. /\ rt \in Seq(RowI) /\ Len(rt) = Len(rs) + 1 /\ rt[Len(rs) + 1] = row
        /\ \A i \in 1..Len(rs) : rt[i] = rs[i]
    BY <1>1, <2>1
  <2>3. xs[x].cid = 0 /\ xs[x].kind = "stop"
    BY <1>3 DEF BookIn, OrderIn
  <2>4. row.xid = x /\ row.side = xs[x].side /\ row.kind = xs[x].kind
    OBVIOUS
  <2> HIDE DEF rt, row
  <2>5. \A i \in 1..Len(rt) : LinkIn(rt, xs, i)
    BY <1>1, <2>2, <2>3, <2>4 DEF BookIn, LinkIn
  <2>6. \A i \in 1..Len(xs) : OrderIn(rt, xs, i)
    BY <1>1, <2>2 DEF BookIn, OrderIn
  <2>7. Grown(rs, xs, rt, xs) /\ Unlinked(rs, rt)
    BY <1>1, <2>2 DEF Grown, Unlinked, BookIn
  <2>8. QED
    BY <2>2, <2>5, <2>6, <2>7 DEF BookIn, rt
<1>4. QED
  BY <1>2, <1>3

(* The exchange admits a stop order, an order of the owner, or the order of *)
(* a row.                                                                   *)
LEMMA AcceptedBook ==
    ASSUME NEW rs, NEW xs, BookIn(rs, xs), NEW o \in OrderI,
           IF o.cid = 0 THEN o.kind = "stop"
           ELSE IF o.cid = Unnamed THEN o.status = "closed"
           ELSE /\ o.cid \in 1..Len(rs) /\ rs[o.cid].kind = "market" /\ rs[o.cid].side = o.side
                /\ o.kind = "market"
    PROVE  /\ BookIn(rs, Append(xs, o))
           /\ Grown(rs, xs, rs, Append(xs, o)) /\ Unlinked(rs, rs)
           /\ Len(Append(xs, o)) = Len(xs) + 1 /\ Append(xs, o)[Len(xs) + 1] = o
<1> DEFINE xt == Append(xs, o)
<1>1. rs \in Seq(RowI) /\ xs \in Seq(OrderI) /\ Len(rs) \in Nat
  BY DEF BookIn
<1>2. /\ xt \in Seq(OrderI) /\ Len(xt) = Len(xs) + 1 /\ xt[Len(xs) + 1] = o
      /\ \A x \in 1..Len(xs) : xt[x] = xs[x]
  BY <1>1
<1> HIDE DEF xt
<1>3. \A r \in 1..Len(rs) : LinkIn(rs, xt, r)
  <2>1. TAKE r \in 1..Len(rs)
  <2>2. LinkIn(rs, xs, r)
    BY DEF BookIn
  <2>3. CASE rs[r].xid = 0
    BY <2>2, <2>3 DEF LinkIn
  <2>4. CASE rs[r].xid # 0
    <3>1. rs[r].xid \in 1..Len(xs) /\ xt[rs[r].xid] = xs[rs[r].xid] /\ rs[r].xid \in 1..Len(xt)
      BY <1>1, <1>2, <2>2, <2>4 DEF LinkIn
    <3>2. QED
      BY <2>2, <2>4, <3>1 DEF LinkIn
  <2>5. QED
    BY <2>3, <2>4
<1>4. \A x \in 1..Len(xt) : OrderIn(rs, xt, x)
  <2>1. TAKE x \in 1..Len(xt)
  <2>2. CASE x = Len(xs) + 1
    BY <1>2, <2>2 DEF OrderIn
  <2>3. CASE x \in 1..Len(xs)
    <3>1. OrderIn(rs, xs, x) /\ xt[x] = xs[x]
      BY <1>2, <2>3 DEF BookIn
    <3>2. QED
      BY <3>1 DEF OrderIn
  <2>4. QED
    BY <1>1, <1>2, <2>2, <2>3
<1>5. Grown(rs, xs, rs, xt) /\ Unlinked(rs, rs)
  BY <1>1, <1>2 DEF Grown, Unlinked
<1>6. QED
  BY <1>1, <1>2, <1>3, <1>4, <1>5 DEF BookIn, xt

(* An order that is not closed changes its status. *)
LEMMA SettledBook ==
    ASSUME NEW rs, NEW xs, BookIn(rs, xs), NEW x \in 1..Len(xs), xs[x].status # "closed",
           NEW s \in {"transit", "open", "closed", "canceled"}
    PROVE  LET xt == [xs EXCEPT ![x].status = s]
           IN  BookIn(rs, xt) /\ Grown(rs, xs, rs, xt) /\ Unlinked(rs, rs)
<1> DEFINE xt == [xs EXCEPT ![x].status = s]
<1>1. rs \in Seq(RowI) /\ xs \in Seq(OrderI) /\ Len(rs) \in Nat /\ xs[x] \in OrderI
  BY DEF BookIn
<1>2. /\ Len(xt) = Len(xs)
      /\ \A i \in 1..Len(xs) : i # x => xt[i] = xs[i]
      /\ xt[x] \in OrderI /\ xt[x].cid = xs[x].cid /\ xt[x].side = xs[x].side /\ xt[x].kind = xs[x].kind
  <2>1. ASSUME NEW o \in OrderI
        PROVE  LET b == [o EXCEPT !.status = s]
               IN  b \in OrderI /\ b.cid = o.cid /\ b.side = o.side /\ b.kind = o.kind
    BY DEF OrderI
  <2> DEFINE b == [xs[x] EXCEPT !.status = s]
  <2>2. b \in OrderI /\ b.cid = xs[x].cid /\ b.side = xs[x].side /\ b.kind = xs[x].kind
    BY <1>1, <2>1
  <2>3. xt = [xs EXCEPT ![x] = b]
    OBVIOUS
  <2> HIDE DEF xt, b
  <2>4. QED
    BY <1>1, <2>2, <2>3
<1>3. xt \in Seq(OrderI)
  BY <1>1, <1>2
<1> HIDE DEF xt
<1>4. \A i \in 1..Len(xs) : /\ xt[i].cid = xs[i].cid /\ xt[i].side = xs[i].side /\ xt[i].kind = xs[i].kind
                            /\ xs[i].status = "closed" => xt[i].status = "closed"
  BY <1>2
<1>5. \A r \in 1..Len(rs) : LinkIn(rs, xt, r)
  BY <1>1, <1>2, <1>4 DEF BookIn, LinkIn
<1>6. \A i \in 1..Len(xt) : OrderIn(rs, xt, i)
  BY <1>1, <1>2, <1>4 DEF BookIn, OrderIn
<1>7. Grown(rs, xs, rs, xt) /\ Unlinked(rs, rs)
  BY <1>1, <1>2, <1>4 DEF Grown, Unlinked
<1>8. QED
  BY <1>1, <1>3, <1>5, <1>6, <1>7 DEF BookIn, xt
----------------------------------------------------------------------------
(* Positions the code writes. *)
LEMMA NoPositionIn == ASSUME NEW rs, NEW xs PROVE PositionIn(rs, xs, NoPosition)
BY DEF PositionIn, PositionI, NoPosition

(* CreatePosition: a ghost, or a position with the filled order it is       *)
(* created for.                                                             *)
LEMMA CreatedIn ==
    ASSUME NEW rs, NEW xs, BookIn(rs, xs), NEW r, r = 0 \/ BackedIn(rs, xs, r), NEW q \in Int
    PROVE  PositionIn(rs, xs, CreatedPosition(r, q))
BY DEF PositionIn, PositionI, CreatedPosition, BackedIn, BookIn

(* An update that only carries a balance names no order. *)
LEMMA QuantityIn ==
    ASSUME NEW rs, NEW xs, NEW q \in Int
    PROVE  PositionIn(rs, xs, QuantityOnly(q))
BY DEF PositionIn, PositionI, QuantityOnly

(* A position as read, with another quantity and without its flag. *)
LEMMA AdjustedIn ==
    ASSUME NEW rs, NEW xs, NEW p, PositionIn(rs, xs, p), NEW q \in Int
    PROVE  PositionIn(rs, xs, [p EXCEPT !.qty = q, !.sl = FALSE])
BY DEF PositionIn, PositionI

(* UpdatePosition: the result has an order when its origin is known, and    *)
(* the order was filled.                                                    *)
LEMMA UpdatedIn ==
    ASSUME NEW rs, NEW xs, NEW p, NEW u, PositionIn(rs, xs, p), PositionIn(rs, xs, u), UpdateAllowed(p, u)
    PROVE  PositionIn(rs, xs, UpdatedPosition(p, u))
<1>1. UpdatedPosition(p, u) \in PositionI
  BY DEF PositionIn, PositionI, UpdatedPosition
<1>2. p.order \in Nat /\ u.order \in Nat
  BY DEF PositionIn, PositionI
<1>3. QED
  BY <1>1, <1>2 DEF PositionIn, UpdatedPosition, UpdateAllowed
----------------------------------------------------------------------------
(* Places of the worker. *)
Bound == {"lookup", "giveup", "send", "confirm", "create", "record", "stoprow", "cancel", "canceled"}

(* The worker goes on to a place that needs none of its locals. *)
LEMMA GotoIn ==
    ASSUME NEW rs, NEW xs, NEW v, WorkerIn(rs, xs, v), NEW p \in WorkerSteps \ Bound,
           p \in Fresh => v.pc \in Fresh
    PROVE  WorkerIn(rs, xs, [v EXCEPT !.pc = p])
BY DEF WorkerIn, WorkerI, Bound

(* A fresh worker, or one that has only its signal. *)
LEMMA IdleIn ==
    ASSUME NEW rs, NEW xs, NEW p \in WorkerSteps \ Bound, NEW h \in Handlers
    PROVE  /\ WorkerIn(rs, xs, Idle)
           /\ WorkerIn(rs, xs, [Idle EXCEPT !.pc = p])
           /\ WorkerIn(rs, xs, [Idle EXCEPT !.h = h, !.pc = p])
<1>1. Idle \in WorkerI /\ Idle.pc = "tick" /\ Idle.todo = {} /\ Idle.pos = NoPosition /\ Idle.x = 0
  BY DEF WorkerI, Idle, PositionI, NoPosition, WorkerSteps, Handlers
<1>2. WorkerIn(rs, xs, Idle)
  BY <1>1, NoPositionIn DEF WorkerIn
<1>3. WorkerIn(rs, xs, [Idle EXCEPT !.pc = p])
  BY <1>1, <1>2, GotoIn DEF Fresh
<1>4. WorkerIn(rs, xs, [Idle EXCEPT !.h = h, !.pc = p])
  BY <1>1, <1>2 DEF WorkerIn, WorkerI, Bound
<1>5. QED
  BY <1>2, <1>3, <1>4

(* Leaving processSignal clears the locals. *)
LEMMA ReturnIn ==
    ASSUME NEW rs, NEW xs, NEW s \in StrategyState, Return(s)
    PROVE  WorkerIn(rs, xs, w') /\ strat' \in StrategyState
<1>1. "retire" \in WorkerSteps \ Bound /\ "none" \in Handlers
  BY DEF WorkerSteps, Bound, Handlers
<1>2. WorkerIn(rs, xs, Idle) /\ WorkerIn(rs, xs, [Idle EXCEPT !.pc = "retire"])
  BY <1>1, IdleIn
<1>3. QED
  BY <1>2 DEF Return

(* RetrySignal leads to a state of the strategy. *)
LEMMA RetryIn == ASSUME NEW s \in StrategyState PROVE Retry(s) \in StrategyState
BY DEF Retry, StrategyState

(* So does leaving it on an error. *)
LEMMA OnErrorIn ==
    ASSUME NEW rs, NEW xs, strat \in StrategyState, OnError
    PROVE  WorkerIn(rs, xs, w') /\ strat' \in StrategyState
BY ReturnIn, RetryIn DEF OnError

(* The worker goes on while it writes. *)
LEMMA MovedIn ==
    ASSUME NEW rs, NEW xs, NEW rt, NEW xt, BookIn(rs, xs), BookIn(rt, xt), Grown(rs, xs, rt, xt),
           NEW v, WorkerIn(rs, xs, v), NEW p \in WorkerSteps \ Bound,
           p \in Fresh => v.pc \in Fresh
    PROVE  WorkerIn(rt, xt, [v EXCEPT !.pc = p])
<1> DEFINE u == [v EXCEPT !.pc = p]
<1>1. u \in WorkerI /\ u.pc = p /\ u.pos = v.pos /\ u.todo = v.todo /\ u.x = v.x
  BY DEF WorkerIn, WorkerI
<1>2. PositionIn(rt, xt, u.pos)
  BY <1>1, PositionGrown DEF WorkerIn
<1>3. u.todo \subseteq Own(xt)
  BY <1>1, OwnGrown DEF WorkerIn
<1> HIDE DEF u
<1>4. WorkerIn(rt, xt, u)
  BY <1>1, <1>2, <1>3 DEF WorkerIn, Bound
<1>5. QED
  BY <1>4 DEF u
----------------------------------------------------------------------------
(* A step of whoever writes the tables or the book. *)
Advanced ==
    /\ BookIn(rows', xord') /\ Grown(rows, xord, rows', xord')
    /\ PositionIn(rows', xord', pos')
    /\ wallet' \in Int /\ hold' \in Int

(* A step that only reads. *)
LEMMA NothingWritten == ASSUME IInv, UNCHANGED <<database, exchange>> PROVE Advanced /\ Unlinked(rows, rows')
BY GrownRefl DEF IInv, Advanced, database, exchange

(* A step that only writes trading.orders. *)
LEMMA RowsWritten ==
    ASSUME IInv, BookIn(rows', xord), Grown(rows, xord, rows', xord), UNCHANGED <<pos, wallet, exchange>>
    PROVE  Advanced
BY PositionGrown DEF IInv, Advanced, exchange

(* A step that only moves the exchange. *)
LEMMA BookMoved ==
    ASSUME IInv, BookIn(rows, xord'), Grown(rows, xord, rows, xord'), hold' \in Int, UNCHANGED database
    PROVE  Advanced /\ Unlinked(rows, rows')
BY PositionGrown, GrownRefl DEF IInv, Advanced, database

(* A step that only writes the position or the balance. *)
LEMMA PositionWritten ==
    ASSUME IInv, PositionIn(rows, xord, pos'), wallet' \in Int, UNCHANGED <<rows, exchange>>
    PROVE  Advanced /\ Unlinked(rows, rows')
BY GrownRefl DEF IInv, Advanced, exchange

WorkerAdvanced == Advanced /\ strat' \in StrategyState /\ WorkerIn(rows', xord', w')

(* The tasks keep their invariant while the worker moves. *)
LEMMA WorkerKept ==
    ASSUME IInv, WorkerAdvanced, UNCHANGED tasks PROVE IInv'
BY TasksGrown DEF IInv, WorkerAdvanced, Advanced, tasks
----------------------------------------------------------------------------
(* The actions of the worker. *)
LEMMA TickKept == ASSUME IInv, Tick PROVE WorkerAdvanced
<1>1. Advanced /\ rows' = rows /\ xord' = xord
  BY NothingWritten DEF Tick, exchange, database
<1>2. PICK h \in Signals(strat) :
         \/ w' = [Idle EXCEPT !.pc = "retire"] /\ strat' = strat
         \/ strat' = AfterSignal(h) /\ \E p \in {"position", "pending"} :
               w' = [Idle EXCEPT !.h = h, !.pc = p]
  BY DEF Tick
<1>3. h \in Handlers \ {"none"} /\ AfterSignal(h) \in StrategyState /\ strat \in StrategyState
  BY <1>2 DEF IInv, StrategyState, Signals, Handlers, AfterSignal
<1>4. {"retire", "position", "pending"} \subseteq WorkerSteps \ Bound
  BY DEF WorkerSteps, Bound
<1>5. strat' \in StrategyState
  BY <1>2, <1>3
<1>6. WorkerIn(rows, xord, w')
  <2>1. /\ WorkerIn(rows, xord, [Idle EXCEPT !.pc = "retire"])
        /\ \A p \in {"position", "pending"} : WorkerIn(rows, xord, [Idle EXCEPT !.h = h, !.pc = p])
    BY <1>3, <1>4, IdleIn
  <2>2. QED
    BY <1>2, <2>1
<1>7. QED
  BY <1>1, <1>5, <1>6 DEF WorkerAdvanced

(* Goto, after any write. *)
LEMMA Moved ==
    ASSUME IInv, Advanced, NEW p \in WorkerSteps \ Bound, Goto(p), p \in Fresh => w.pc \in Fresh
    PROVE  WorkerAdvanced
BY MovedIn DEF IInv, Advanced, WorkerAdvanced, Goto

(* Return, after any write. *)
LEMMA Returned ==
    ASSUME IInv, Advanced, NEW s \in StrategyState, Return(s)
    PROVE  WorkerAdvanced
BY ReturnIn DEF WorkerAdvanced

(* OnError, after any write. *)
LEMMA GaveUp == ASSUME IInv, Advanced, OnError PROVE WorkerAdvanced
BY OnErrorIn DEF IInv, WorkerAdvanced

(* Return with each of the states that the handlers return with. *)
LEMMA Retried ==
    ASSUME IInv, Advanced, Return(strat) \/ Return(Retry(strat)) \/ Return("IDLE") \/ Return("IN_POSITION")
    PROVE  WorkerAdvanced
BY Returned, RetryIn DEF IInv, StrategyState

(* Places no lemma above has to say anything about. *)
LEMMA Places == WorkerSteps \ Bound = {"tick", "pending", "position", "orders", "balance", "persist",
                                       "settle", "quantity", "close", "delete", "stops", "arm", "raise",
                                       "retire", "apply", "stopped"}
BY DEF WorkerSteps, Bound

(* The row to look up has no exchange id yet. *)
LEMMA CheckPendingKept == ASSUME IInv, CheckPending PROVE WorkerAdvanced
<1>1. Advanced /\ rows' = rows /\ xord' = xord
  BY NothingWritten DEF CheckPending, exchange, database
<1>2. ASSUME NEW r \in Unresolved(rows), w' = [w EXCEPT !.pc = "lookup", !.row = r], UNCHANGED strat
      PROVE  WorkerAdvanced
  <2>1. r \in 1..Len(rows) /\ rows[r].xid = 0
    BY DEF Unresolved, Select, IInv, BookIn
  <2>2. /\ w' \in WorkerI /\ w'.pc = "lookup" /\ w'.row = r
        /\ w'.pos = w.pos /\ w'.todo = w.todo /\ w'.x = w.x
    <3>1. "lookup" \in WorkerSteps /\ w \in WorkerI /\ r \in Nat
      BY <2>1 DEF IInv, WorkerIn, BookIn, WorkerSteps
    <3>2. QED
      BY <1>2, <3>1 DEF WorkerI
  <2>3. WorkerIn(rows, xord, w')
    BY <2>1, <2>2 DEF IInv, WorkerIn, CheckPending, Fresh
  <2>4. QED
    BY <1>1, <1>2, <2>3 DEF WorkerAdvanced, IInv
<1>3. QED
  BY <1>1, <1>2, Moved, GaveUp, Places DEF Fresh, CheckPending

(* A matching order is the row's own, or one without client order id of its *)
(* side.                                                                    *)
LEMMA LookupKept == ASSUME IInv, Lookup PROVE WorkerAdvanced
<1>1. CASE UNCHANGED rows /\ (Goto("giveup") \/ OnError)
  <2>1. Advanced /\ rows' = rows /\ xord' = xord
    BY <1>1, NothingWritten DEF Lookup, exchange, database
  <2>2. Goto("giveup") => WorkerIn(rows, xord, w') /\ strat' = strat
    BY DEF Lookup, Goto, Fresh, IInv, WorkerIn, WorkerI, WorkerSteps
  <2>3. QED
    BY <1>1, <2>1, <2>2, GaveUp DEF WorkerAdvanced, IInv
<1>2. ASSUME NEW x \in Matches(w.row), rows' = Linked(rows, w.row, x, "new"), Goto("position")
      PROVE  WorkerAdvanced
  <2>1. /\ w.row \in 1..Len(rows) /\ rows[w.row].xid = 0
        /\ x \in 1..Len(xord) /\ xord[x].cid \in {w.row, Unnamed}
        /\ xord[x].side = rows[w.row].side
    <3>1. /\ w.row \in 1..Len(rows) /\ rows[w.row].xid = 0 /\ Len(rows) \in Nat
          /\ x \in 1..Len(xord) /\ OrderIn(rows, xord, x)
      BY DEF Lookup, IInv, WorkerIn, BookIn, Matches
    <3>2. \/ xord[x].cid = w.row
          \/ xord[x].cid = Unnamed /\ xord[x].side = rows[w.row].side
      BY DEF Matches
    <3>3. QED
      BY <3>1, <3>2 DEF OrderIn
  <2>2. BookIn(rows', xord) /\ Grown(rows, xord, rows', xord)
    BY <1>2, <2>1, LinkedBook, SMTT(30) DEF IInv, Statuses, RowStatuses
  <2>3. Advanced
    BY <2>2, RowsWritten DEF Lookup
  <2>4. QED
    BY <1>2, <2>3, Moved, Places DEF Fresh, Lookup
<1>3. QED
  BY <1>1, <1>2 DEF Lookup

(* A row that is given up stays without exchange id. *)
LEMMA GiveUpKept == ASSUME IInv, GiveUp PROVE WorkerAdvanced
<1>1. CASE UNCHANGED rows /\ OnError
  BY <1>1, NothingWritten, GaveUp DEF GiveUp, exchange, database
<1>2. CASE rows' = Linked(rows, w.row, 0, "rejected") /\ Goto("position")
  <2>1. w.row \in 1..Len(rows) /\ rows[w.row].xid = 0
    BY DEF GiveUp, IInv, WorkerIn
  <2>2. BookIn(rows', xord) /\ Grown(rows, xord, rows', xord)
    BY <1>2, <2>1, LinkedBook DEF IInv, Statuses, RowStatuses
  <2>3. QED
    BY <1>2, <2>2, RowsWritten, Moved, Places DEF Fresh, GiveUp
<1>3. QED
  BY <1>1, <1>2 DEF GiveUp

(* The position goes into the locals as it is stored. *)
LEMMA CheckPositionKept == ASSUME IInv, CheckPosition PROVE WorkerAdvanced
<1>1. Advanced /\ rows' = rows /\ xord' = xord
  BY NothingWritten DEF CheckPosition, exchange, database
<1>2. ASSUME NEW p \in WorkerSteps \ Bound, w' = [w EXCEPT !.pc = p, !.pos = pos], UNCHANGED strat,
             w.pc = "position"
      PROVE  WorkerAdvanced
  <2>1. WorkerIn(rows, xord, w')
    BY <1>2 DEF IInv, WorkerIn, WorkerI, PositionIn, Bound, Fresh
  <2>2. QED
    BY <1>1, <1>2, <2>1 DEF WorkerAdvanced, IInv
<1>3. QED
  BY <1>1, <1>2, Moved, GaveUp, Retried, Places DEF Fresh, CheckPosition

(* The other local decisions only move the worker. *)
LEMMA CheckOpenOrdersKept == ASSUME IInv, CheckOpenOrders PROVE WorkerAdvanced
BY NothingWritten, Moved, GaveUp, Retried, Places DEF Fresh, CheckOpenOrders, exchange, database

(* A balance goes into the locals. *)
LEMMA BalanceIn ==
    ASSUME IInv, Advanced, NEW p \in WorkerSteps \ Bound, NEW q \in Int, UNCHANGED <<rows, xord>>,
           p \in Fresh => w.pc \in Fresh,
           w' = [w EXCEPT !.pc = p, !.bal = q], UNCHANGED strat
    PROVE  WorkerAdvanced
<1>1. WorkerIn(rows, xord, w')
  BY DEF IInv, WorkerIn, WorkerI, Bound
<1>2. QED
  BY <1>1 DEF WorkerAdvanced, IInv

(* The decision on the balance. *)
LEMMA CheckBalanceKept == ASSUME IInv, CheckBalance PROVE WorkerAdvanced
<1>1. Advanced /\ UNCHANGED <<rows, xord>>
  BY PositionWritten DEF CheckBalance, IInv, exchange
<1>2. hold \in Int
  BY DEF IInv
<1>3. QED
  BY <1>1, <1>2, Moved, GaveUp, Retried, BalanceIn, Places DEF Fresh, CheckBalance

(* The new row has no exchange id, and the side of the signal. *)
LEMMA PersistOrderKept == ASSUME IInv, PersistOrder PROVE WorkerAdvanced
<1>1. CASE UNCHANGED rows /\ Return(strat)
  BY <1>1, NothingWritten, Retried DEF PersistOrder, exchange, database
<1>2. CASE /\ rows' = Inserted(rows, IF w.h = "buy" THEN "buy" ELSE "sell", IF w.h = "buy" THEN 1 ELSE w.bal)
           /\ w' = [w EXCEPT !.pc = "send", !.row = Len(rows) + 1]
           /\ UNCHANGED strat
  <2> DEFINE side == IF w.h = "buy" THEN "buy" ELSE "sell"
             qty  == IF w.h = "buy" THEN 1 ELSE w.bal
  <2>1. side \in Sides /\ qty \in Int
    BY DEF IInv, WorkerIn, WorkerI, Sides
  <2>2. /\ BookIn(rows', xord) /\ Grown(rows, xord, rows', xord)
        /\ Len(rows') = Len(rows) + 1
        /\ rows'[Len(rows) + 1].xid = 0 /\ rows'[Len(rows) + 1].side = side
    BY <1>2, <2>1, InsertedBook DEF IInv
  <2>3. Advanced /\ xord' = xord
    BY <2>2, RowsWritten DEF PersistOrder, exchange
  <2>4. /\ w' \in WorkerI /\ w'.pc = "send" /\ w'.row = Len(rows) + 1 /\ w'.h = w.h
        /\ w'.pos = w.pos /\ w'.todo = w.todo
    <3>1. "send" \in WorkerSteps /\ w \in WorkerI /\ Len(rows) + 1 \in Nat
      BY DEF IInv, WorkerIn, BookIn, WorkerSteps
    <3>2. QED
      BY <1>2, <3>1 DEF WorkerI
  <2>5. PositionIn(rows', xord, w'.pos)
    BY <2>2, <2>4, PositionGrown DEF IInv, WorkerIn
  <2>6. Len(rows) + 1 \in 1..Len(rows')
    BY <2>2 DEF IInv, BookIn
  <2>7. WorkerIn(rows', xord, w')
    BY <2>2, <2>4, <2>5, <2>6 DEF IInv, WorkerIn, Fresh
  <2>8. QED
    BY <1>2, <2>3, <2>7 DEF WorkerAdvanced, IInv
<1>3. QED
  BY <1>1, <1>2 DEF PersistOrder

(* The order of the row the worker has just written. *)
LEMMA AcceptedFor ==
    ASSUME IInv, NEW r \in 1..Len(rows), NEW status \in {"transit", "open", "closed"},
           rows[r].xid = 0,
           AcceptMarket(rows[r].side, rows[r].qty, r, status), UNCHANGED database
    PROVE  /\ Advanced /\ Unlinked(rows, rows')
           /\ Len(xord) + 1 \in 1..Len(xord')
           /\ xord'[Len(xord) + 1].cid = r /\ xord'[Len(xord) + 1].status = status
<1> DEFINE o == [cid |-> r, side |-> rows[r].side, kind |-> "market", qty |-> rows[r].qty, status |-> status]
<1>1. rows[r] \in RowI /\ hold \in Int /\ xord \in Seq(OrderI) /\ r \in Nat /\ rows[r].kind = "market"
  BY DEF IInv, BookIn, LinkIn
<1>2. o \in OrderI /\ o.cid = r /\ o.kind = "market" /\ o.side = rows[r].side /\ o.status = status
  BY <1>1 DEF OrderI, RowI, Kinds
<1>3. xord' = Append(xord, o) /\ hold' \in Int
  BY <1>1 DEF AcceptMarket, RowI
<1> HIDE DEF o
<1>4. /\ BookIn(rows, xord') /\ Grown(rows, xord, rows, xord')
      /\ Len(xord') = Len(xord) + 1 /\ xord'[Len(xord) + 1] = o
  BY <1>1, <1>2, <1>3, AcceptedBook DEF IInv
<1>5. QED
  BY <1>1, <1>2, <1>3, <1>4, BookMoved

(* The order that the exchange answers with carries the id of the row. *)
LEMMA SendOrderKept == ASSUME IInv, SendOrder PROVE WorkerAdvanced
<1>1. /\ w.row \in 1..Len(rows) /\ rows[w.row].xid = 0
      /\ w.h = "buy" => rows[w.row].side = "buy"
      /\ UNCHANGED database
  BY DEF SendOrder, IInv, WorkerIn
<1>2. ASSUME NEW status \in {"open", "closed"},
             AcceptMarket(rows[w.row].side, rows[w.row].qty, w.row, status),
             w' = [w EXCEPT !.pc = "confirm", !.x = Len(xord) + 1, !.resp = status], UNCHANGED strat
      PROVE  WorkerAdvanced
  <2>1. /\ Advanced /\ Unlinked(rows, rows') /\ rows' = rows
        /\ Len(xord) + 1 \in 1..Len(xord')
        /\ xord'[Len(xord) + 1].cid = w.row /\ xord'[Len(xord) + 1].status = status
    BY <1>1, <1>2, AcceptedFor DEF database
  <2>2. /\ w' \in WorkerI /\ w'.pc = "confirm" /\ w'.x = Len(xord) + 1 /\ w'.resp = status /\ w'.h = w.h
        /\ w'.pos = w.pos /\ w'.todo = w.todo /\ w'.row = w.row
    <3>1. "confirm" \in WorkerSteps /\ w \in WorkerI /\ Len(xord) + 1 \in Nat
      BY DEF IInv, WorkerIn, BookIn, WorkerSteps
    <3>2. QED
      BY <1>2, <3>1 DEF WorkerI
  <2>3. PositionIn(rows', xord', w'.pos)
    BY <2>1, <2>2, PositionGrown DEF IInv, WorkerIn, Advanced
  <2>4. w'.todo \subseteq Own(xord')
    BY <2>1, <2>2, OwnGrown DEF IInv, WorkerIn, Advanced
  <2>5. WorkerIn(rows', xord', w')
    BY <1>1, <2>1, <2>2, <2>3, <2>4 DEF WorkerIn, Fresh
  <2>6. QED
    BY <1>2, <2>1, <2>5 DEF WorkerAdvanced, IInv
<1>3. ASSUME NEW status \in {"transit", "open", "closed"},
             AcceptMarket(rows[w.row].side, rows[w.row].qty, w.row, status), Return(strat)
      PROVE  WorkerAdvanced
  BY <1>1, <1>3, AcceptedFor, Retried
<1>4. CASE Return(strat) /\ UNCHANGED exchange
  BY <1>1, <1>4, NothingWritten, Retried
<1>5. QED
  BY <1>2, <1>3, <1>4 DEF SendOrder

(* The row is linked to that order; a filled buy backs a position from then *)
(* on.                                                                      *)
LEMMA ConfirmOrderKept == ASSUME IInv, ConfirmOrder PROVE WorkerAdvanced
<1>1. CASE Return(strat) /\ UNCHANGED rows
  BY <1>1, NothingWritten, Retried DEF ConfirmOrder, exchange, database
<1>2. CASE /\ rows' = Linked(rows, w.row, w.x, w.resp)
           /\ IF w.resp = "open" THEN Return(strat)
              ELSE Goto(IF w.h = "buy" THEN "create" ELSE "close")
  <2>1. /\ w.row \in 1..Len(rows) /\ rows[w.row].xid = 0
        /\ w.h = "buy" => rows[w.row].side = "buy"
        /\ w.x \in 1..Len(xord) /\ w.x # 0 /\ xord[w.x].cid = w.row
        /\ w.resp = "open" \/ (w.resp = "closed" /\ xord[w.x].status = "closed")
    BY DEF ConfirmOrder, IInv, WorkerIn, BookIn
  <2>2. xord[w.x].side = rows[w.row].side
    BY <2>1 DEF IInv, BookIn, OrderIn
  <2>3. BookIn(rows', xord) /\ Grown(rows, xord, rows', xord) /\ rows'[w.row].xid = w.x
    BY <1>2, <2>1, <2>2, LinkedBook DEF IInv, Statuses, RowStatuses
  <2>4. Advanced /\ xord' = xord
    BY <2>3, RowsWritten DEF ConfirmOrder, exchange
  <2>5. CASE w.resp # "open" /\ w.h = "buy" /\ Goto("create")
    <3>1. BackedIn(rows', xord, w.row)
      BY <2>1, <2>2, <2>3, <2>5, SMTT(30) DEF BackedIn, Grown, BookIn, IInv, LinkIn
    <3>2. /\ w' \in WorkerI /\ w'.pc = "create" /\ w'.row = w.row
          /\ w'.pos = w.pos /\ w'.todo = w.todo
      <4>1. "create" \in WorkerSteps /\ w \in WorkerI
        BY DEF IInv, WorkerIn, WorkerSteps
      <4>2. QED
        BY <2>5, <4>1 DEF WorkerI, Goto
    <3>3. PositionIn(rows', xord, w'.pos) /\ w'.todo \subseteq Own(xord)
      BY <2>3, <3>2, PositionGrown DEF IInv, WorkerIn
    <3>4. WorkerIn(rows', xord, w')
      BY <3>1, <3>2, <3>3 DEF WorkerIn, Fresh
    <3>5. QED
      BY <2>4, <2>5, <3>4 DEF WorkerAdvanced, IInv, Goto
  <2>6. CASE w.resp = "open" /\ Return(strat)
    BY <2>4, <2>6, Retried
  <2>7. CASE Goto("close")
    BY <2>4, <2>7, Moved, Places DEF Fresh
  <2>8. QED
    BY <1>2, <2>5, <2>6, <2>7
<1>3. QED
  BY <1>1, <1>2 DEF ConfirmOrder

(* The position is created for the row that was confirmed as filled. *)
LEMMA CreatePositionKept == ASSUME IInv, CreatePosition PROVE WorkerAdvanced
<1>1. CASE Return(strat) /\ UNCHANGED pos
  BY <1>1, NothingWritten, Retried DEF CreatePosition, exchange, database
<1>2. CASE pos' = CreatedPosition(w.row, rows[w.row].qty) /\ Goto("settle")
  <2>1. BackedIn(rows, xord, w.row) /\ rows[w.row].qty \in Int
    <3>1. BackedIn(rows, xord, w.row) /\ rows \in Seq(RowI)
      BY DEF CreatePosition, IInv, WorkerIn, BookIn
    <3>2. rows[w.row] \in RowI
      BY <3>1 DEF BackedIn
    <3>3. QED
      BY <3>1, <3>2 DEF RowI
  <2>2. PositionIn(rows, xord, pos')
    BY <1>2, <2>1, CreatedIn DEF IInv
  <2>3. QED
    BY <1>2, <2>2, PositionWritten, Moved, Places DEF Fresh, CreatePosition, IInv
<1>3. QED
  BY <1>1, <1>2 DEF CreatePosition

(* The balance after a buy. *)
LEMMA SettleBalanceKept == ASSUME IInv, SettleBalance PROVE WorkerAdvanced
<1>1. Advanced /\ UNCHANGED <<rows, xord>> /\ hold \in Int
  BY PositionWritten DEF SettleBalance, IInv, exchange
<1>2. QED
  BY <1>1, Retried, BalanceIn, Places DEF Fresh, SettleBalance

(* The quantity-only update leaves the order of the position alone. *)
LEMMA SettleQuantityKept == ASSUME IInv, SettleQuantity PROVE WorkerAdvanced
<1>1. w.bal \in Int
  BY DEF IInv, WorkerIn, WorkerI
<1>2. PositionIn(rows, xord, pos')
  BY <1>1, QuantityIn, UpdatedIn DEF SettleQuantity, IInv
<1>3. QED
  BY <1>2, PositionWritten, Retried DEF SettleQuantity, IInv

(* A sale removes the position. *)
LEMMA ClosePositionKept == ASSUME IInv, ClosePosition PROVE WorkerAdvanced
<1>1. PositionIn(rows, xord, pos')
  BY NoPositionIn DEF ClosePosition, IInv
<1>2. QED
  BY <1>1, PositionWritten, Retried DEF ClosePosition, IInv

(* So does an empty balance. *)
LEMMA DropPositionKept == ASSUME IInv, DropPosition PROVE WorkerAdvanced
<1>1. PositionIn(rows, xord, pos')
  BY NoPositionIn DEF DropPosition, IInv
<1>2. QED
  BY <1>1, PositionWritten, Retried DEF DropPosition, IInv

(* The listed orders are on the exchange, and none has been picked. *)
LEMMA ListOpenOrdersKept == ASSUME IInv, ListOpenOrders PROVE WorkerAdvanced
<1>1. Advanced /\ rows' = rows /\ xord' = xord
  BY NothingWritten DEF ListOpenOrders, exchange, database
<1>2. CASE /\ w' = [w EXCEPT !.pc = "record", !.todo = {x \in DOMAIN xord : xord[x].status = "open"}]
           /\ UNCHANGED strat
  <2> DEFINE open == {x \in DOMAIN xord : xord[x].status = "open"}
  <2>1. open \subseteq Own(xord) /\ open \in SUBSET Nat
    BY DEF IInv, BookIn, OrderIn, Own
  <2>2. "record" \in WorkerSteps /\ w \in WorkerI /\ w.pc = "stops"
    BY DEF IInv, WorkerIn, ListOpenOrders, WorkerSteps
  <2> HIDE DEF open
  <2>3. /\ w' \in WorkerI /\ w'.pc = "record" /\ w'.todo = open /\ w'.pos = w.pos /\ w'.x = w.x
    BY <1>2, <2>1, <2>2 DEF WorkerI, open
  <2>4. WorkerIn(rows, xord, w')
    BY <2>1, <2>2, <2>3 DEF IInv, WorkerIn, Fresh
  <2>5. QED
    BY <1>1, <1>2, <2>4 DEF WorkerAdvanced, IInv
<1>3. QED
  BY <1>1, <1>2, GaveUp DEF ListOpenOrders

(* The least and the greatest place of a set. *)
LEMMA LessThan == \A a, b \in Nat : a < b => <<a, b>> \in OpToRel(<, Nat)
BY Z3 DEF OpToRel

(* The least place of a set of places is in it. *)
LEMMA MinPlace == ASSUME NEW S \in SUBSET Nat, S # {} PROVE Min(S) \in S
<1>1. PICK x \in S : \A y \in S : ~(<<y, x>> \in OpToRel(<, Nat))
  BY NatLessThanWellFounded, WFMin
<1>2. ASSUME NEW y \in S PROVE x <= y
  <2>1. x \in Nat /\ y \in Nat
    OBVIOUS
  <2>2. ~(y < x)
    BY <1>1, <2>1, LessThan
  <2>3. QED
    BY <2>1, <2>2
<1>3. QED
  BY <1>2 DEF Min

(* The greatest place of a bounded set of places is in it. *)
LEMMA MaxPlace == ASSUME NEW n \in Nat, NEW S \in SUBSET (1..n), S # {} PROVE Max(S) \in S
<1> DEFINE T == {n - x : x \in S}
<1>1. T \in SUBSET Nat /\ T # {}
  <2>1. \A x \in S : x \in 1..n /\ n - x \in Nat
    OBVIOUS
  <2>2. QED
    BY <2>1
<1>2. PICK t \in T : \A u \in T : ~(<<u, t>> \in OpToRel(<, Nat))
  BY <1>1, NatLessThanWellFounded, WFMin
<1>3. PICK x \in S : t = n - x
  BY <1>2
<1>4. ASSUME NEW y \in S PROVE y <= x
  <2>1. n - y \in T /\ n - y \in Nat /\ n - x \in Nat /\ x \in Int /\ y \in Int
    OBVIOUS
  <2>2. ~(n - y < n - x)
    BY <1>2, <1>3, <2>1, LessThan
  <2>3. QED
    BY <2>1, <2>2
<1>5. QED
  BY <1>4 DEF Max

(* Each listed order is stored; the one picked is a stop order. *)
LEMMA RecordOpenOrderKept == ASSUME IInv, RecordOpenOrder PROVE WorkerAdvanced
<1> DEFINE x == Min(w.todo)
<1>1. x \in w.todo /\ x \in Own(xord) /\ x \in 1..Len(xord) /\ xord[x].cid # Unnamed
  <2>1. w.todo \in SUBSET Nat /\ w.todo # {} /\ w.todo \subseteq Own(xord)
    BY DEF RecordOpenOrder, IInv, WorkerIn, BookIn, Own
  <2>2. QED
    BY <2>1, MinPlace DEF Own
<1>2. w \in WorkerI /\ w.pc = "record" /\ strat' = strat
  BY DEF IInv, WorkerIn, RecordOpenOrder
<1> HIDE DEF x
<1>3. CASE w' = [w EXCEPT !.todo = @ \ {x}] /\ UNCHANGED rows
  <2>1. Advanced /\ rows' = rows /\ xord' = xord
    BY <1>3, NothingWritten DEF RecordOpenOrder, exchange, database
  <2>2. WorkerIn(rows, xord, w')
    BY <1>2, <1>3 DEF IInv, WorkerIn, WorkerI, Fresh
  <2>3. QED
    BY <1>2, <2>1, <2>2 DEF WorkerAdvanced, IInv
<1>4. CASE /\ UpsertAllowed(rows, x, xord[x])
           /\ rows' = Upserted(rows, x, xord[x], "open")
           /\ w' = [w EXCEPT !.todo = @ \ {x},
                             !.x = IF @ = 0 /\ xord[x].kind = "stop" THEN x ELSE @]
  <2> xord[x] \in OrderI /\ OrderIn(rows, xord, x) /\ DOMAIN rows = 1..Len(rows)
    BY <1>1 DEF IInv, BookIn
  <2>0. Recorded(rows, x) \/ xord[x].cid = 0
    BY <1>1, <1>4 DEF UpsertAllowed, OrderIn
  <2>1. /\ BookIn(rows', xord) /\ Grown(rows, xord, rows', xord) /\ Unlinked(rows, rows')
    BY <1>1, <1>4, <2>0, UpsertedBook DEF IInv, Statuses, RowStatuses
  <2>2. Advanced /\ xord' = xord
    BY <2>1, RowsWritten DEF RecordOpenOrder, exchange
  <2>3. WorkerIn(rows', xord, w)
    BY <2>1, WorkerGrown DEF IInv
  <2>4. /\ w' \in WorkerI /\ w'.pc = "record" /\ w'.todo = w.todo \ {x} /\ w'.pos = w.pos
        /\ w'.x = w.x \/ (w'.x = x /\ xord[x].kind = "stop" /\ xord[x].cid = 0)
    <3>1. \E y \in {w.x, x} : /\ w' = [w EXCEPT !.todo = w.todo \ {x}, !.x = y]
                              /\ y = w.x \/ (xord[x].kind = "stop" /\ xord[x].cid = 0)
      BY <1>1, <1>4 DEF OrderIn
    <3>2. x \in Nat /\ w.todo \ {x} \in SUBSET Nat
      BY <1>1, <1>2 DEF WorkerI
    <3>3. PICK y \in Nat : /\ w' = [w EXCEPT !.todo = w.todo \ {x}, !.x = y]
                           /\ y = w.x \/ (y = x /\ xord[x].kind = "stop" /\ xord[x].cid = 0)
      BY <1>2, <3>1, <3>2 DEF WorkerI
    <3>4. w' \in WorkerI
      BY <1>2, <3>2, <3>3 DEF WorkerI
    <3>5. w'.pc = w.pc /\ w'.todo = w.todo \ {x} /\ w'.pos = w.pos /\ w'.x = y
      BY <1>2, <3>3 DEF WorkerI
    <3>6. QED
      BY <1>2, <3>3, <3>4, <3>5
  <2>5. WorkerIn(rows', xord, w')
    <3>1. /\ PositionIn(rows', xord, w'.pos) /\ w'.todo \subseteq Own(xord)
          /\ w'.x # 0 => w'.x \in 1..Len(xord) /\ xord[w'.x].kind = "stop" /\ xord[w'.x].cid = 0
      BY <1>1, <1>2, <2>3, <2>4 DEF WorkerIn
    <3>2. QED
      BY <2>4, <3>1 DEF WorkerIn, Fresh
  <2>6. QED
    BY <1>2, <2>2, <2>5 DEF WorkerAdvanced, IInv
<1>5. QED
  BY <1>3, <1>4 DEF RecordOpenOrder, x

(* The worker goes on to update the position it has read. *)
LEMMA FlaggedIn ==
    ASSUME NEW rs, NEW xs, NEW v, WorkerIn(rs, xs, v)
    PROVE  WorkerIn(rs, xs, [v EXCEPT !.pc = "raise", !.pos.sl = TRUE])
<1>1. v \in WorkerI /\ PositionIn(rs, xs, v.pos) /\ v.todo \subseteq Own(xs)
  BY DEF WorkerIn
<1>2. ASSUME NEW p, PositionIn(rs, xs, p)
      PROVE  PositionIn(rs, xs, [p EXCEPT !.sl = TRUE]) /\ [p EXCEPT !.sl = TRUE] \in PositionI
  BY <1>2 DEF PositionIn, PositionI
<1> DEFINE p == [v.pos EXCEPT !.sl = TRUE]
           u == [[v EXCEPT !.pc = "raise"] EXCEPT !.pos = p]
<1>3. PositionIn(rs, xs, p) /\ p \in PositionI /\ "raise" \in WorkerSteps
  BY <1>1, <1>2 DEF WorkerSteps
<1>4. u = [v EXCEPT !.pc = "raise", !.pos.sl = TRUE]
  BY <1>1 DEF WorkerI
<1> HIDE DEF p
<1>5. u \in WorkerI /\ u.pc = "raise" /\ u.pos = p /\ u.todo = v.todo
  BY <1>1, <1>3 DEF WorkerI
<1> HIDE DEF u
<1>6. WorkerIn(rs, xs, u)
  BY <1>1, <1>3, <1>5 DEF WorkerIn, Fresh
<1>7. QED
  BY <1>4, <1>6

(* Only a stop order is canceled. *)
LEMMA DecideOnStopKept == ASSUME IInv, DecideOnStop PROVE WorkerAdvanced
<1>1. Advanced /\ rows' = rows /\ xord' = xord
  BY NothingWritten DEF DecideOnStop, exchange, database
<1>2. CASE w' = [w EXCEPT !.pc = "raise", !.pos.sl = TRUE] /\ UNCHANGED strat
  BY <1>1, <1>2, FlaggedIn DEF WorkerAdvanced, IInv
<1>3. CASE w.x # 0 /\ Goto("cancel")
  <2>1. "cancel" \in WorkerSteps /\ w.pc = "record"
    BY DEF DecideOnStop, WorkerSteps
  <2>2. WorkerIn(rows, xord, w')
    BY <1>3, <2>1 DEF IInv, WorkerIn, WorkerI, Goto, Fresh
  <2>3. QED
    BY <1>1, <1>3, <2>2 DEF WorkerAdvanced, IInv, Goto
<1>4. QED
  BY <1>1, <1>2, <1>3, Moved, Retried, Places DEF Fresh, DecideOnStop

(* The stop order that was placed carries no client order id of a row. *)
LEMMA ArmStopKept == ASSUME IInv, ArmStop PROVE WorkerAdvanced
<1>1. CASE Return(strat) /\ UNCHANGED xord
  BY <1>1, NothingWritten, Retried DEF ArmStop, exchange, database
<1>2. CASE /\ xord' = Append(xord, [cid |-> 0, side |-> "sell", kind |-> "stop",
                                    qty |-> w.pos.qty, status |-> "open"])
           /\ \/ w' = [w EXCEPT !.pc = "stoprow", !.x = Len(xord) + 1] /\ UNCHANGED strat
              \/ Return(strat)
  <2> DEFINE o == [cid |-> 0, side |-> "sell", kind |-> "stop", qty |-> w.pos.qty, status |-> "open"]
  <2>1. w \in WorkerI /\ w.pc = "arm" /\ w.pos.qty \in Int /\ hold' \in Int
    BY DEF ArmStop, IInv, WorkerIn, PositionIn, PositionI
  <2>2. o \in OrderI /\ o.cid = 0 /\ o.kind = "stop"
    BY <2>1 DEF OrderI, Kinds, Sides
  <2>3. xord' = Append(xord, o)
    BY <1>2
  <2> HIDE DEF o
  <2>4. /\ BookIn(rows, xord') /\ Grown(rows, xord, rows, xord') /\ Unlinked(rows, rows)
        /\ Len(xord') = Len(xord) + 1 /\ xord'[Len(xord) + 1] = o
    BY <2>2, <2>3, AcceptedBook DEF IInv
  <2>5. Advanced /\ rows' = rows
    BY <2>1, <2>4, BookMoved DEF ArmStop, database
  <2>6. CASE w' = [w EXCEPT !.pc = "stoprow", !.x = Len(xord) + 1] /\ UNCHANGED strat
    <3>1. "stoprow" \in WorkerSteps /\ Len(xord) + 1 \in Nat /\ Len(xord) + 1 # 0
          /\ Len(xord) + 1 \in 1..Len(xord')
      BY <2>4 DEF IInv, BookIn, WorkerSteps
    <3>2. /\ w' \in WorkerI /\ w'.pc = "stoprow" /\ w'.x = Len(xord) + 1
          /\ w'.pos = w.pos /\ w'.todo = w.todo
      BY <2>1, <2>6, <3>1 DEF WorkerI
    <3>3. PositionIn(rows, xord', w'.pos) /\ w'.todo \subseteq Own(xord')
      <4>1. WorkerIn(rows, xord', w)
        BY <2>4, WorkerGrown DEF IInv
      <4>2. QED
        BY <3>2, <4>1 DEF WorkerIn
    <3>4. WorkerIn(rows, xord', w')
      BY <2>2, <2>4, <3>1, <3>2, <3>3 DEF WorkerIn, Fresh
    <3>5. QED
      BY <2>5, <2>6, <3>4 DEF WorkerAdvanced, IInv
  <2>7. QED
    BY <1>2, <2>5, <2>6, Retried
<1>3. QED
  BY <1>1, <1>2 DEF ArmStop

(* Its row is inserted with the id of the exchange. *)
LEMMA PersistStopKept == ASSUME IInv, PersistStop PROVE WorkerAdvanced
<1>1. CASE Return(strat) /\ UNCHANGED rows
  BY <1>1, NothingWritten, Retried DEF PersistStop, exchange, database
<1>2. CASE /\ rows' = Upserted(rows, w.x, xord[w.x], "open")
           /\ w' = [w EXCEPT !.pc = "raise", !.pos.sl = TRUE] /\ UNCHANGED strat
  <2>1. w.x \in 1..Len(xord) /\ xord[w.x].kind = "stop" /\ xord[w.x].cid = 0
    BY DEF PersistStop, IInv, WorkerIn
  <2>2. BookIn(rows', xord) /\ Grown(rows, xord, rows', xord) /\ Unlinked(rows, rows')
    BY <1>2, <2>1, UpsertedBook DEF IInv, Statuses, RowStatuses
  <2>3. Advanced /\ xord' = xord
    BY <2>2, RowsWritten DEF PersistStop, exchange
  <2>4. WorkerIn(rows', xord, w)
    BY <2>2, WorkerGrown DEF IInv
  <2>5. QED
    BY <1>2, <2>3, <2>4, FlaggedIn DEF WorkerAdvanced, IInv
<1>3. QED
  BY <1>1, <1>2 DEF PersistStop

(* The position as it was read at the start of the cycle is written back. *)
LEMMA RaisePositionKept == ASSUME IInv, RaisePosition PROVE WorkerAdvanced
<1>1. PositionIn(rows, xord, pos')
  BY UpdatedIn DEF RaisePosition, IInv, WorkerIn
<1>2. QED
  BY <1>1, PositionWritten, Retried DEF RaisePosition, IInv

(* An order is canceled, or is not open any more. *)
LEMMA CanceledBook ==
    ASSUME IInv, NEW x \in 1..Len(xord),
           IF xord[x].status = "open" THEN Settled(x, "canceled") ELSE UNCHANGED xord
    PROVE  BookIn(rows, xord') /\ Grown(rows, xord, rows, xord')
<1>1. CASE xord[x].status = "open"
  <2>1. Settled(x, "canceled") /\ xord[x].status # "closed" /\ BookIn(rows, xord)
    BY <1>1 DEF IInv
  <2>2. QED
    BY <2>1, SettledBook DEF Settled
<1>2. CASE xord[x].status # "open"
  BY <1>2, GrownRefl DEF IInv
<1>3. QED
  BY <1>1, <1>2

(* The exchange cancels an open stop order. *)
LEMMA CancelStopKept == ASSUME IInv, CancelStop PROVE WorkerAdvanced
<1>1. w.pc = "cancel" /\ w.x \in 1..Len(xord) /\ hold' \in Int /\ w \in WorkerI
  BY DEF CancelStop, IInv, WorkerIn
<1>2. CASE OnError /\ UNCHANGED xord
  BY <1>2, NothingWritten, GaveUp DEF CancelStop, exchange, database
<1>3. CASE /\ IF xord[w.x].status = "open" THEN Settled(w.x, "canceled") ELSE UNCHANGED xord
           /\ Goto("canceled") \/ OnError
  <2>1. BookIn(rows, xord') /\ Grown(rows, xord, rows, xord')
    BY <1>1, <1>3, CanceledBook
  <2>2. Advanced /\ Unlinked(rows, rows') /\ rows' = rows
    BY <1>1, <2>1, BookMoved DEF CancelStop, database
  <2>3. CASE Goto("canceled")
    <3>1. WorkerIn(rows, xord', w) /\ "canceled" \in WorkerSteps
      BY <2>1, <2>2, WorkerGrown DEF IInv, WorkerSteps
    <3>2. WorkerIn(rows, xord', w')
      BY <1>1, <2>3, <3>1 DEF WorkerIn, WorkerI, Goto, Fresh
    <3>3. QED
      BY <2>2, <2>3, <3>2 DEF WorkerAdvanced, IInv, Goto
  <2>4. QED
    BY <1>3, <2>2, <2>3, GaveUp
<1>4. QED
  BY <1>2, <1>3 DEF CancelStop

(* The order read back is stored under its row. *)
LEMMA StoreCanceledKept == ASSUME IInv, StoreCanceled PROVE WorkerAdvanced
<1>1. CASE OnError /\ UNCHANGED rows
  BY <1>1, NothingWritten, GaveUp DEF StoreCanceled, exchange, database
<1>2. CASE /\ rows' = Upserted(rows, w.x, xord[w.x], xord[w.x].status)
           /\ Return(Retry(strat)) \/ Goto("delete") \/ Goto("persist")
  <2>1. w.x \in 1..Len(xord) /\ xord[w.x].kind = "stop" /\ xord[w.x].cid = 0
        /\ xord[w.x] \in OrderI
    BY DEF StoreCanceled, IInv, WorkerIn, BookIn
  <2>2. xord[w.x].status \in Statuses
    BY <2>1 DEF OrderI, Statuses, RowStatuses
  <2>3. BookIn(rows', xord) /\ Grown(rows, xord, rows', xord)
    BY <1>2, <2>1, <2>2, UpsertedBook DEF IInv
  <2>4. Advanced
    BY <2>3, RowsWritten DEF StoreCanceled, exchange
  <2>5. QED
    BY <1>2, <2>4, Moved, Retried, Places DEF Fresh
<1>3. QED
  BY <1>1, <1>2 DEF StoreCanceled

(* The termination check only moves the worker. *)
LEMMA CheckTerminationKept == ASSUME IInv, CheckTermination PROVE WorkerAdvanced
<1>1. Advanced /\ rows' = rows /\ xord' = xord /\ strat' = strat
  BY NothingWritten DEF CheckTermination, exchange, database
<1>2. CASE w' = Idle
  <2>1. "none" \in Handlers /\ "stopped" \in WorkerSteps \ Bound
    BY Places DEF Handlers
  <2>2. WorkerIn(rows, xord, Idle)
    BY <2>1, IdleIn
  <2>3. QED
    BY <1>1, <1>2, <2>2 DEF WorkerAdvanced, IInv
<1>3. CASE w' = [w EXCEPT !.pc = "apply"]
  BY <1>1, <1>3, Moved, Places DEF Fresh, Goto
<1>4. QED
  BY <1>2, <1>3 DEF CheckTermination

(* ApplyStrategyDisable stops it. *)
LEMMA ApplyDisableKept == ASSUME IInv, ApplyDisable PROVE WorkerAdvanced
<1>1. Advanced /\ rows' = rows /\ xord' = xord /\ strat' = strat
  BY NothingWritten DEF ApplyDisable, exchange, database
<1>2. "none" \in Handlers /\ "stopped" \in WorkerSteps \ Bound
  BY Places DEF Handlers
<1>3. WorkerIn(rows, xord, Idle) /\ WorkerIn(rows, xord, [Idle EXCEPT !.pc = "stopped"])
  BY <1>2, IdleIn
<1>4. QED
  BY <1>1, <1>3 DEF WorkerAdvanced, IInv, ApplyDisable

(* Every step of the worker keeps the tables, the book and its locals       *)
(* consistent.                                                              *)
LEMMA WorkerStepKept == ASSUME IInv, WorkerStep PROVE WorkerAdvanced
BY TickKept, CheckPendingKept, LookupKept, GiveUpKept, CheckPositionKept, CheckOpenOrdersKept,
   CheckBalanceKept, PersistOrderKept, SendOrderKept, ConfirmOrderKept, CreatePositionKept,
   SettleBalanceKept, SettleQuantityKept, ClosePositionKept, DropPositionKept, ListOpenOrdersKept,
   RecordOpenOrderKept, DecideOnStopKept, ArmStopKept, PersistStopKept, RaisePositionKept,
   CancelStopKept, StoreCanceledKept, CheckTerminationKept, ApplyDisableKept
   DEF WorkerStep
----------------------------------------------------------------------------
(* The exchange, and a restart. *)
LEMMA Others ==
    ASSUME IInv, Advanced, Unlinked(rows, rows'), UNCHANGED <<strat, w>>
    PROVE  WorkerAdvanced
BY WorkerGrown DEF IInv, Advanced, WorkerAdvanced

(* The exchange settles an order of its own accord. *)
LEMMA SettledKept ==
    ASSUME IInv, NEW x \in 1..Len(xord), NEW s \in {"open", "closed", "canceled"}, xord[x].status # "closed",
           Settled(x, s), hold' \in Int, UNCHANGED database
    PROVE  Advanced /\ Unlinked(rows, rows')
<1>1. BookIn(rows, xord') /\ Grown(rows, xord, rows, xord')
  BY SettledBook DEF IInv, Settled
<1>2. QED
  BY <1>1, BookMoved

(* Fills, triggered stops, cancellations, late deliveries and trades of the *)
(* owner.                                                                   *)
LEMMA ExchangeKept == ASSUME IInv, Exchange PROVE WorkerAdvanced
<1> USE DEF Exchange
<1>1. ASSUME NEW x \in DOMAIN xord, Fill(x) \/ Trigger(x) \/ CancelOutside(x) \/ Deliver(x)
      PROVE  Advanced /\ Unlinked(rows, rows')
  <2>1. x \in 1..Len(xord) /\ xord[x] \in OrderI /\ hold \in Int
    BY DEF IInv, BookIn
  <2>2. xord[x].qty \in Int
    BY <2>1 DEF OrderI
  <2>3. \E s \in {"open", "closed", "canceled"} : Settled(x, s) /\ xord[x].status # "closed" /\ hold' \in Int
    <3>1. CASE Fill(x)
      BY <2>1, <2>2, <3>1 DEF Fill, Live
    <3>2. CASE Trigger(x)
      BY <2>1, <2>2, <3>2 DEF Trigger, Live
    <3>3. CASE CancelOutside(x)
      BY <2>1, <2>2, <3>3 DEF CancelOutside
    <3>4. CASE Deliver(x)
      BY <2>1, <2>2, <3>4 DEF Deliver
    <3>5. QED
      BY <1>1, <3>1, <3>2, <3>3, <3>4
  <2>4. QED
    BY <2>1, <2>3, SettledKept
<1>2. CASE ManualTrade
  <2>1. PICK side \in Sides, kind \in Kinds :
              xord' = Append(xord, [cid |-> Unnamed, side |-> side, kind |-> kind, qty |-> 1,
                                    status |-> "closed"])
    BY <1>2 DEF ManualTrade
  <2> DEFINE o == [cid |-> Unnamed, side |-> side, kind |-> kind, qty |-> 1, status |-> "closed"]
  <2>2. o \in OrderI /\ o.cid = Unnamed /\ o.status = "closed"
    BY DEF OrderI
  <2>3. xord' = Append(xord, o) /\ hold' \in Int
    BY <1>2, <2>1 DEF ManualTrade, IInv
  <2> HIDE DEF o
  <2>4. BookIn(rows, xord') /\ Grown(rows, xord, rows, xord')
    BY <2>2, <2>3, AcceptedBook DEF IInv
  <2>5. QED
    BY <2>3, <2>4, BookMoved, Others
<1>3. QED
  BY <1>1, <1>2, Others

(* A fresh worker has read nothing. *)
LEMMA RestartedKept == ASSUME IInv, Restarted PROVE WorkerAdvanced
<1>1. Advanced /\ rows' = rows /\ xord' = xord /\ w' = Idle
  BY NothingWritten DEF Restarted, exchange, database
<1>2. "none" \in Handlers /\ "stopped" \in WorkerSteps \ Bound
  BY Places DEF Handlers
<1>3. WorkerIn(rows, xord, Idle)
  BY <1>2, IdleIn
<1>4. strat' \in StrategyState
  BY DEF Restarted, Hydrated, StrategyState
<1>5. QED
  BY <1>1, <1>3, <1>4 DEF WorkerAdvanced

(* A step of the pair keeps the invariant. *)
LEMMA PairKept == ASSUME IInv, Pair PROVE IInv'
<1>1. ASSUME UpdateWorker \/ Manage PROVE WorkerAdvanced
  <2>1. UNCHANGED <<strat, w>> /\ UNCHANGED <<database, exchange>>
    BY <1>1 DEF UpdateWorker, Manage, RequestDisable, EnableStrategy
  <2>2. QED
    BY <2>1, NothingWritten, Others
<1>2. ASSUME StartWorker PROVE WorkerAdvanced
  BY <1>2, RestartedKept DEF StartWorker
<1>3. WorkerAdvanced
  BY <1>1, <1>2, WorkerStepKept, ExchangeKept DEF Pair
<1>4. QED
  BY <1>3, WorkerKept DEF Pair

(* A task that is idle has read nothing. *)
LEMMA TasksIdle ==
    ASSUME NEW rs, NEW xs
    PROVE  OrdersIn(rs, xs, OrdersIdle) /\ PositionsIn(rs, xs, PositionsIdle) /\ StopsIn(rs, xs, StopsIdle)
<1>1. OrdersIn(rs, xs, OrdersIdle)
  BY DEF OrdersIn, OrdersI, OrdersIdle
<1>2. PositionsIn(rs, xs, PositionsIdle)
  BY NoPositionIn DEF PositionsIn, PositionsI, PositionsIdle, PositionIn
<1>3. StopsIn(rs, xs, StopsIdle)
  BY NoPositionIn DEF StopsIn, StopsI, StopsIdle, PositionIn
<1>4. QED
  BY <1>1, <1>2, <1>3

(* A restart keeps the tables and the book and clears every local. *)
LEMMA CrashKept == ASSUME IInv, Crash PROVE IInv'
<1>1. WorkerAdvanced
  BY RestartedKept DEF Crash, CrashWorker
<1>2. QED
  BY <1>1, TasksIdle DEF IInv, WorkerAdvanced, Advanced, Crash
----------------------------------------------------------------------------
(* The tasks. *)
LEMMA TaskKept ==
    ASSUME IInv, Advanced, Unlinked(rows, rows'), UNCHANGED <<strat, w>>
    PROVE  /\ OrdersIn(rows', xord', so') /\ UNCHANGED <<sp, ss>> => IInv'
           /\ PositionsIn(rows', xord', sp') /\ UNCHANGED <<so, ss>> => IInv'
           /\ StopsIn(rows', xord', ss') /\ UNCHANGED <<so, sp>> => IInv'
<1>1. WorkerIn(rows', xord', w) /\ strat \in StrategyState
  BY WorkerGrown DEF IInv, Advanced
<1>2. /\ OrdersIn(rows', xord', so) /\ PositionsIn(rows', xord', sp) /\ StopsIn(rows', xord', ss)
  BY TasksGrown DEF IInv, Advanced
<1>3. QED
  BY <1>1, <1>2 DEF IInv, Advanced

(* SyncOrders goes on with linked market orders only. *)
LEMMA OrdersNextIn ==
    ASSUME NEW rs, NEW xs, BookIn(rs, xs), NEW todo, OrdersNext(todo),
           todo \subseteq {r \in 1..Len(rs) : rs[r].xid # 0 /\ rs[r].kind = "market"}
    PROVE  OrdersIn(rs, xs, so')
<1>1. todo \in SUBSET Nat
  BY DEF BookIn
<1>2. CASE todo = {}
  BY <1>2, TasksIdle DEF OrdersNext
<1>3. CASE todo # {}
  <2>1. so' = [pc |-> "fetch", todo |-> todo, row |-> 0, bal |-> 0]
    BY <1>3 DEF OrdersNext, OrdersIdle
  <2>2. so' \in OrdersI /\ so'.pc = "fetch" /\ so'.todo = todo
    BY <1>1, <2>1 DEF OrdersI
  <2>3. QED
    BY <1>3, <2>2 DEF OrdersIn
<1>4. QED
  BY <1>2, <1>3

(* The rows that SyncOrders selects. *)
LEMMA OrdersStartKept == ASSUME IInv, OrdersStart PROVE IInv'
<1> DEFINE open == {r \in Select(rows, {"new", "open"}, {"market"}, Sides) : rows[r].xid # 0}
<1>1. open \subseteq {r \in 1..Len(rows) : rows[r].xid # 0 /\ rows[r].kind = "market"}
  BY DEF Select, IInv, BookIn
<1>2. open # {} /\ so' = [OrdersIdle EXCEPT !.pc = "fetch", !.todo = open]
  BY DEF OrdersStart
<1> HIDE DEF open
<1>3. OrdersIn(rows, xord, so')
  <2>1. OrdersNext(open)
    BY <1>2 DEF OrdersNext
  <2>2. QED
    BY <1>1, <2>1, OrdersNextIn DEF IInv
<1>4. UNCHANGED <<database, exchange>> /\ UNCHANGED <<strat, w, sp, ss>>
  BY DEF OrdersStart, pairVars, database, exchange
<1>5. QED
  BY <1>3, <1>4, NothingWritten, TaskKept DEF database, exchange

(* A buy order that the exchange reports as closed backs a position. *)
LEMMA OrdersFetchKept == ASSUME IInv, OrdersFetch PROVE IInv'
<1> DEFINE Market == {r \in 1..Len(rows) : rows[r].xid # 0 /\ rows[r].kind = "market"}
           r == Max(so.todo)
           x == rows[r].xid
<1>1. so \in OrdersI /\ so.todo \subseteq Market /\ so.todo # {} /\ Len(rows) \in Nat
      /\ BookIn(rows, xord) /\ so.pc = "fetch" /\ UNCHANGED <<strat, w, sp, ss>>
  BY DEF OrdersFetch, IInv, OrdersIn, BookIn
<1>2. r \in so.todo /\ r \in Market
  <2>1. so.todo \in SUBSET (1..Len(rows))
    BY <1>1
  <2>2. r \in so.todo
    BY <1>1, <2>1, MaxPlace
  <2>3. QED
    BY <1>1, <2>2
<1>3. /\ x \in 1..Len(xord) /\ xord[x] \in OrderI
      /\ xord[x].side = rows[r].side
  BY <1>1, <1>2 DEF BookIn, LinkIn
<1> HIDE DEF r, x
<1>4. xord[x].status \in Statuses
  BY <1>3 DEF OrderI, Statuses, RowStatuses
<1>5. CASE UNCHANGED rows /\ OrdersNext(so.todo \ {r})
  <2>1. OrdersIn(rows, xord, so')
    BY <1>1, <1>5, OrdersNextIn
  <2>2. QED
    BY <1>1, <1>5, <2>1, NothingWritten, TaskKept DEF OrdersFetch, database, exchange
<1>6. CASE /\ rows' = Upserted(rows, x, xord[x], xord[x].status)
           /\ IF xord[x].side = "buy" /\ xord[x].status = "closed"
              THEN so' = [so EXCEPT !.pc = "create", !.todo = @ \ {r}, !.row = r]
              ELSE OrdersNext(so.todo \ {r})
  <2>1. Recorded(rows, x)
    BY <1>1, <1>2 DEF Recorded, BookIn, x
  <2>2. BookIn(rows', xord) /\ Grown(rows, xord, rows', xord) /\ Unlinked(rows, rows')
    BY <1>1, <1>3, <1>4, <1>6, <2>1, UpsertedBook
  <2>3. Advanced /\ xord' = xord
    BY <2>2, RowsWritten DEF OrdersFetch, exchange
  <2> DEFINE Market1 == {i \in 1..Len(rows') : rows'[i].xid # 0 /\ rows'[i].kind = "market"}
  <2>4. so.todo \ {r} \subseteq Market1
    <3>1. ASSUME NEW i \in so.todo \ {r} PROVE i \in Market1
      <4>1. i \in 1..Len(rows) /\ rows[i].xid # 0 /\ rows[i].kind = "market"
        BY <1>1
      <4>2. /\ Len(rows) \in Nat /\ Len(rows') \in Nat /\ Len(rows) <= Len(rows')
            /\ rows'[i].kind = rows[i].kind /\ rows'[i].xid = rows[i].xid
        BY <1>1, <2>2, <4>1 DEF Grown, BookIn
      <4>3. QED
        BY <4>1, <4>2
    <3>2. QED
      BY <3>1
  <2>5. CASE OrdersNext(so.todo \ {r})
    <3>1. OrdersIn(rows', xord', so')
      BY <2>2, <2>3, <2>4, <2>5, OrdersNextIn
    <3>2. QED
      BY <1>1, <2>2, <2>3, <3>1, TaskKept
  <2>6. CASE /\ xord[x].side = "buy" /\ xord[x].status = "closed"
             /\ so' = [so EXCEPT !.pc = "create", !.todo = @ \ {r}, !.row = r]
    <3>1. BackedIn(rows', xord, r)
      <4>1. rows'[r].xid = x /\ rows'[r].side = "buy" /\ rows'[r].kind = "market"
            /\ r \in 1..Len(rows')
        <5>1. /\ r \in 1..Len(rows) /\ rows[r].kind = "market" /\ rows[r].side = "buy"
              /\ rows[r].xid = x /\ x # 0
          BY <1>2, <1>3, <2>6 DEF x
        <5>2. rows'[r].xid = rows[r].xid /\ rows'[r].side = rows[r].side /\ rows'[r].kind = rows[r].kind
          BY <2>2, <5>1 DEF Grown
        <5>3. r \in 1..Len(rows')
          BY <2>2, <5>1 DEF Grown, BookIn
        <5>4. QED
          BY <5>1, <5>2, <5>3
      <4>2. QED
        BY <1>3, <2>6, <4>1 DEF BackedIn
    <3>2. so' \in OrdersI /\ so'.pc = "create" /\ so'.todo = so.todo \ {r} /\ so'.row = r
      BY <1>1, <1>2, <2>6 DEF OrdersI
    <3>3. OrdersIn(rows', xord', so')
      BY <2>3, <2>4, <3>1, <3>2 DEF OrdersIn
    <3>4. QED
      BY <1>1, <2>2, <2>3, <3>3, TaskKept
  <2>7. QED
    BY <1>6, <2>5, <2>6
<1>7. QED
  BY <1>5, <1>6 DEF OrdersFetch, r, x

(* The position is created for that row. *)
LEMMA OrdersCreateKept == ASSUME IInv, OrdersCreate PROVE IInv'
<1>1. so \in OrdersI /\ so.pc = "create" /\ BackedIn(rows, xord, so.row) /\ BookIn(rows, xord)
      /\ UNCHANGED <<strat, w, sp, ss>> /\ UNCHANGED <<rows, exchange>> /\ wallet' \in Int
  BY DEF OrdersCreate, IInv, OrdersIn
<1>2. OrdersIn(rows, xord, so')
  <2>1. CASE so' = [so EXCEPT !.pc = "balance"]
    BY <1>1, <2>1 DEF IInv, OrdersIn, OrdersI
  <2>2. CASE OrdersNext(so.todo)
    BY <1>1, <2>2, OrdersNextIn DEF IInv, OrdersIn
  <2>3. QED
    BY <2>1, <2>2 DEF OrdersCreate
<1>3. PositionIn(rows, xord, pos')
  <2>1. rows[so.row] \in RowI
    BY <1>1 DEF BackedIn, BookIn
  <2>2. rows[so.row].qty \in Int
    BY <2>1 DEF RowI
  <2>3. PositionIn(rows, xord, CreatedPosition(so.row, rows[so.row].qty))
    BY <1>1, <2>2, CreatedIn
  <2>4. QED
    BY <2>3 DEF OrdersCreate, IInv
<1>4. QED
  BY <1>1, <1>2, <1>3, PositionWritten, TaskKept DEF exchange

(* The balance after the fill. *)
LEMMA OrdersBalanceKept == ASSUME IInv, OrdersBalance PROVE IInv'
<1>1. so \in OrdersI /\ so.pc = "balance" /\ BookIn(rows, xord) /\ hold \in Int
      /\ UNCHANGED <<strat, w, sp, ss>> /\ UNCHANGED <<rows, exchange>> /\ wallet' \in Int
      /\ PositionIn(rows, xord, pos')
  BY DEF OrdersBalance, IInv, OrdersIn
<1>2. OrdersIn(rows, xord, so')
  <2>1. CASE so' = [so EXCEPT !.pc = "quantity", !.bal = hold]
    BY <1>1, <2>1 DEF IInv, OrdersIn, OrdersI
  <2>2. CASE OrdersNext(so.todo)
    BY <1>1, <2>2, OrdersNextIn DEF IInv, OrdersIn
  <2>3. QED
    BY <2>1, <2>2 DEF OrdersBalance
<1>3. QED
  BY <1>1, <1>2, PositionWritten, TaskKept DEF exchange

(* The quantity-only update after it. *)
LEMMA OrdersQuantityKept == ASSUME IInv, OrdersQuantity PROVE IInv'
<1>1. so \in OrdersI /\ BookIn(rows, xord) /\ so.bal \in Int /\ OrdersNext(so.todo)
      /\ UNCHANGED <<strat, w, sp, ss>> /\ UNCHANGED <<rows, exchange>> /\ wallet' \in Int
  BY DEF OrdersQuantity, IInv, OrdersIn, OrdersI
<1>2. OrdersIn(rows, xord, so')
  BY <1>1, OrdersNextIn DEF IInv, OrdersIn
<1>3. PositionIn(rows, xord, pos')
  BY <1>1, QuantityIn, UpdatedIn DEF OrdersQuantity, IInv
<1>4. QED
  BY <1>1, <1>2, <1>3, PositionWritten, TaskKept DEF exchange

(* SyncPositions starts with the wallet. *)
LEMMA PositionsStartKept == ASSUME IInv, PositionsStart PROVE IInv'
<1>1. wallet' \in Int /\ PositionIn(rows, xord, pos') /\ UNCHANGED <<rows, exchange>>
      /\ UNCHANGED <<strat, w, so, ss>>
  BY DEF PositionsStart, IInv
<1>2. sp' = [pc |-> "read", pos |-> NoPosition, wallet |-> 0]
  BY DEF PositionsStart, PositionsIdle
<1>3. NoPosition \in PositionI
  BY NoPositionIn DEF PositionIn
<1>4. PositionsIn(rows, xord, sp')
  BY <1>2, <1>3, NoPositionIn DEF PositionsIn, PositionsI
<1>5. QED
  BY <1>1, <1>4, PositionWritten, TaskKept DEF exchange

(* What SyncPositions reads goes into its locals. *)
LEMMA PositionsReadsKept ==
    ASSUME IInv, PositionsRead \/ PositionsWallet \/ PositionsPairs \/ PositionsOrders PROVE IInv'
<1>1. /\ PositionIn(rows, xord, pos) /\ PositionIn(rows, xord, sp.pos)
      /\ pos \in PositionI /\ sp \in PositionsI /\ wallet \in Int
      /\ PositionsIn(rows, xord, PositionsIdle)
  BY TasksIdle DEF IInv, PositionsIn, PositionIn
<1>2. ASSUME NEW p \in {"wallet", "delete", "adjust", "pairs", "orders", "adopt"},
             \/ sp' = [sp EXCEPT !.pc = p]
             \/ sp' = [sp EXCEPT !.pc = p, !.pos = pos]
             \/ sp' = [sp EXCEPT !.pc = p, !.wallet = wallet]
      PROVE  PositionsIn(rows, xord, sp')
  <2>1. sp' \in PositionsI /\ sp'.pos \in {pos, sp.pos}
    BY <1>1, <1>2 DEF PositionsI
  <2>2. QED
    BY <1>1, <2>1 DEF PositionsIn
<1>3. PositionsIn(rows, xord, sp')
  <2>1. CASE PositionsRead
    BY <1>1, <1>2, <2>1 DEF PositionsRead
  <2>2. CASE PositionsWallet
    BY <1>1, <1>2, <2>2 DEF PositionsWallet
  <2>3. CASE PositionsPairs
    BY <1>1, <1>2, <2>3 DEF PositionsPairs
  <2>4. CASE PositionsOrders
    BY <1>1, <1>2, <2>4 DEF PositionsOrders
  <2>5. QED
    BY <2>1, <2>2, <2>3, <2>4
<1>4. UNCHANGED <<database, exchange>> /\ UNCHANGED <<strat, w, so, ss>>
  BY DEF PositionsRead, PositionsWallet, PositionsPairs, PositionsOrders, pairVars, database, exchange
<1>5. QED
  BY <1>3, <1>4, NothingWritten, TaskKept DEF database, exchange

(* It removes, adjusts or adopts: an adjusted position is the one it has    *)
(* read, an adopted one has no order.                                       *)
LEMMA PositionsWritesKept ==
    ASSUME IInv, PositionsDelete \/ PositionsAdjust \/ PositionsAdopt PROVE IInv'
<1>1. /\ PositionsIn(rows, xord, PositionsIdle)
      /\ sp' = PositionsIdle /\ UNCHANGED <<strat, w, so, ss>> /\ UNCHANGED <<rows, exchange>>
      /\ wallet' \in Int
  BY TasksIdle DEF IInv, PositionsDelete, PositionsAdjust, PositionsAdopt
<1>2. /\ PositionIn(rows, xord, pos) /\ PositionIn(rows, xord, sp.pos) /\ sp.wallet \in Int
      /\ BookIn(rows, xord)
  BY DEF IInv, PositionsIn, PositionsI
<1>3. ASSUME PositionsDelete PROVE PositionIn(rows, xord, pos')
  BY <1>2, <1>3, NoPositionIn DEF PositionsDelete
<1>4. ASSUME PositionsAdjust PROVE PositionIn(rows, xord, pos')
  <2> DEFINE u == [sp.pos EXCEPT !.qty = sp.wallet, !.sl = FALSE]
  <2>1. PositionIn(rows, xord, u)
    BY <1>2, AdjustedIn
  <2>2. pos' = pos \/ (UpdateAllowed(pos, u) /\ pos' = UpdatedPosition(pos, u))
    BY <1>4 DEF PositionsAdjust
  <2> HIDE DEF u
  <2>3. QED
    BY <1>2, <2>1, <2>2, UpdatedIn
<1>5. ASSUME PositionsAdopt PROVE PositionIn(rows, xord, pos')
  BY <1>2, <1>5, CreatedIn DEF PositionsAdopt
<1>6. PositionIn(rows, xord, pos')
  BY <1>3, <1>4, <1>5
<1>7. QED
  BY <1>1, <1>6, PositionWritten, TaskKept DEF exchange

(* SyncStopOrders starts with the wallet. *)
LEMMA StopsStartKept == ASSUME IInv, StopsStart PROVE IInv'
<1>1. wallet' \in Int /\ PositionIn(rows, xord, pos') /\ UNCHANGED <<rows, exchange>>
      /\ UNCHANGED <<strat, w, so, sp>>
  BY DEF StopsStart, IInv
<1>2. StopsIdle \in StopsI /\ StopsIdle.pos = NoPosition /\ StopsIdle.todo = {}
  <2>1. NoPosition \in PositionI
    BY NoPositionIn DEF PositionIn
  <2>2. QED
    BY <2>1 DEF StopsI, StopsIdle
<1>3. ss' \in StopsI /\ ss'.pc = "read" /\ ss'.pos = NoPosition /\ ss'.todo = {}
  BY <1>2 DEF StopsI, StopsStart
<1>4. StopsIn(rows, xord, ss')
  BY <1>3, NoPositionIn DEF StopsIn
<1>5. QED
  BY <1>1, <1>4, PositionWritten, TaskKept DEF exchange

StopRows(rs) == {r \in 1..Len(rs) : rs[r].xid # 0 /\ rs[r].kind = "stop"}

(* It reads the position, the balance and the rows of stop orders. *)
LEMMA StopsReadsKept ==
    ASSUME IInv, StopsRead \/ StopsWallet \/ StopsRows PROVE IInv'
<1>1. /\ ss \in StopsI /\ PositionIn(rows, xord, ss.pos) /\ ss.todo \subseteq StopRows(rows)
      /\ pos \in PositionI /\ PositionIn(rows, xord, pos) /\ wallet \in Int
      /\ StopsIn(rows, xord, StopsIdle)
  BY TasksIdle DEF IInv, StopsIn, PositionIn, StopRows
<1>2. ASSUME StopsRead PROVE StopsIn(rows, xord, ss')
  <2>1. CASE ss' = [ss EXCEPT !.pc = "wallet", !.pos = pos]
    <3>1. ss' \in StopsI /\ ss'.pc = "wallet" /\ ss'.pos = pos /\ ss'.todo = ss.todo
      BY <1>1, <2>1 DEF StopsI
    <3>2. QED
      BY <1>1, <3>1 DEF StopsIn, StopRows
  <2>2. QED
    BY <1>1, <1>2, <2>1 DEF StopsRead
<1>3. ASSUME StopsWallet PROVE StopsIn(rows, xord, ss')
  <2>1. CASE ss' = [ss EXCEPT !.pc = "rows", !.wallet = wallet]
    <3>1. ss' \in StopsI /\ ss'.pc = "rows" /\ ss'.pos = ss.pos /\ ss'.todo = ss.todo
      BY <1>1, <2>1 DEF StopsI
    <3>2. QED
      BY <1>1, <3>1 DEF StopsIn, StopRows
  <2>2. QED
    BY <1>1, <1>3, <2>1 DEF StopsWallet
<1>4. ASSUME StopsRows PROVE StopsIn(rows, xord, ss')
  <2> DEFINE open == {r \in Select(rows, {"new", "open"}, {"stop"}, {"sell"}) : rows[r].xid # 0}
  <2>1. open \subseteq StopRows(rows) /\ open \in SUBSET Nat
    BY DEF Select, IInv, BookIn, StopRows
  <2>2. CASE ss' = [ss EXCEPT !.pc = "next", !.todo = open]
    <3> HIDE DEF open
    <3>1. ss' \in StopsI /\ ss'.pc = "next" /\ ss'.pos = ss.pos /\ ss'.todo = open
      BY <1>1, <2>1, <2>2 DEF StopsI
    <3>2. QED
      BY <1>1, <2>1, <3>1 DEF StopsIn, StopRows
  <2>3. QED
    BY <1>1, <1>4, <2>2 DEF StopsRows
<1>5. UNCHANGED <<database, exchange>> /\ UNCHANGED <<strat, w, so, sp>>
  BY DEF StopsRead, StopsWallet, StopsRows, pairVars, database, exchange
<1>6. StopsIn(rows, xord, ss')
  BY <1>2, <1>3, <1>4
<1>7. QED
  BY <1>5, <1>6, NothingWritten, TaskKept DEF database, exchange

(* The next row of the loop, and its order on the exchange. *)
LEMMA StopsNextRow ==
    ASSUME IInv, ss.todo # {}
    PROVE  /\ Max(ss.todo) \in ss.todo
           /\ rows[Max(ss.todo)].xid \in 1..Len(xord)
           /\ xord[rows[Max(ss.todo)].xid].kind = "stop" /\ xord[rows[Max(ss.todo)].xid].cid = 0
<1> DEFINE r == Max(ss.todo)
<1>1. ss.todo \in SUBSET (1..Len(rows)) /\ Len(rows) \in Nat
  BY DEF IInv, StopsIn, BookIn
<1>2. r \in ss.todo
  BY <1>1, MaxPlace
<1>3. r \in 1..Len(rows) /\ rows[r].xid # 0 /\ rows[r].kind = "stop"
  BY <1>2 DEF IInv, StopsIn
<1>4. LinkIn(rows, xord, r)
  BY <1>3 DEF IInv, BookIn
<1> HIDE DEF r
<1>5. rows[r].xid \in 1..Len(xord) /\ xord[rows[r].xid].kind = "stop" /\ xord[rows[r].xid].cid = 0
  BY <1>3, <1>4 DEF LinkIn
<1>6. QED
  BY <1>2, <1>5 DEF r

(* A step of the loop goes on, or to the order it has fetched. *)
LEMMA StopsLooped ==
    ASSUME NEW rs, NEW xs, StopsIn(rs, xs, ss), NEW todo \in SUBSET ss.todo, ss' \in StopsI,
           ss'.pos = ss.pos, ss'.todo = todo,
           \/ ss'.pc = "next"
           \/ /\ ss'.pc \in {"latest", "cancel", "store"} /\ todo # {}
              /\ ss'.x \in 1..Len(xs) /\ xs[ss'.x].kind = "stop" /\ xs[ss'.x].cid = 0
    PROVE  StopsIn(rs, xs, ss')
BY DEF StopsIn

(* The status of the next stop order is stored under its row. *)
LEMMA StopsFetchKept == ASSUME IInv, StopsFetch PROVE IInv'
<1> DEFINE r == Max(ss.todo)
           x == rows[r].xid
<1>1. /\ r \in ss.todo /\ x \in 1..Len(xord) /\ xord[x].kind = "stop" /\ xord[x].cid = 0
      /\ BookIn(rows, xord) /\ StopsIn(rows, xord, ss)
  BY StopsNextRow DEF StopsFetch, IInv
<1>2. ss \in StopsI /\ ss.pc = "next" /\ x \in Nat /\ ss.todo # {} /\ UNCHANGED <<strat, w, so, sp>>
  BY <1>1 DEF StopsFetch, StopsIn
<1> HIDE DEF r, x
<1>3. CASE ss' = [ss EXCEPT !.todo = @ \ {r}] /\ UNCHANGED rows
  <2>1. ss' \in StopsI /\ ss'.pc = "next" /\ ss'.pos = ss.pos /\ ss'.todo = ss.todo \ {r}
    BY <1>2, <1>3 DEF StopsI
  <2>2. StopsIn(rows, xord, ss')
    BY <1>1, <2>1, StopsLooped
  <2>3. QED
    BY <1>2, <1>3, <2>2, NothingWritten, TaskKept DEF StopsFetch, database, exchange
<1>4. CASE /\ rows' = Upserted(rows, x, xord[x], xord[x].status)
           /\ ss' = IF xord[x].status # "open" THEN [ss EXCEPT !.todo = @ \ {r}]
                    ELSE [ss EXCEPT !.protected = TRUE, !.x = x,
                            !.pc = IF ss.pos.st = "none" THEN "cancel" ELSE "latest"]
  <2>1. xord[x].status \in Statuses
    <3>1. xord[x] \in OrderI
      BY <1>1 DEF BookIn
    <3>2. QED
      BY <3>1 DEF OrderI, Statuses, RowStatuses
  <2>2. BookIn(rows', xord) /\ Grown(rows, xord, rows', xord) /\ Unlinked(rows, rows')
    BY <1>1, <1>4, <2>1, UpsertedBook
  <2>3. Advanced /\ xord' = xord
    BY <2>2, RowsWritten DEF StopsFetch, exchange
  <2>4. StopsIn(rows', xord, ss)
    BY <1>1, <2>2, TasksGrown
  <2>5. CASE ss' = [ss EXCEPT !.todo = @ \ {r}]
    <3>1. ss' \in StopsI /\ ss'.pc = "next" /\ ss'.pos = ss.pos /\ ss'.todo = ss.todo \ {r}
      BY <1>2, <2>5 DEF StopsI
    <3>2. QED
      BY <1>2, <2>2, <2>3, <2>4, <3>1, StopsLooped, TaskKept
  <2>6. ASSUME NEW p \in {"cancel", "latest"}, ss' = [ss EXCEPT !.protected = TRUE, !.x = x, !.pc = p]
        PROVE  IInv'
    <3>1. ss' \in StopsI /\ ss'.pc = p /\ ss'.pos = ss.pos /\ ss'.todo = ss.todo /\ ss'.x = x
      BY <1>2, <2>6 DEF StopsI
    <3>2. StopsIn(rows', xord, ss')
      BY <1>1, <1>2, <2>4, <3>1, StopsLooped
    <3>3. QED
      BY <1>2, <2>2, <2>3, <3>2, TaskKept
  <2>7. QED
    BY <1>4, <2>5, <2>6
<1>5. QED
  BY <1>3, <1>4 DEF StopsFetch, r, x

(* The order it holds on to is a stop order. *)
LEMMA StopsLatestKept == ASSUME IInv, StopsLatest PROVE IInv'
<1>1. /\ ss \in StopsI /\ StopsIn(rows, xord, ss) /\ ss.pc = "latest"
      /\ ss.todo # {} /\ ss.x \in 1..Len(xord) /\ xord[ss.x].kind = "stop" /\ xord[ss.x].cid = 0
      /\ UNCHANGED <<strat, w, so, sp>> /\ UNCHANGED <<database, exchange>>
  BY DEF StopsLatest, IInv, StopsIn, pairVars, database, exchange
<1> DEFINE r == Max(ss.todo)
<1> HIDE DEF r
<1>2. \/ ss' = [ss EXCEPT !.pc = "cancel"]
      \/ ss' = [ss EXCEPT !.pc = "next", !.todo = @ \ {r}, !.x = 0]
  BY DEF StopsLatest, r
<1>3. /\ ss' \in StopsI /\ ss'.pos = ss.pos
      /\ \/ ss'.pc = "cancel" /\ ss'.todo = ss.todo /\ ss'.x = ss.x
         \/ ss'.pc = "next" /\ ss'.todo = ss.todo \ {r}
  <2>1. CASE ss' = [ss EXCEPT !.pc = "cancel"]
    BY <1>1, <2>1 DEF StopsI
  <2>2. CASE ss' = [ss EXCEPT !.pc = "next", !.todo = @ \ {r}, !.x = 0]
    BY <1>1, <2>2 DEF StopsI
  <2>3. QED
    BY <1>2, <2>1, <2>2
<1>4. StopsIn(rows, xord, ss')
  <2>1. CASE ss'.pc = "cancel" /\ ss'.todo = ss.todo /\ ss'.x = ss.x
    BY <1>1, <1>3, <2>1, StopsLooped
  <2>2. CASE ss'.pc = "next" /\ ss'.todo = ss.todo \ {r}
    BY <1>1, <1>3, <2>2, StopsLooped
  <2>3. QED
    BY <1>3, <2>1, <2>2
<1>5. QED
  BY <1>1, <1>4, NothingWritten, TaskKept DEF database, exchange

(* The loop goes on without the order. *)
LEMMA DroppedIn ==
    ASSUME NEW rs, NEW xs, StopsIn(rs, xs, ss), StopsDropped PROVE StopsIn(rs, xs, ss')
<1> DEFINE r == Max(ss.todo)
<1> HIDE DEF r
<1>1. ss' = [ss EXCEPT !.pc = "next", !.todo = @ \ {r}, !.x = 0, !.protected = FALSE] /\ ss \in StopsI
  BY DEF StopsDropped, StopsIn, r
<1>2. ss' \in StopsI /\ ss'.pc = "next" /\ ss'.pos = ss.pos /\ ss'.todo = ss.todo \ {r}
  BY <1>1 DEF StopsI
<1>3. QED
  BY <1>2, StopsLooped

(* A stop order of an earlier position is canceled. *)
LEMMA StopsCancelKept == ASSUME IInv, StopsCancel PROVE IInv'
<1>1. /\ ss \in StopsI /\ StopsIn(rows, xord, ss) /\ ss.pc = "cancel" /\ hold' \in Int
      /\ ss.todo # {} /\ ss.x \in 1..Len(xord) /\ xord[ss.x].kind = "stop" /\ xord[ss.x].cid = 0
      /\ UNCHANGED <<strat, w, so, sp>> /\ UNCHANGED database
  BY DEF StopsCancel, IInv, StopsIn
<1>2. CASE StopsDropped /\ UNCHANGED xord
  BY <1>1, <1>2, DroppedIn, NothingWritten, TaskKept DEF StopsCancel, database, exchange
<1>3. CASE /\ IF xord[ss.x].status = "open" THEN Settled(ss.x, "canceled") ELSE UNCHANGED xord
           /\ ss' = [ss EXCEPT !.pc = "store"] \/ StopsDropped
  <2>1. BookIn(rows, xord') /\ Grown(rows, xord, rows, xord')
    BY <1>1, <1>3, CanceledBook
  <2>2. Advanced /\ Unlinked(rows, rows') /\ rows' = rows
    BY <1>1, <2>1, BookMoved DEF database
  <2>3. StopsIn(rows, xord', ss)
    BY <1>1, <2>1, TasksGrown DEF IInv
  <2>4. CASE ss' = [ss EXCEPT !.pc = "store"]
    <3>1. ss' \in StopsI /\ ss'.pc = "store" /\ ss'.pos = ss.pos /\ ss'.todo = ss.todo /\ ss'.x = ss.x
      BY <1>1, <2>4 DEF StopsI
    <3>2. ss.x \in 1..Len(xord') /\ xord'[ss.x].kind = "stop" /\ xord'[ss.x].cid = 0
      BY <1>1, <2>3 DEF StopsIn
    <3>3. StopsIn(rows, xord', ss')
      BY <1>1, <2>3, <3>1, <3>2, StopsLooped
    <3>4. QED
      BY <1>1, <2>2, <3>3, TaskKept
  <2>5. CASE StopsDropped
    BY <1>1, <2>2, <2>3, <2>5, DroppedIn, TaskKept
  <2>6. QED
    BY <1>3, <2>4, <2>5
<1>4. QED
  BY <1>2, <1>3 DEF StopsCancel

(* The canceled order is stored under its row. *)
LEMMA StopsStoreKept == ASSUME IInv, StopsStore PROVE IInv'
<1>1. /\ StopsIn(rows, xord, ss) /\ ss.pc = "store" /\ StopsDropped
      /\ ss.x \in 1..Len(xord) /\ xord[ss.x].kind = "stop" /\ xord[ss.x].cid = 0 /\ xord[ss.x] \in OrderI
      /\ UNCHANGED <<strat, w, so, sp>> /\ UNCHANGED <<pos, wallet, exchange>>
  BY DEF StopsStore, IInv, StopsIn, BookIn
<1>2. CASE UNCHANGED rows
  BY <1>1, <1>2, DroppedIn, NothingWritten, TaskKept DEF database, exchange
<1>3. CASE rows' = Upserted(rows, ss.x, xord[ss.x], xord[ss.x].status)
  <2>1. xord[ss.x].status \in Statuses
    BY <1>1 DEF OrderI, Statuses, RowStatuses
  <2>2. BookIn(rows', xord) /\ Grown(rows, xord, rows', xord) /\ Unlinked(rows, rows')
    BY <1>1, <1>3, <2>1, UpsertedBook DEF IInv
  <2>3. Advanced /\ xord' = xord
    BY <1>1, <2>2, RowsWritten DEF exchange
  <2>4. StopsIn(rows', xord, ss)
    BY <1>1, <2>2, TasksGrown DEF IInv
  <2>5. QED
    BY <1>1, <2>2, <2>3, <2>4, DroppedIn, TaskKept
<1>4. QED
  BY <1>2, <1>3 DEF StopsStore

(* The position as read is written back without its flag. *)
LEMMA StopsRearmKept == ASSUME IInv, StopsRearm PROVE IInv'
<1> DEFINE u == [ss.pos EXCEPT !.qty = ss.wallet, !.sl = FALSE]
<1>1. /\ StopsIn(rows, xord, StopsIdle) /\ ss' = StopsIdle /\ PositionIn(rows, xord, ss.pos)
      /\ PositionIn(rows, xord, pos) /\ ss.wallet \in Int /\ wallet' \in Int
      /\ UNCHANGED <<strat, w, so, sp>> /\ UNCHANGED <<rows, exchange>>
  BY TasksIdle DEF StopsRearm, IInv, StopsIn, StopsI
<1>2. PositionIn(rows, xord, u)
  BY <1>1, AdjustedIn
<1>3. pos' = pos \/ (UpdateAllowed(pos, u) /\ pos' = UpdatedPosition(pos, u))
  BY DEF StopsRearm
<1> HIDE DEF u
<1>4. PositionIn(rows, xord, pos')
  BY <1>1, <1>2, <1>3, UpdatedIn
<1>5. QED
  BY <1>1, <1>4, PositionWritten, TaskKept DEF exchange
----------------------------------------------------------------------------
(* Nothing is stored, sent or read at first. *)
LEMMA Initially == SyncInit => IInv
<1> SUFFICES ASSUME SyncInit PROVE IInv
  OBVIOUS
<1> USE DEF SyncInit, Init
<1>1. "none" \in Handlers /\ "stopped" \in WorkerSteps \ Bound
  BY Places DEF Handlers
<1>2. BookIn(rows, xord)
  BY DEF BookIn
<1>3. WorkerIn(rows, xord, Idle) /\ PositionIn(rows, xord, NoPosition)
  BY <1>1, IdleIn, NoPositionIn
<1>4. QED
  BY <1>2, <1>3, TasksIdle DEF IInv, StrategyState

(* The invariant is inductive. *)
LEMMA NextKept == IInv /\ [SyncNext]_vars => IInv'
<1> SUFFICES ASSUME IInv, [SyncNext]_vars PROVE IInv'
  OBVIOUS
<1>1. CASE UNCHANGED vars
  <2>1. UNCHANGED <<strat, w, so, sp, ss>> /\ UNCHANGED <<database, exchange>>
    BY <1>1 DEF vars, pairVars, tasks, database, exchange
  <2>2. StopsIn(rows, xord, ss') /\ xord' = xord /\ rows' = rows
    BY <2>1 DEF IInv, database, exchange
  <2>3. QED
    BY <2>1, <2>2, NothingWritten, TaskKept
<1>2. CASE SyncOrders
  BY <1>2, OrdersStartKept, OrdersFetchKept, OrdersCreateKept, OrdersBalanceKept, OrdersQuantityKept
     DEF SyncOrders
<1>3. CASE SyncPositions
  BY <1>3, PositionsStartKept, PositionsReadsKept, PositionsWritesKept DEF SyncPositions
<1>4. CASE SyncStopOrders
  BY <1>4, StopsStartKept, StopsReadsKept, StopsFetchKept, StopsLatestKept, StopsCancelKept,
     StopsStoreKept, StopsRearmKept DEF SyncStopOrders
<1>5. QED
  BY <1>1, <1>2, <1>3, <1>4, PairKept, CrashKept DEF SyncNext

(* The tables, the book of the exchange and every local of the worker and   *)
(* of the tasks stay consistent with each other, whatever fails, whatever   *)
(* the account's owner does, and whenever the bot restarts.                 *)
THEOREM Consistent == SyncSpec => []IInv
BY Initially, NextKept, PTL DEF SyncSpec

(* A position of known origin is linked to a buy order that the exchange    *)
(* has filled, whoever created it and whatever stale copy was written over  *)
(* it (position.go CreatePosition, UpdatePosition and their callers).       *)
THEOREM PositionsBacked == SyncSpec => []KnownPositionBacked
<1>1. IInv => KnownPositionBacked
  <2> SUFFICES ASSUME IInv, pos.st = "known" PROVE Backed(pos.order)
    BY DEF KnownPositionBacked
  <2>1. BackedIn(rows, xord, pos.order) /\ DOMAIN rows = 1..Len(rows) /\ DOMAIN xord = 1..Len(xord)
    BY DEF IInv, PositionIn, BookIn
  <2>2. QED
    BY <2>1 DEF BackedIn, Backed
<1>2. QED
  BY <1>1, Consistent, PTL

(* What a row is linked to is an order of its own side which carries its    *)
(* own client order id or none, never an order sent for another row, and    *)
(* never a stop order unless the row is one's (helper.go:86-103,            *)
(* service.go).                                                             *)
THEOREM LinksFaithful == SyncSpec => []LinkFaithful
<1>1. IInv => LinkFaithful
  <2> SUFFICES ASSUME IInv, NEW r \in 1..Len(rows), rows[r].xid # 0
               PROVE  LET o == xord[rows[r].xid]
                      IN  /\ rows[r].xid \in DOMAIN xord /\ o.side = rows[r].side
                          /\ IF rows[r].kind = "stop" THEN o.cid = 0 ELSE o.cid \in {r, Unnamed}
    BY DEF IInv, BookIn, LinkFaithful
  <2>1. QED
    BY DEF IInv, BookIn, LinkIn
<1>2. QED
  BY <1>1, Consistent, PTL
=============================================================================
