--------------------------- MODULE ConfigProofs ---------------------------
(***************************************************************************)
(* Proofs, for any calls of the console, contents, bounds and faults, that *)
(* an acknowledged version is kept, that a binding never goes back to an   *)
(* older version, and that it has the current one when all is quiet.       *)
(*                                                                         *)
(* None of these is inductive.  A version is kept because the number of a  *)
(* row that is still in the window is never free (SaveInv).  A binding     *)
(* does not go back because what a reload fetched is no older than what    *)
(* its binding has (BindInv).  And a binding that is behind has a signal,  *)
(* a lost subscription or stream, or a reload on its way to it (Coming).   *)
(***************************************************************************)
EXTENDS ConfigCenter, TLAPS

Stored   == [seq : Nat \ {0}, val : Contents]
Versions == [seq : Nat, val : Contents \cup {Empty}]
OpPc     == {"idle", "compare", "max", "insert", "publish", "saved", "same", "conflict",
             "refused", "deleted"}

\* The table: numbers are unique, and there is a newest version.
RowsOK ==
    /\ rows \subseteq Stored
    /\ \A r, q \in rows : r.seq = q.seq => r = q
    /\ rows # {} => \E r \in rows : \A q \in rows : q.seq <= r.seq

OpTypes ==
    /\ op \in [Ops -> [pc : OpPc, val : Contents \cup {Empty}, push : BOOLEAN, seq : Nat]]
    /\ \A o \in Ops : /\ op[o].pc \in {"compare", "max", "insert", "publish"} => op[o].val \in Contents
                      /\ op[o].pc \in {"insert", "publish"} => op[o].seq # 0

\* A version that was inserted is in the table as long as it is in the window.
Acked ==
    ~wiped => \A o \in Ops :
        op[o].pc \in {"publish", "saved"} /\ op[o].seq > Current.seq - KeepVersions
            => [seq |-> op[o].seq, val |-> op[o].val] \in rows

SaveInv == RowsOK /\ OpTypes /\ Acked

-----------------------------------------------------------------------------
\* What Current returns.
LEMMA CurrentIs ==
    ASSUME RowsOK
    PROVE  /\ Current \in Versions
           /\ \A q \in rows : q.seq <= Current.seq
           /\ rows # {} => Current \in rows
           /\ rows = {} => Current.seq = 0
<1>1. CASE rows = {}
  BY <1>1 DEF Current, Versions
<1>2. CASE rows # {}
  <2>1. Current \in rows /\ \A q \in rows : q.seq <= Current.seq
    BY <1>2 DEF RowsOK, Current
  <2>2. Current \in Versions
    BY <2>1 DEF RowsOK, Stored, Versions
  <2>. QED
    BY <1>2, <2>1, <2>2
<1>. QED
  BY <1>1, <1>2

\* The same of the next state.
LEMMA CurrentWillBe ==
    ASSUME RowsOK'
    PROVE  /\ Current' \in Versions
           /\ \A q \in rows' : q.seq <= Current'.seq
           /\ rows' # {} => Current' \in rows'
           /\ rows' = {} => Current'.seq = 0
<1>1. CASE rows' = {}
  BY <1>1 DEF Current, Versions
<1>2. CASE rows' # {}
  <2>1. Current' \in rows' /\ \A q \in rows' : q.seq <= Current'.seq
    BY <1>2 DEF RowsOK, Current
  <2>2. Current' \in Versions
    BY <2>1 DEF RowsOK, Stored, Versions
  <2>. QED
    BY <1>2, <2>1, <2>2
<1>. QED
  BY <1>1, <1>2

\* An INSERT with a free number, and the DELETE behind it: the newest version does not get
\* older, and versions within the window stay.
LEMMA Inserted ==
    ASSUME RowsOK, NEW new \in Stored, \A r \in rows : r.seq # new.seq,
           rows' = {r \in rows : r.seq > new.seq - KeepVersions} \cup {new}
    PROVE  /\ RowsOK' /\ Current'.seq >= Current.seq /\ Current'.seq >= new.seq
           /\ \A r \in rows : r.seq > Current'.seq - KeepVersions => r \in rows'
<1>k. KeepVersions \in Nat /\ KeepVersions > 0
  BY ConfigAssumption
<1>t. new.seq \in Nat /\ \A r \in rows : r.seq \in Nat
  BY DEF RowsOK, Stored
<1>1. RowsOK'
  <2>1. rows' \subseteq Stored /\ \A r, q \in rows' : r.seq = q.seq => r = q
    BY DEF RowsOK
  <2>2. \E r \in rows' : \A q \in rows' : q.seq <= r.seq
    <3>1. CASE \A r \in rows : r.seq <= new.seq
      BY <3>1, <1>t
    <3>2. CASE \E r \in rows : r.seq > new.seq
      <4>1. PICK r \in rows : \A q \in rows : q.seq <= r.seq
        BY <3>2 DEF RowsOK
      <4>2. r.seq > new.seq /\ r.seq > new.seq - KeepVersions
        BY <3>2, <4>1, <1>t, <1>k
      <4>. QED
        BY <4>1, <4>2, <1>t
    <3>. QED
      BY <3>1, <3>2, <1>t
  <2>. QED
    BY <2>1, <2>2 DEF RowsOK
<1>2. Current \in Versions /\ Current' \in Versions /\ \A q \in rows' : q.seq <= Current'.seq
  BY <1>1, CurrentIs, CurrentWillBe
<1>3. Current.seq \in Nat /\ Current'.seq \in Nat
  BY <1>2 DEF Versions
<1>4. Current'.seq >= new.seq
  BY <1>2, <1>3, <1>t
<1>5. Current'.seq >= Current.seq
  <2>1. CASE rows = {}
    BY <2>1, <1>3, CurrentIs
  <2>2. CASE rows # {} /\ Current.seq > new.seq - KeepVersions
    BY <2>2, <1>2, <1>3, CurrentIs
  <2>3. CASE Current.seq <= new.seq - KeepVersions
    BY <2>3, <1>3, <1>4, <1>t, <1>k
  <2>. QED
    BY <2>1, <2>2, <2>3, <1>3, <1>t, <1>k
<1>6. \A r \in rows : r.seq > Current'.seq - KeepVersions => r \in rows'
  BY <1>3, <1>4, <1>t, <1>k
<1>. QED
  BY <1>1, <1>4, <1>5, <1>6

-----------------------------------------------------------------------------
\* A call goes on without touching the table, and without claiming a version.
LEMMA CallMoves ==
    ASSUME SaveInv, NEW o \in Ops, NEW new, op' = [op EXCEPT ![o] = new], UNCHANGED <<rows, wiped>>,
           new \in [pc : OpPc, val : Contents \cup {Empty}, push : BOOLEAN, seq : Nat],
           new.pc \in {"compare", "max", "insert", "publish"} => new.val \in Contents,
           new.pc \in {"insert", "publish"} => new.seq # 0,
           \/ new.pc \notin {"publish", "saved"}
           \/ /\ op[o].pc = "publish" /\ new.val = op[o].val /\ new.seq = op[o].seq
    PROVE  SaveInv'
<1>1. \A q \in Ops : op'[q] = IF q = o THEN new ELSE op[q]
  BY DEF SaveInv, OpTypes
<1>2. OpTypes'
  BY <1>1 DEF SaveInv, OpTypes
<1>3. RowsOK' /\ Current' = Current
  BY DEF SaveInv, RowsOK, Current
<1>4. Acked'
  <2>. SUFFICES ASSUME ~wiped, NEW q \in Ops, op'[q].pc \in {"publish", "saved"},
                       op'[q].seq > Current.seq - KeepVersions
                PROVE  [seq |-> op'[q].seq, val |-> op'[q].val] \in rows
    BY <1>3 DEF Acked
  <2>1. /\ op[q].pc \in {"publish", "saved"} /\ op[q].seq = op'[q].seq
        /\ op[q].val = op'[q].val
    BY <1>1
  <2>. QED
    BY <2>1 DEF SaveInv, Acked
<1>. QED
  BY <1>2, <1>3, <1>4 DEF SaveInv

\* The calls of the console.
LEMMA ConsoleSaves ==
    ASSUME SaveInv, NEW o \in Ops, Console(o)
    PROVE  SaveInv'
<1>t. /\ op[o] \in [pc : OpPc, val : Contents \cup {Empty}, push : BOOLEAN, seq : Nat]
      /\ op \in [Ops -> [pc : OpPc, val : Contents \cup {Empty}, push : BOOLEAN, seq : Nat]]
      /\ (op[o].pc \in {"compare", "max", "insert", "publish"} => op[o].val \in Contents)
      /\ (op[o].pc \in {"insert", "publish"} => op[o].seq # 0)
      /\ op[o].seq \in Nat
  BY DEF SaveInv, OpTypes
<1>c. Current \in Versions /\ Current.seq \in Nat
  BY CurrentIs DEF SaveInv, Versions
<1>g. ASSUME NEW x \in OpPc
      PROVE  /\ [op[o] EXCEPT !.pc = x]
                   \in [pc : OpPc, val : Contents \cup {Empty}, push : BOOLEAN, seq : Nat]
             /\ [op[o] EXCEPT !.pc = x].pc = x /\ [op[o] EXCEPT !.pc = x].val = op[o].val
             /\ [op[o] EXCEPT !.pc = x].seq = op[o].seq
             /\ (Go(o, x) => op' = [op EXCEPT ![o] = [op[o] EXCEPT !.pc = x]])
  BY <1>t DEF Go
<1>1. CASE Version(o)
  <2>1. PICK r \in rows, p \in BOOLEAN :
           op' = [op EXCEPT ![o] = [pc |-> "compare", val |-> r.val, push |-> p, seq |-> 0]]
    BY <1>1 DEF Version
  <2>2. r.val \in Contents
    BY DEF SaveInv, RowsOK, Stored
  <2>3. UNCHANGED <<rows, wiped>>
    BY <1>1 DEF Version, history
  <2>. DEFINE new == [pc |-> "compare", val |-> r.val, push |-> p, seq |-> 0]
  <2>4. /\ new \in [pc : OpPc, val : Contents \cup {Empty}, push : BOOLEAN, seq : Nat]
        /\ new.pc = "compare" /\ new.val \in Contents
    BY <2>2 DEF OpPc
  <2>5. op' = [op EXCEPT ![o] = new]
    BY <2>1
  <2>. HIDE DEF new
  <2>. QED
    BY <2>3, <2>4, <2>5, CallMoves
<1>2. CASE Rollback(o)
  <2>1. op[o].pc = "compare" /\ UNCHANGED <<rows, wiped>> /\ \E x \in {"same", "max"} : Go(o, x)
    BY <1>2 DEF Rollback, history
  <2>. QED
    BY <2>1, <1>g, <1>t, CallMoves DEF OpPc
<1>3. CASE Refuse(o)
  <2>1. UNCHANGED <<rows, wiped>> /\ Go(o, "refused")
    BY <1>3 DEF Refuse, history
  <2>. QED
    BY <2>1, <1>g, <1>t, CallMoves DEF OpPc
<1>4. CASE SaveMax(o)
  <2>1. UNCHANGED <<rows, wiped>>
    BY <1>4 DEF SaveMax, history
  <2>2. CASE op[o].pc = "max" /\ op' = [op EXCEPT ![o].pc = "insert", ![o].seq = Current.seq + 1]
    <3>. DEFINE new == [op[o] EXCEPT !.pc = "insert", !.seq = Current.seq + 1]
    <3>1. /\ new \in [pc : OpPc, val : Contents \cup {Empty}, push : BOOLEAN, seq : Nat]
          /\ new.pc = "insert" /\ new.val = op[o].val /\ new.seq = Current.seq + 1
      <4>1. \A n \in Nat :
               LET x == [op[o] EXCEPT !.pc = "insert", !.seq = n] IN
               /\ x \in [pc : OpPc, val : Contents \cup {Empty}, push : BOOLEAN, seq : Nat]
               /\ x.pc = "insert" /\ x.val = op[o].val /\ x.seq = n
        BY <1>t DEF OpPc
      <4>2. Current.seq + 1 \in Nat
        BY <1>c
      <4>. QED
        BY <4>1, <4>2
    <3>2. op' = [op EXCEPT ![o] = new]
      BY <1>t, <2>2
    <3>. HIDE DEF new
    <3>3. new.seq # 0 /\ new.val \in Contents
      BY <3>1, <1>c, <1>t, <2>2
    <3>. QED
      BY <2>1, <3>1, <3>2, <3>3, CallMoves
  <2>3. CASE \E c \in Contents, p \in BOOLEAN :
                op' = [op EXCEPT ![o] = [pc |-> "insert", val |-> c, push |-> p,
                                         seq |-> Current.seq + 1]]
    <3>1. PICK c \in Contents, p \in BOOLEAN :
                op' = [op EXCEPT ![o] = [pc |-> "insert", val |-> c, push |-> p,
                                         seq |-> Current.seq + 1]]
      BY <2>3
    <3>. DEFINE new == [pc |-> "insert", val |-> c, push |-> p, seq |-> Current.seq + 1]
    <3>2. /\ new \in [pc : OpPc, val : Contents \cup {Empty}, push : BOOLEAN, seq : Nat]
          /\ new.pc = "insert" /\ new.val \in Contents /\ new.seq # 0
      BY <1>c DEF OpPc
    <3>3. op' = [op EXCEPT ![o] = new]
      BY <3>1
    <3>. HIDE DEF new
    <3>. QED
      BY <2>1, <3>2, <3>3, CallMoves
  <2>. QED
    BY <1>4, <2>2, <2>3 DEF SaveMax
<1>5. CASE Save(o)
  <2>. DEFINE new == [seq |-> op[o].seq, val |-> op[o].val]
  <2>1. op[o].pc = "insert" /\ wiped' = wiped
    BY <1>5 DEF Save
  <2>2. CASE Go(o, "conflict") /\ UNCHANGED rows
    BY <2>1, <2>2, <1>g, <1>t, CallMoves DEF OpPc
  <2>3. CASE /\ \A r \in rows : r.seq # new.seq
             /\ rows' = {r \in rows : r.seq > new.seq - KeepVersions} \cup {new}
             /\ \E x \in {"publish", "saved"} : Go(o, x)
    <3>1. new \in Stored /\ new.seq = op[o].seq
      BY <1>t, <2>1 DEF Stored
    <3>2. /\ RowsOK' /\ Current'.seq >= Current.seq /\ new \in rows'
          /\ \A r \in rows : r.seq > Current'.seq - KeepVersions => r \in rows'
      BY <2>3, <3>1, Inserted DEF SaveInv
    <3>3. /\ op'[o].pc \in {"publish", "saved"} /\ op'[o].seq = op[o].seq /\ op'[o].val = op[o].val
          /\ \A q \in Ops : q # o => op'[q] = op[q]
      BY <1>g, <1>t, <2>3 DEF OpPc
    <3>4. OpTypes'
      <4>1. op' \in [Ops -> [pc : OpPc, val : Contents \cup {Empty}, push : BOOLEAN, seq : Nat]]
        BY <1>g, <1>t, <2>3 DEF OpPc
      <4>. QED
        BY <4>1, <3>3, <1>t, <2>1 DEF SaveInv, OpTypes
    <3>5. Acked'
      <4>. SUFFICES ASSUME ~wiped, NEW q \in Ops, op'[q].pc \in {"publish", "saved"},
                           op'[q].seq > Current'.seq - KeepVersions
                    PROVE  [seq |-> op'[q].seq, val |-> op'[q].val] \in rows'
        BY <2>1 DEF Acked
      <4>1. CASE q = o
        BY <4>1, <3>2, <3>3
      <4>2. CASE q # o
        <5>1. op[q].seq \in Nat /\ KeepVersions \in Nat /\ Current'.seq \in Nat
          BY <3>2, CurrentWillBe, ConfigAssumption DEF SaveInv, OpTypes, Versions
        <5>2. op[q].seq > Current.seq - KeepVersions
          BY <4>2, <3>2, <3>3, <5>1, <1>c
        <5>3. [seq |-> op[q].seq, val |-> op[q].val] \in rows
          BY <4>2, <3>3, <5>2 DEF SaveInv, Acked
        <5>. QED
          BY <4>2, <3>2, <3>3, <5>3
      <4>. QED
        BY <4>1, <4>2
    <3>. QED
      BY <3>2, <3>4, <3>5 DEF SaveInv
  <2>. QED
    BY <1>5, <2>2, <2>3 DEF Save
<1>6. CASE DeleteType(o)
  <2>1. rows' = {} /\ wiped' = TRUE /\ Go(o, "deleted")
    BY <1>6 DEF DeleteType
  <2>2. OpTypes'
    BY <2>1, <1>g, <1>t DEF SaveInv, OpTypes, OpPc
  <2>. QED
    BY <2>1, <2>2 DEF SaveInv, RowsOK, Acked
<1>7. CASE Publish(o)
  <2>1. op[o].pc = "publish" /\ UNCHANGED <<rows, wiped>> /\ Go(o, "saved")
    BY <1>7 DEF Publish
  <2>. QED
    BY <2>1, <1>g, <1>t, CallMoves DEF OpPc
<1>. QED
  BY <1>1, <1>2, <1>3, <1>4, <1>5, <1>6, <1>7 DEF Console

\* Everything else leaves the table, the calls and what history says of them.
Elsewhere ==
    \/ Cut \/ Subscribe \/ HubRun
    \/ Watch \/ StreamEnds \/ Recv
    \/ \E b \in Bindings : BindFetch(b) \/ BindRegister(b)
    \/ ReloadTake \/ ReloadFetch \/ ApplySnapshot
    \/ SetIMConfig \/ PublishIM \/ Load

\* ... as their UNCHANGED say.
LEMMA TableStays == Elsewhere => UNCHANGED <<rows, op, silent, wiped>>
BY DEF Elsewhere, Cut, Subscribe, HubRun, Watch, StreamEnds, Recv, BindFetch, BindRegister, ReloadTake,
       ReloadFetch, ApplySnapshot, SetIMConfig, PublishIM, Load, server, history

\* Every step preserves SaveInv.
LEMMA SaveStep == SaveInv /\ [Next]_vars => SaveInv'
<1>. SUFFICES ASSUME SaveInv, [Next]_vars PROVE SaveInv'
  OBVIOUS
<1>1. CASE UNCHANGED <<rows, op, wiped>>
  BY <1>1 DEF SaveInv, RowsOK, OpTypes, Acked, Current
<1>2. CASE \E o \in Ops : Console(o)
  BY <1>2, ConsoleSaves
<1>. QED
  BY <1>1, <1>2, TableStays DEF Next, vars, server, history, Elsewhere

\* The table is empty to begin with.
LEMMA SaveInit == Init => SaveInv
<1>. SUFFICES ASSUME Init PROVE SaveInv
  OBVIOUS
<1>1. OpTypes
  <2>1. NoOp \in [pc : OpPc, val : Contents \cup {Empty}, push : BOOLEAN, seq : Nat]
    BY DEF NoOp, OpPc
  <2>2. [NoOp EXCEPT !.pc = "same"] \in [pc : OpPc, val : Contents \cup {Empty}, push : BOOLEAN, seq : Nat]
    BY DEF NoOp, OpPc
  <2>3. \A o \in Ops : op[o].pc \in {"idle", "same"}
    BY DEF Init, NoOp
  <2>. QED
    BY <2>1, <2>2, <2>3 DEF Init, OpTypes
<1>2. \A o \in Ops : op[o].pc \in {"idle", "same"}
  BY DEF Init, NoOp
<1>. QED
  BY <1>1, <1>2 DEF Init, SaveInv, RowsOK, Acked

\* ConfigService.Save: for any number of calls, contents and versions kept, a version the
\* console was told of is in the table with its content, until KeepVersions newer ones or
\* DeleteType remove it.
THEOREM VersionsKept == Spec => []AckedVersionKept
<1>1. SaveInv => AckedVersionKept
  BY DEF SaveInv, Acked, AckedVersionKept
<1>. QED
  BY <1>1, SaveInit, SaveStep, PTL DEF Spec

-----------------------------------------------------------------------------
\* The bindings.  Who is bound is registered, and a round reloads bindings that are bound.
BindTypes ==
    /\ DOMAIN bind = Bindings
    /\ \A b \in Bindings :
         /\ DOMAIN bind[b] = {"pc", "got", "snap", "ver"}
         /\ bind[b].pc \in {"none", "fetched", "bound"} /\ bind[b].ver \in Nat
         /\ (bind[b].pc = "fetched" => bind[b].got \in Versions)
         /\ (bind[b].pc # "bound" => bind[b].ver = 0)
         /\ (bind[b].pc # "none" => watcher # {})
    /\ registered \in Seq(Bindings)
    /\ \A i \in DOMAIN registered : bind[registered[i]].pc = "bound"
    /\ \A b \in Bindings : bind[b].pc = "bound" => \E i \in DOMAIN registered : registered[i] = b

RoundTypes ==
    /\ round \in [todo : Seq(Bindings), got : Versions \cup {None}]
    /\ (round.got # None => round.todo # <<>>)
    /\ \A i \in DOMAIN round.todo : bind[round.todo[i]].pc = "bound"

\* Until DeleteType restarts the numbers nobody is ahead of the table, and what the round
\* has fetched is not older than what its binding has.
NotAhead ==
    ~wiped =>
        /\ \A b \in Bindings : /\ bind[b].ver <= Current.seq
                               /\ (bind[b].pc = "fetched" => bind[b].got.seq <= Current.seq)
        /\ (round.got # None => /\ round.got.seq <= Current.seq
                                /\ bind[Head(round.todo)].ver <= round.got.seq)

BindInv == BindTypes /\ RoundTypes /\ NotAhead

\* None is no version.
LEMMA NoneApart == None \notin Versions /\ None.seq = -1
BY DEF None, Versions

\* The numbers only grow, until DeleteType.
LEMMA CurrentGrows ==
    ASSUME SaveInv, NEW o \in Ops, Console(o), ~wiped'
    PROVE  ~wiped /\ Current'.seq >= Current.seq /\ Current'.seq \in Nat /\ Current.seq \in Nat
<1>1. Current.seq \in Nat /\ Current'.seq \in Nat
  BY ConsoleSaves, CurrentIs, CurrentWillBe DEF SaveInv, Versions
<1>2. CASE UNCHANGED <<rows, wiped>>
  BY <1>1, <1>2 DEF Current
<1>3. CASE Save(o)
  <2>. DEFINE new == [seq |-> op[o].seq, val |-> op[o].val]
  <2>1. CASE UNCHANGED rows
    BY <1>2, <1>3, <2>1 DEF Save
  <2>2. CASE /\ \A r \in rows : r.seq # new.seq
             /\ rows' = {r \in rows : r.seq > new.seq - KeepVersions} \cup {new}
    <3>1. new \in Stored
      BY <1>3 DEF Save, SaveInv, OpTypes, Stored
    <3>2. Current'.seq >= Current.seq
      BY <2>2, <3>1, Inserted DEF SaveInv
    <3>. QED
      BY <1>1, <1>3, <3>2 DEF Save
  <2>. QED
    BY <1>3, <2>1, <2>2 DEF Save
<1>. QED
  BY <1>2, <1>3 DEF Console, Version, Rollback, Refuse, SaveMax, DeleteType, Publish, history

\* A step that leaves the bindings and the round alone.
LEMMA BindStays ==
    ASSUME SaveInv, BindInv, UNCHANGED <<bind, registered, round, watcher>>,
           ~wiped' => ~wiped /\ Current'.seq >= Current.seq /\ Current'.seq \in Nat /\ Current.seq \in Nat
    PROVE  BindInv'
<1>1. BindTypes' /\ RoundTypes'
  BY DEF BindInv, BindTypes, RoundTypes
<1>2. \A b \in Bindings : bind[b].ver \in Nat /\ (bind[b].pc = "fetched" => bind[b].got.seq \in Nat)
  BY DEF BindInv, BindTypes, Versions
<1>3. round.got # None => round.got.seq \in Nat
  BY DEF BindInv, RoundTypes, Versions
<1>4. NotAhead'
  <2>. SUFFICES ASSUME ~wiped' PROVE NotAhead'
    BY DEF NotAhead
  <2>1. ~wiped /\ Current'.seq >= Current.seq /\ Current'.seq \in Nat /\ Current.seq \in Nat
    OBVIOUS
  <2>2. \A b \in Bindings : /\ bind[b].ver <= Current'.seq
                            /\ (bind[b].pc = "fetched" => bind[b].got.seq <= Current'.seq)
    BY <2>1, <1>2 DEF BindInv, NotAhead
  <2>3. round.got # None => /\ round.got.seq <= Current'.seq
                            /\ bind[Head(round.todo)].ver <= round.got.seq
    BY <2>1, <1>3 DEF BindInv, NotAhead
  <2>. QED
    BY <2>2, <2>3 DEF NotAhead
<1>. QED
  BY <1>1, <1>4 DEF BindInv

\* Nothing is bound to begin with.
LEMMA BindInit == Init => BindInv
<1>. SUFFICES ASSUME Init PROVE BindInv
  OBVIOUS
<1>1. \A b \in Bindings : bind[b] = [pc |-> "none", got |-> None, snap |-> Zero, ver |-> 0]
  BY DEF Init
<1>2. BindTypes
  BY <1>1 DEF Init, BindTypes
<1>3. RoundTypes
  BY DEF Init, RoundTypes
<1>4. Current.seq = 0
  BY DEF Init, Current
<1>5. NotAhead
  BY <1>1, <1>4 DEF Init, NotAhead
<1>. QED
  BY <1>2, <1>3, <1>5 DEF BindInv

\* Bind, BindType: fetch and register.
LEMMA BindKeeps ==
    ASSUME SaveInv, BindInv, NEW b \in Bindings, BindFetch(b) \/ BindRegister(b), UNCHANGED watcher
    PROVE  BindInv' /\ \A c \in Bindings : bind'[c].ver >= bind[c].ver
<1>c. Current \in Versions /\ Current.seq \in Nat /\ Current' = Current /\ UNCHANGED <<wiped, round>>
  <2>1. UNCHANGED <<rows, wiped, round>>
    BY DEF BindFetch, BindRegister, server, history
  <2>2. Current \in Versions /\ Current.seq \in Nat
    BY CurrentIs DEF SaveInv, Versions
  <2>3. Current' = Current
    BY <2>1 DEF Current
  <2>. QED
    BY <2>1, <2>2, <2>3
<1>t. /\ DOMAIN bind = Bindings /\ DOMAIN bind[b] = {"pc", "got", "snap", "ver"}
      /\ bind[b].pc \in {"none", "fetched", "bound"} /\ \A c \in Bindings : bind[c].ver \in Nat
      /\ registered \in Seq(Bindings)
  BY DEF BindInv, BindTypes
<1>1. CASE BindFetch(b)
  <2>. DEFINE new == [bind[b] EXCEPT !.pc = "fetched", !.got = Current]
  <2>1. /\ bind' = [bind EXCEPT ![b] = new] /\ bind[b].pc = "none" /\ watcher # {}
        /\ registered' = registered
    BY <1>1 DEF BindFetch, GetConfig
  <2>2. /\ DOMAIN new = {"pc", "got", "snap", "ver"} /\ new.pc = "fetched" /\ new.got = Current
        /\ new.ver = bind[b].ver
    BY <1>t
  <2>. HIDE DEF new
  <2>3. DOMAIN bind' = Bindings /\ \A c \in Bindings : bind'[c] = IF c = b THEN new ELSE bind[c]
    BY <1>t, <2>1
  <2>4. BindTypes'
    BY <1>t, <1>c, <2>1, <2>2, <2>3 DEF BindInv, BindTypes
  <2>5. \A i \in DOMAIN round.todo : round.todo[i] \in Bindings /\ round.todo[i] # b
    BY <2>1 DEF BindInv, RoundTypes
  <2>6. RoundTypes'
    BY <1>c, <2>3, <2>5 DEF BindInv, RoundTypes
  <2>7. NotAhead'
    <3>1. round.got # None => Head(round.todo) \in Bindings /\ Head(round.todo) # b
      BY <2>5 DEF BindInv, RoundTypes
    <3>. QED
      BY <1>c, <1>t, <2>2, <2>3, <3>1 DEF BindInv, NotAhead
  <2>. QED
    BY <1>t, <2>2, <2>3, <2>4, <2>6, <2>7 DEF BindInv
<1>2. CASE BindRegister(b)
  <2>. DEFINE got == bind[b].got
              x == [pc |-> "bound", got |-> None, snap |-> Applied(b, Zero, got.val), ver |-> got.seq]
              y == [bind[b] EXCEPT !.pc = "none", !.got = None]
  <2>1. bind[b].pc = "fetched" /\ got \in Versions /\ bind[b].ver = 0 /\ watcher # {}
    BY <1>2 DEF BindRegister, BindInv, BindTypes
  <2>2. \/ bind' = [bind EXCEPT ![b] = x] /\ registered' = Append(registered, b)
        \/ bind' = [bind EXCEPT ![b] = y] /\ registered' = registered
    BY <1>2 DEF BindRegister
  <2>3. /\ DOMAIN x = {"pc", "got", "snap", "ver"} /\ x.pc = "bound" /\ x.ver = got.seq
        /\ DOMAIN y = {"pc", "got", "snap", "ver"} /\ y.pc = "none" /\ y.ver = 0
    BY <1>t, <2>1
  <2>4. got.seq \in Nat /\ (~wiped => got.seq <= Current.seq)
    BY <2>1 DEF Versions, BindInv, NotAhead
  <2>5. \A i \in DOMAIN round.todo : round.todo[i] \in Bindings /\ round.todo[i] # b
    BY <2>1 DEF BindInv, RoundTypes
  <2>6. round.got # None => Head(round.todo) \in Bindings /\ Head(round.todo) # b
    BY <2>5 DEF BindInv, RoundTypes
  <2>. HIDE DEF got, x, y
  <2>7. CASE bind' = [bind EXCEPT ![b] = x] /\ registered' = Append(registered, b)
    <3>1. DOMAIN bind' = Bindings /\ \A c \in Bindings : bind'[c] = IF c = b THEN x ELSE bind[c]
      BY <1>t, <2>7
    <3>2. /\ registered' \in Seq(Bindings)
          /\ \A i \in DOMAIN registered : i \in DOMAIN registered' /\ registered'[i] = registered[i]
          /\ \E i \in DOMAIN registered' : registered'[i] = b
          /\ \A i \in DOMAIN registered' :
                registered'[i] = b \/ (i \in DOMAIN registered /\ registered'[i] = registered[i])
      BY <1>t, <2>7
    <3>3. BindTypes'
      <4>1. \A i \in DOMAIN registered' : bind'[registered'[i]].pc = "bound"
        <5>1. \A c \in Bindings : c = b \/ bind[c].pc = "bound" => bind'[c].pc = "bound"
          BY <3>1, <2>3
        <5>2. \A i \in DOMAIN registered : registered[i] \in Bindings /\ bind[registered[i]].pc = "bound"
          BY <1>t DEF BindInv, BindTypes
        <5>. QED
          BY <5>1, <5>2, <3>2
      <4>2. \A c \in Bindings : bind'[c].pc = "bound" => \E i \in DOMAIN registered' : registered'[i] = c
        BY <3>1, <3>2 DEF BindInv, BindTypes
      <4>3. \A c \in Bindings :
               /\ DOMAIN bind'[c] = {"pc", "got", "snap", "ver"}
               /\ bind'[c].pc \in {"none", "fetched", "bound"} /\ bind'[c].ver \in Nat
               /\ (bind'[c].pc = "fetched" => bind'[c].got \in Versions)
               /\ (bind'[c].pc # "bound" => bind'[c].ver = 0)
               /\ (bind'[c].pc # "none" => watcher # {})
        BY <3>1, <2>1, <2>3, <2>4 DEF BindInv, BindTypes
      <4>. QED
        BY <4>1, <4>2, <4>3, <3>1, <3>2 DEF BindTypes
    <3>4. RoundTypes'
      BY <1>c, <3>1, <2>5 DEF BindInv, RoundTypes
    <3>5. NotAhead'
      BY <1>c, <1>t, <2>3, <2>4, <2>6, <3>1 DEF BindInv, NotAhead
    <3>. QED
      BY <1>t, <2>1, <2>3, <2>4, <3>1, <3>3, <3>4, <3>5 DEF BindInv
  <2>8. CASE bind' = [bind EXCEPT ![b] = y] /\ registered' = registered
    <3>1. DOMAIN bind' = Bindings /\ \A c \in Bindings : bind'[c] = IF c = b THEN y ELSE bind[c]
      BY <1>t, <2>8
    <3>2. \A i \in DOMAIN registered : registered[i] \in Bindings /\ registered[i] # b
      BY <1>t, <2>1 DEF BindInv, BindTypes
    <3>3. BindTypes'
      BY <3>1, <3>2, <2>1, <2>3, <2>8 DEF BindInv, BindTypes
    <3>4. RoundTypes'
      BY <1>c, <3>1, <2>5 DEF BindInv, RoundTypes
    <3>5. NotAhead'
      BY <1>c, <1>t, <2>3, <2>6, <3>1 DEF BindInv, NotAhead
    <3>. QED
      BY <1>t, <2>1, <2>3, <3>1, <3>3, <3>4, <3>5 DEF BindInv
  <2>. QED
    BY <2>2, <2>7, <2>8
<1>. QED
  BY <1>1, <1>2

\* runConfigReload: what a round fetches is current, so not older than what its binding has,
\* and its binding is not written by anybody else until it is applied.
LEMMA ReloadKeeps ==
    ASSUME SaveInv, BindInv, ReloadTake \/ ReloadFetch \/ ApplySnapshot, UNCHANGED watcher
    PROVE  BindInv' /\ (~wiped => \A c \in Bindings : bind'[c].ver >= bind[c].ver)
<1>c. Current \in Versions /\ Current.seq \in Nat /\ Current' = Current /\ UNCHANGED <<wiped, registered>>
  <2>1. UNCHANGED <<rows, wiped, registered>>
    BY DEF ReloadTake, ReloadFetch, ApplySnapshot, server, history
  <2>2. Current \in Versions /\ Current.seq \in Nat
    BY CurrentIs DEF SaveInv, Versions
  <2>3. Current' = Current
    BY <2>1 DEF Current
  <2>. QED
    BY <2>1, <2>2, <2>3
<1>t. /\ round \in [todo : Seq(Bindings), got : Versions \cup {None}]
      /\ round.todo \in Seq(Bindings) /\ registered \in Seq(Bindings)
      /\ \A c \in Bindings : bind[c].ver \in Nat
  BY DEF BindInv, BindTypes, RoundTypes
<1>1. CASE ReloadTake
  <2>1. /\ round' = [round EXCEPT !.todo = registered] /\ UNCHANGED bind /\ round.got = None
    BY <1>1 DEF ReloadTake, BindInv, RoundTypes
  <2>2. /\ round' \in [todo : Seq(Bindings), got : Versions \cup {None}]
        /\ round'.todo = registered /\ round'.got = None
    BY <1>t, <2>1
  <2>3. BindTypes' /\ RoundTypes' /\ NotAhead'
    BY <1>c, <2>1, <2>2 DEF BindInv, BindTypes, RoundTypes, NotAhead
  <2>. QED
    BY <1>t, <2>1, <2>3 DEF BindInv
<1>2. CASE ReloadFetch
  <2>1. UNCHANGED bind /\ round.got = None /\ round.todo # <<>>
    BY <1>2 DEF ReloadFetch
  <2>2. CASE round' = [round EXCEPT !.got = GetConfig]
    <3>1. /\ round' \in [todo : Seq(Bindings), got : Versions \cup {None}]
          /\ round'.todo = round.todo /\ round'.got = Current
      BY <1>t, <1>c, <2>2 DEF GetConfig
    <3>2. BindTypes' /\ RoundTypes'
      BY <1>c, <2>1, <3>1 DEF BindInv, BindTypes, RoundTypes
    <3>3. Head(round.todo) \in Bindings
      BY <1>t, <2>1
    <3>4. NotAhead'
      BY <1>c, <2>1, <3>1, <3>3 DEF BindInv, NotAhead
    <3>. QED
      BY <1>t, <2>1, <3>2, <3>4 DEF BindInv
  <2>3. CASE round' = [round EXCEPT !.todo = Tail(@)]
    <3>1. /\ Tail(round.todo) \in Seq(Bindings)
          /\ \A i \in DOMAIN Tail(round.todo) :
                i + 1 \in DOMAIN round.todo /\ Tail(round.todo)[i] = round.todo[i + 1]
      BY <1>t, <2>1
    <3>2. /\ round' \in [todo : Seq(Bindings), got : Versions \cup {None}]
          /\ round'.todo = Tail(round.todo) /\ round'.got = None
      BY <1>t, <2>1, <2>3, <3>1
    <3>3. BindTypes' /\ RoundTypes'
      BY <1>c, <2>1, <3>1, <3>2 DEF BindInv, BindTypes, RoundTypes
    <3>4. NotAhead'
      BY <1>c, <2>1, <3>2 DEF BindInv, NotAhead
    <3>. QED
      BY <1>t, <2>1, <3>3, <3>4 DEF BindInv
  <2>. QED
    BY <1>2, <2>2, <2>3 DEF ReloadFetch
<1>3. CASE ApplySnapshot
  <2>. DEFINE b == Head(round.todo)
              new == [bind[b] EXCEPT !.snap = Applied(b, bind[b].snap, round.got.val),
                                     !.ver = round.got.seq]
  <2>1. /\ round.todo # <<>> /\ round.got # None
        /\ round' = [todo |-> Tail(round.todo), got |-> None]
    BY <1>3 DEF ApplySnapshot
  <2>2. b \in Bindings /\ bind[b].pc = "bound"
    BY <1>t, <2>1 DEF BindInv, RoundTypes
  <2>3. round.got \in Versions /\ round.got.seq \in Nat
    BY <1>t, <2>1 DEF Versions
  <2>4. DOMAIN bind = Bindings /\ DOMAIN bind[b] = {"pc", "got", "snap", "ver"} /\ watcher # {}
    BY <2>2 DEF BindInv, BindTypes
  <2>5. /\ DOMAIN new = {"pc", "got", "snap", "ver"} /\ new.pc = "bound"
        /\ new.ver = round.got.seq
    BY <2>2, <2>4
  <2>6. bind' = [bind EXCEPT ![b] = new]
    BY <1>3, <2>2, <2>4 DEF ApplySnapshot
  <2>. HIDE DEF new
  <2>7. DOMAIN bind' = Bindings /\ \A c \in Bindings : bind'[c] = IF c = b THEN new ELSE bind[c]
    BY <2>2, <2>4, <2>6
  <2>8. /\ Tail(round.todo) \in Seq(Bindings)
        /\ \A i \in DOMAIN Tail(round.todo) :
              i + 1 \in DOMAIN round.todo /\ Tail(round.todo)[i] = round.todo[i + 1]
    BY <1>t, <2>1
  <2>. HIDE DEF b
  <2>9. BindTypes'
    <3>1. \A c \in Bindings : bind'[c].pc = bind[c].pc
      BY <2>2, <2>5, <2>7
    <3>2. \A i \in DOMAIN registered : registered[i] \in Bindings
      BY <1>t
    <3>3. /\ \A i \in DOMAIN registered' : bind'[registered'[i]].pc = "bound"
          /\ \A c \in Bindings : bind'[c].pc = "bound" => \E i \in DOMAIN registered' : registered'[i] = c
      BY <1>c, <3>1, <3>2 DEF BindInv, BindTypes
    <3>4. \A c \in Bindings :
             /\ DOMAIN bind'[c] = {"pc", "got", "snap", "ver"}
             /\ bind'[c].pc \in {"none", "fetched", "bound"} /\ bind'[c].ver \in Nat
             /\ (bind'[c].pc = "fetched" => bind'[c].got \in Versions)
             /\ (bind'[c].pc # "bound" => bind'[c].ver = 0)
             /\ (bind'[c].pc # "none" => watcher # {})
      BY <2>2, <2>3, <2>4, <2>5, <2>7 DEF BindInv, BindTypes
    <3>. QED
      BY <1>c, <1>t, <2>7, <3>3, <3>4 DEF BindTypes
  <2>10. RoundTypes'
    <3>1. \A i \in DOMAIN round.todo : round.todo[i] \in Bindings
      BY <1>t
    <3>2. \A c \in Bindings : bind'[c].pc = bind[c].pc
      BY <2>2, <2>5, <2>7
    <3>3. \A i \in DOMAIN Tail(round.todo) : bind'[Tail(round.todo)[i]].pc = "bound"
      BY <3>1, <3>2, <2>8 DEF BindInv, RoundTypes
    <3>. QED
      BY <2>1, <2>8, <3>3 DEF RoundTypes
  <2>11. ~wiped => round.got.seq <= Current.seq /\ bind[b].ver <= round.got.seq
    BY <2>1 DEF BindInv, NotAhead, b
  <2>12. NotAhead'
    <3>1. round'.got = None
      BY <2>1
    <3>2. ~wiped => \A c \in Bindings : /\ bind'[c].ver <= Current.seq
                                        /\ (bind'[c].pc = "fetched" => bind'[c].got.seq <= Current.seq)
      BY <2>5, <2>7, <2>11 DEF BindInv, NotAhead
    <3>. QED
      BY <1>c, <3>1, <3>2 DEF NotAhead
  <2>. QED
    BY <1>t, <2>3, <2>5, <2>7, <2>9, <2>10, <2>11, <2>12 DEF BindInv
<1>. QED
  BY <1>1, <1>2, <1>3

\* Every step preserves BindInv and, until DeleteType, replaces no version by an older one.
LEMMA BindStep ==
    ASSUME SaveInv, BindInv, [Next]_vars
    PROVE  BindInv' /\ (~wiped' => \A b \in Bindings : bind'[b].ver >= bind[b].ver)
<1>c. Current.seq \in Nat
  BY CurrentIs DEF SaveInv, Versions
<1>v. \A b \in Bindings : bind[b].ver \in Nat
  BY DEF BindInv, BindTypes
<1>1. CASE UNCHANGED <<bind, registered, round, watcher, rows, wiped>>
  <2>1. Current' = Current
    BY <1>1 DEF Current
  <2>. QED
    BY <1>1, <1>c, <1>v, <2>1, BindStays
<1>2. CASE (\E o \in Ops : Console(o)) /\ UNCHANGED watcher
  <2>1. UNCHANGED <<bind, registered, round>>
    BY <1>2 DEF Console, Version, Rollback, Refuse, SaveMax, Save, DeleteType, Publish, client
  <2>. QED
    BY <1>2, <1>v, <2>1, CurrentGrows, BindStays
<1>3. CASE (\E b \in Bindings : BindFetch(b) \/ BindRegister(b)) /\ UNCHANGED watcher
  BY <1>3, BindKeeps
<1>4. CASE (ReloadTake \/ ReloadFetch \/ ApplySnapshot) /\ UNCHANGED watcher
  <2>1. wiped' = wiped
    BY <1>4 DEF ReloadTake, ReloadFetch, ApplySnapshot, history
  <2>. QED
    BY <1>4, <2>1, ReloadKeeps
<1>5. CASE /\ UNCHANGED watcher
           /\ \/ Cut \/ Subscribe \/ HubRun \/ Watch \/ StreamEnds \/ Recv
              \/ SetIMConfig \/ PublishIM \/ Load
  <2>1. UNCHANGED <<bind, registered, round>>
    BY <1>5 DEF Cut, Subscribe, HubRun, Watch, StreamEnds, Recv, SetIMConfig, PublishIM, Load, client
  <2>2. UNCHANGED <<rows, wiped>>
    BY <1>5, TableStays DEF Elsewhere
  <2>. QED
    BY <1>1, <1>5, <2>1, <2>2
<1>. QED
  BY <1>1, <1>2, <1>3, <1>4, <1>5 DEF Next, vars, server, client, history

\* runConfigReload and Bind: for any number of saves, rollbacks, signals and faults, and
\* until DeleteType restarts the numbers, no binding goes back to an older version.
THEOREM NoneOlder == Spec => NeverOlder
<1>1. SaveInv /\ BindInv /\ [Next]_vars => SaveInv' /\ BindInv'
  BY SaveStep, BindStep
<1>2. SaveInv /\ BindInv /\ [Next]_vars
        => [~wiped' => \A b \in Bindings : bind'[b].ver >= bind[b].ver]_vars
  BY BindStep
<1>. QED
  BY <1>1, <1>2, SaveInit, BindInit, PTL DEF Spec, NeverOlder

-----------------------------------------------------------------------------
\* A change is on its way: it is to be published, the subscription or the stream is to be
\* made again, or a signal is in the channel, in the queue or in cfgReload ...
Pending ==
    \/ \E o \in Ops : op[o].pc = "publish"
    \/ link # "up" \/ chan # <<>>
    \/ sub.state # "open" \/ sub.ready \/ sub.buf # <<>>
    \/ reload

\* ... or the round has still to reload the binding.
ToCome(b) == \E i \in DOMAIN round.todo : round.todo[i] = b

\* When no change is on its way: what a round or a Bind has fetched is current, and a binding
\* reflects the current version or is about to.
Settled ==
    /\ (round.got # None => round.got = Current)
    /\ \A b \in Bindings \ missed :
          /\ (bind[b].pc = "bound" => Reflects(b) \/ ToCome(b))
          /\ (bind[b].pc = "fetched" => bind[b].got.val = Current.val)

Coming == ~silent /\ ~Pending => Settled

\* An application's process is sent no IM signals.
PathTypes ==
    /\ link \in {"up", "cut"} /\ reload \in BOOLEAN
    /\ sub \in [state : {"none", "open", "closed"}, ready : BOOLEAN, buf : Seq({"center", "im", "gap"})]
    /\ chan \in Seq(IF watcher = {} THEN {"center", "im", "gap"} ELSE {"center", "gap"})
    /\ (watcher # {} => ~imPub)

PathInv == PathTypes /\ Coming

\* applyValues and applySnapshot: to apply a version twice is to apply it once.
LEMMA AppliedOnce ==
    ASSUME NEW b, NEW old, NEW c
    PROVE  Applied(b, Applied(b, old, c), c) = Applied(b, old, c)
BY DEF Applied

\* The path before the reload: signals are passed on, a full queue, a gap or a broken stream
\* becomes a reload of everything.
LEMMA SignalsKept ==
    ASSUME PathTypes, UNCHANGED watcher,
           \/ Cut \/ Subscribe \/ HubRun \/ Watch \/ StreamEnds \/ Recv
           \/ SetIMConfig \/ PublishIM \/ Load
    PROVE  PathTypes' /\ (watcher # {} /\ Pending => Pending')
<1>t. /\ link \in {"up", "cut"} /\ reload \in BOOLEAN
      /\ sub \in [state : {"none", "open", "closed"}, ready : BOOLEAN, buf : Seq({"center", "im", "gap"})]
      /\ chan \in Seq(IF watcher = {} THEN {"center", "im", "gap"} ELSE {"center", "gap"})
      /\ (watcher # {} => ~imPub)
  BY DEF PathTypes
<1>. DEFINE Sigs == IF watcher = {} THEN {"center", "im", "gap"} ELSE {"center", "gap"}
<1>1. CASE Cut
  BY <1>1, <1>t DEF Cut, PathTypes, Pending, client, gateway
<1>2. CASE Subscribe
  <2>1. "gap" \in Sigs
    OBVIOUS
  <2>2. chan \in Seq(Sigs)
    BY <1>t
  <2>. HIDE DEF Sigs
  <2>3. chan' \in Seq(Sigs) /\ chan' # <<>> /\ link' = "up"
    BY <1>2, <2>1, <2>2 DEF Subscribe
  <2>. QED
    BY <1>2, <1>t, <2>3 DEF Subscribe, PathTypes, Pending, client, gateway, Sigs
<1>3. CASE HubRun
  <2>1. chan \in Seq(Sigs)
    BY <1>t
  <2>2. Sigs \subseteq {"center", "im", "gap"}
    OBVIOUS
  <2>3. Head(chan) \in Sigs /\ Tail(chan) \in Seq(Sigs)
    <3>. HIDE DEF Sigs
    <3>. QED
      BY <1>3, <2>1 DEF HubRun
  <2>4. sub' = Fanout(Head(chan)) /\ chan' = Tail(chan) /\ UNCHANGED <<link, op, reload, imPub>>
    BY <1>3 DEF HubRun, client, gateway
  <2>5. sub' \in [state : {"none", "open", "closed"}, ready : BOOLEAN, buf : Seq({"center", "im", "gap"})]
    <3>1. [sub EXCEPT !.state = "closed"]
             \in [state : {"none", "open", "closed"}, ready : BOOLEAN, buf : Seq({"center", "im", "gap"})]
      BY <1>t
    <3>2. sub.buf \in Seq({"center", "im", "gap"}) /\ Head(chan) \in {"center", "im", "gap"}
      BY <1>t, <2>2, <2>3
    <3>3. Append(sub.buf, Head(chan)) \in Seq({"center", "im", "gap"})
      BY <3>2
    <3>4. [sub EXCEPT !.buf = Append(sub.buf, Head(chan))]
             \in [state : {"none", "open", "closed"}, ready : BOOLEAN, buf : Seq({"center", "im", "gap"})]
      BY <1>t, <3>3
    <3>. QED
      BY <1>t, <2>4, <3>1, <3>4 DEF Fanout
  <2>6. watcher # {} => sub'.state # "open" \/ sub'.buf # <<>>
    <3>1. watcher # {} => Wants(Head(chan))
      BY <2>3 DEF Wants
    <3>2. CASE sub.state # "open"
      BY <2>4, <3>2 DEF Fanout
    <3>3. CASE watcher # {} /\ sub.state = "open" /\ Len(sub.buf) = BufSize
      <4>1. sub' = [sub EXCEPT !.state = "closed"]
        BY <2>4, <3>1, <3>3 DEF Fanout
      <4>. QED
        BY <1>t, <4>1
    <3>4. CASE watcher # {} /\ sub.state = "open" /\ Len(sub.buf) # BufSize
      <4>1. sub' = [sub EXCEPT !.buf = Append(sub.buf, Head(chan))]
        BY <2>4, <3>1, <3>4 DEF Fanout
      <4>2. sub.buf \in Seq({"center", "im", "gap"})
        BY <1>t
      <4>3. sub'.buf = Append(sub.buf, Head(chan))
        BY <1>t, <4>1
      <4>. QED
        BY <4>2, <4>3
    <3>. QED
      BY <3>2, <3>3, <3>4
  <2>. QED
    BY <1>t, <2>3, <2>4, <2>5, <2>6 DEF PathTypes, Pending
<1>4. CASE Watch
  <2>1. sub' = [state |-> "open", ready |-> TRUE, buf |-> <<>>]
    BY <1>4 DEF Watch
  <2>2. sub'.ready /\ sub' \in [state : {"none", "open", "closed"}, ready : BOOLEAN,
                                 buf : Seq({"center", "im", "gap"})]
    BY <2>1
  <2>. QED
    BY <1>4, <1>t, <2>2 DEF Watch, PathTypes, Pending, server, client, gateway
<1>5. CASE StreamEnds
  <2>1. sub' = NoSub
    BY <1>5 DEF StreamEnds
  <2>2. sub'.state = "none" /\ sub' \in [state : {"none", "open", "closed"}, ready : BOOLEAN,
                                          buf : Seq({"center", "im", "gap"})]
    BY <2>1 DEF NoSub
  <2>. QED
    BY <1>5, <1>t, <2>2 DEF StreamEnds, PathTypes, Pending, server, client, gateway
<1>6. CASE Recv
  <2>1. sub' \in [state : {"none", "open", "closed"}, ready : BOOLEAN, buf : Seq({"center", "im", "gap"})]
    <3>1. CASE sub.ready
      BY <1>6, <1>t, <3>1 DEF Recv
    <3>2. CASE ~sub.ready
      <4>1. sub' = [sub EXCEPT !.buf = Tail(sub.buf)] /\ sub.buf # <<>>
        BY <1>6, <3>2 DEF Recv
      <4>2. sub.buf \in Seq({"center", "im", "gap"})
        BY <1>t
      <4>3. Tail(sub.buf) \in Seq({"center", "im", "gap"})
        BY <4>1, <4>2
      <4>. QED
        BY <1>t, <4>1, <4>3
    <3>. QED
      BY <3>1, <3>2
  <2>2. reload' \in BOOLEAN /\ (watcher # {} => reload')
    BY <1>6, <1>t DEF Recv
  <2>3. UNCHANGED <<link, chan, imPub>>
    BY <1>6 DEF Recv, server, gateway
  <2>. QED
    BY <1>t, <2>1, <2>2, <2>3 DEF PathTypes, Pending
<1>7. CASE SetIMConfig
  BY <1>7, <1>t DEF SetIMConfig, PathTypes, server, client
<1>8. CASE PublishIM
  <2>1. watcher = {}
    BY <1>8, <1>t DEF PublishIM
  <2>2. chan' \in Seq({"center", "im", "gap"})
    <3>1. chan \in Seq({"center", "im", "gap"})
      BY <1>t, <2>1
    <3>2. chan' = chan \/ chan' = Append(chan, "im")
      BY <1>8 DEF PublishIM, Signal
    <3>. QED
      BY <3>1, <3>2
  <2>. QED
    BY <1>8, <1>t, <2>1, <2>2 DEF PublishIM, PathTypes, client
<1>9. CASE Load
  BY <1>9, <1>t DEF Load, PathTypes, Pending, server, client
<1>. QED
  BY <1>1, <1>2, <1>3, <1>4, <1>5, <1>6, <1>7, <1>8, <1>9

-----------------------------------------------------------------------------
\* Steps that leave the bindings, the round and the table alone.
LEMMA ComingStays ==
    ASSUME BindInv, Coming, UNCHANGED <<bind, round, rows, silent, missed>>,
           watcher # {} /\ Pending => Pending'
    PROVE  Coming'
<1>. SUFFICES ASSUME ~silent, ~Pending' PROVE Settled'
  BY DEF Coming
<1>1. Current' = Current
  BY DEF Current
<1>2. CASE watcher = {}
  <2>1. \A b \in Bindings : bind[b].pc \notin {"fetched", "bound"}
    BY <1>2 DEF BindInv, BindTypes
  <2>2. round.got = None
    <3>. SUFFICES ASSUME round.todo # <<>> PROVE FALSE
      BY DEF BindInv, RoundTypes
    <3>1. round.todo \in Seq(Bindings)
      BY DEF BindInv, RoundTypes
    <3>2. 1 \in DOMAIN round.todo /\ round.todo[1] \in Bindings
      BY <3>1
    <3>. QED
      BY <3>2, <2>1 DEF BindInv, RoundTypes
  <2>. QED
    BY <2>1, <2>2 DEF Settled
<1>3. CASE watcher # {}
  <2>1. Settled
    BY <1>3 DEF Coming
  <2>. QED
    BY <2>1, <1>1 DEF Settled, Reflects, ToCome
<1>. QED
  BY <1>2, <1>3

\* The calls of the console: a change is announced, or history says that it was not.
LEMMA ConsoleAnnounces ==
    ASSUME SaveInv, BindInv, PathInv, UNCHANGED watcher, NEW o \in Ops, Console(o)
    PROVE  PathInv'
<1>t. /\ DOMAIN op = Ops /\ \A q \in Ops : DOMAIN op[q] = {"pc", "val", "push", "seq"}
      /\ op[o].push \in BOOLEAN
  BY DEF SaveInv, OpTypes
<1>u. UNCHANGED <<link, sub, reload, bind, round, missed, imPub>>
  BY DEF Console, Version, Rollback, Refuse, SaveMax, Save, DeleteType, Publish, client, gateway, history
<1>g. ASSUME NEW x, Go(o, x)
      PROVE  op'[o].pc = x /\ \A q \in Ops : q # o => op'[q] = op[q]
  BY <1>g, <1>t DEF Go
<1>1. CASE Publish(o)
  <2>1. UNCHANGED rows
    BY <1>1 DEF Publish
  <2>2. CASE Signal("center") /\ silent' = FALSE
    <3>1. (chan' = chan /\ link # "up") \/ chan' = Append(chan, "center")
      BY <2>2 DEF Signal
    <3>. DEFINE Sigs == IF watcher = {} THEN {"center", "im", "gap"} ELSE {"center", "gap"}
    <3>2. chan \in Seq(Sigs) /\ "center" \in Sigs
      BY DEF PathInv, PathTypes
    <3>. HIDE DEF Sigs
    <3>3. chan' \in Seq(Sigs) /\ (link # "up" \/ chan' # <<>>)
      BY <3>1, <3>2
    <3>4. PathTypes'
      BY <1>u, <3>3 DEF PathInv, PathTypes, Sigs
    <3>5. Pending'
      BY <1>u, <3>3 DEF Pending
    <3>. QED
      BY <3>4, <3>5 DEF PathInv, Coming
  <2>3. CASE silent' = TRUE /\ UNCHANGED chan
    BY <1>u, <2>3 DEF PathInv, PathTypes, Coming
  <2>. QED
    BY <1>1, <2>2, <2>3 DEF Publish
<1>2. CASE DeleteType(o)
  BY <1>2, <1>u DEF DeleteType, PathInv, PathTypes, Coming
<1>3. CASE Save(o) /\ rows' # rows
  <2>1. /\ chan' = chan /\ silent' = (silent \/ ~op[o].push)
        /\ Go(o, IF op[o].push THEN "publish" ELSE "saved")
    BY <1>3 DEF Save
  <2>2. op[o].push => Pending'
    BY <1>g, <2>1 DEF Pending
  <2>3. ~op[o].push => silent'
    BY <2>1
  <2>. QED
    BY <1>u, <2>1, <2>2, <2>3 DEF PathInv, PathTypes, Coming
<1>4. CASE /\ UNCHANGED <<rows, chan, silent>> /\ op[o].pc # "publish"
           /\ \A q \in Ops : q # o => op'[q] = op[q]
  <2>1. Pending => Pending'
    BY <1>u, <1>4 DEF Pending
  <2>2. Coming'
    BY <1>u, <1>4, <2>1, ComingStays DEF PathInv
  <2>. QED
    BY <1>u, <1>4, <2>2 DEF PathInv, PathTypes
<1>5. CASE Version(o)
  BY <1>4, <1>5, <1>t DEF Version, history
<1>6. CASE Rollback(o)
  BY <1>4, <1>6, <1>g DEF Rollback, history
<1>7. CASE Refuse(o)
  BY <1>4, <1>7, <1>g DEF Refuse, history
<1>8. CASE SaveMax(o)
  <2>1. \A q \in Ops : q # o => op'[q] = op[q]
    BY <1>8, <1>t DEF SaveMax
  <2>. QED
    BY <1>4, <1>8, <2>1 DEF SaveMax, history
<1>9. CASE Save(o) /\ rows' = rows
  <2>1. (\E r \in rows : r.seq = op[o].seq) => Go(o, "conflict") /\ silent' = silent
    BY <1>9 DEF Save
  <2>2. CASE \A r \in rows : r.seq # op[o].seq
    <3>1. [seq |-> op[o].seq, val |-> op[o].val] \in rows'
      BY <1>9, <2>2 DEF Save
    <3>. QED
      BY <1>9, <2>2, <3>1
  <2>. QED
    BY <1>4, <1>9, <1>g, <2>1, <2>2 DEF Save
<1>. QED
  BY <1>1, <1>2, <1>3, <1>5, <1>6, <1>7, <1>8, <1>9 DEF Console

\* Bind, BindType: what was fetched is current unless a change is on its way.
LEMMA BindComes ==
    ASSUME SaveInv, BindInv, PathInv, UNCHANGED watcher, NEW b \in Bindings,
           BindFetch(b) \/ BindRegister(b)
    PROVE  PathInv'
<1>u. UNCHANGED <<rows, op, link, chan, sub, reload, round, imPub, silent, missed>>
  BY DEF BindFetch, BindRegister, server, gateway, history
<1>1. Current' = Current /\ (Pending' <=> Pending) /\ PathTypes'
  BY <1>u DEF Current, Pending, PathInv, PathTypes
<1>. SUFFICES ASSUME ~silent, ~Pending PROVE Settled'
  BY <1>u, <1>1 DEF PathInv, Coming
<1>2. Settled
  BY DEF PathInv, Coming
<1>t. DOMAIN bind = Bindings /\ DOMAIN bind[b] = {"pc", "got", "snap", "ver"}
  BY DEF BindInv, BindTypes
<1>3. \A c \in Bindings : c # b => bind'[c] = bind[c]
  BY <1>t DEF BindFetch, BindRegister
<1>4. bind'[b].pc = "fetched" => bind'[b].got.val = Current.val \/ b \in missed
  <2>1. CASE BindFetch(b)
    BY <1>t, <2>1 DEF BindFetch, GetConfig
  <2>2. CASE BindRegister(b)
    BY <1>t, <2>2 DEF BindRegister
  <2>. QED
    BY <2>1, <2>2
<1>5. bind'[b].pc = "bound" => Reflects(b)' \/ b \in missed
  <2>1. CASE BindFetch(b)
    <3>1. bind'[b].pc = "fetched"
      BY <1>t, <2>1 DEF BindFetch
    <3>. QED
      BY <3>1
  <2>2. CASE BindRegister(b)
    <3>. DEFINE got == bind[b].got
    <3>1. bind[b].pc = "fetched"
      BY <2>2 DEF BindRegister
    <3>2. bind'[b].pc = "bound" => bind'[b].snap = Applied(b, Zero, got.val)
      BY <1>t, <2>2 DEF BindRegister
    <3>3. b \notin missed => got.val = Current.val
      BY <1>2, <3>1 DEF Settled
    <3>. HIDE DEF got
    <3>4. ASSUME bind'[b].snap = Applied(b, Zero, Current.val) PROVE Reflects(b)'
      <4>1. Reflects(b)' <=> Applied(b, bind'[b].snap, Current.val) = bind'[b].snap
        BY <1>1 DEF Reflects, Applied, Fits
      <4>. QED
        BY <3>4, <4>1, AppliedOnce
    <3>. QED
      BY <3>2, <3>3, <3>4
  <2>. QED
    BY <2>1, <2>2
<1>6. \A c \in Bindings : c # b => (Reflects(c)' <=> Reflects(c))
  BY <1>1, <1>3 DEF Reflects
<1>7. \A c \in Bindings : ToCome(c)' <=> ToCome(c)
  BY <1>u DEF ToCome
<1>. QED
  BY <1>u, <1>1, <1>2, <1>3, <1>4, <1>5, <1>6, <1>7 DEF Settled

\* runConfigReload: the round reloads everything that is registered, and a binding that
\* misses it is in missed.
LEMMA ReloadComes ==
    ASSUME SaveInv, BindInv, PathInv, UNCHANGED watcher, ReloadTake \/ ReloadFetch \/ ApplySnapshot
    PROVE  PathInv'
<1>u. UNCHANGED <<rows, op, link, chan, sub, imPub, silent, registered>>
  BY DEF ReloadTake, ReloadFetch, ApplySnapshot, server, gateway, history
<1>c. Current' = Current
  BY <1>u DEF Current
<1>t. /\ round \in [todo : Seq(Bindings), got : Versions \cup {None}]
      /\ round.todo \in Seq(Bindings) /\ reload \in BOOLEAN
  BY DEF BindInv, RoundTypes, PathInv, PathTypes
<1>1. CASE ReloadTake
  <2>1. /\ reload' = FALSE /\ round' = [round EXCEPT !.todo = registered]
        /\ missed' = missed \cup {b \in Bindings : bind[b].pc = "fetched"} /\ bind' = bind
        /\ round.got = None
    BY <1>1 DEF ReloadTake, BindInv, RoundTypes
  <2>2. round'.todo = registered /\ round'.got = None
    BY <1>t, <2>1
  <2>3. \A b \in Bindings : bind[b].pc = "bound" => ToCome(b)'
    BY <2>2 DEF ToCome, BindInv, BindTypes
  <2>4. Settled'
    BY <2>1, <2>2, <2>3 DEF Settled
  <2>5. PathTypes'
    BY <1>u, <2>1 DEF PathInv, PathTypes
  <2>. QED
    BY <2>4, <2>5 DEF PathInv, Coming
<1>2. CASE ReloadFetch \/ ApplySnapshot
  <2>1. reload' = reload
    BY <1>2 DEF ReloadFetch, ApplySnapshot
  <2>2. PathTypes' /\ (Pending' <=> Pending)
    BY <1>u, <2>1 DEF PathInv, PathTypes, Pending
  <2>. SUFFICES ASSUME ~silent, ~Pending PROVE Settled'
    BY <1>u, <2>2 DEF PathInv, Coming
  <2>3. Settled /\ round.todo # <<>>
    BY <1>2 DEF PathInv, Coming, ReloadFetch, ApplySnapshot
  <2>h. PICK h : h = Head(round.todo)
    OBVIOUS
  <2>4. h \in Bindings /\ bind[h].pc = "bound" /\ h = round.todo[1] /\ 1 \in DOMAIN round.todo
    <3>1. h \in Bindings /\ h = round.todo[1] /\ 1 \in DOMAIN round.todo
      BY <1>t, <2>3, <2>h
    <3>. QED
      BY <3>1 DEF BindInv, RoundTypes
  <2>5. \A b \in Bindings : b # h /\ ToCome(b) => \E i \in DOMAIN Tail(round.todo) : Tail(round.todo)[i] = b
    <3>. SUFFICES ASSUME NEW b \in Bindings, b # h, NEW i \in DOMAIN round.todo, round.todo[i] = b
                  PROVE  \E j \in DOMAIN Tail(round.todo) : Tail(round.todo)[j] = b
      BY DEF ToCome
    <3>1. i # 1 /\ i \in 1..Len(round.todo)
      BY <1>t, <2>4
    <3>2. i - 1 \in DOMAIN Tail(round.todo) /\ Tail(round.todo)[i - 1] = round.todo[i]
      BY <1>t, <2>3, <3>1
    <3>. QED
      BY <3>2
  <2>6. CASE ReloadFetch
    <3>1. bind' = bind /\ \A b \in Bindings : Reflects(b)' <=> Reflects(b)
      BY <1>c, <2>6 DEF ReloadFetch, Reflects
    <3>2. CASE round' = [round EXCEPT !.got = GetConfig] /\ missed' = missed \ {h}
      <4>1. round'.got = Current /\ round'.todo = round.todo
        BY <1>t, <3>2 DEF GetConfig
      <4>2. \A b \in Bindings : ToCome(b)' <=> ToCome(b)
        BY <4>1 DEF ToCome
      <4>3. ToCome(h)'
        BY <4>1, <2>4 DEF ToCome
      <4>. QED
        BY <1>c, <2>3, <2>4, <3>1, <3>2, <4>1, <4>2, <4>3 DEF Settled
    <3>3. CASE round' = [round EXCEPT !.todo = Tail(@)] /\ missed' = missed \cup {h}
      <4>1. round'.got = None /\ round'.todo = Tail(round.todo)
        BY <1>t, <2>6, <3>3 DEF ReloadFetch
      <4>2. \A b \in Bindings : b # h /\ ToCome(b) => ToCome(b)'
        BY <2>5, <4>1 DEF ToCome
      <4>. QED
        BY <1>c, <2>3, <3>1, <3>3, <4>1, <4>2 DEF Settled
    <3>. QED
      BY <2>6, <2>h, <3>2, <3>3 DEF ReloadFetch
  <2>7. CASE ApplySnapshot
    <3>t. DOMAIN bind = Bindings /\ DOMAIN bind[h] = {"pc", "got", "snap", "ver"}
      BY <2>4 DEF BindInv, BindTypes
    <3>1. round.got = Current /\ missed' = missed
      BY <2>3, <2>7 DEF ApplySnapshot, Settled, history
    <3>2. round'.got = None /\ round'.todo = Tail(round.todo)
      BY <2>7 DEF ApplySnapshot
    <3>3. /\ bind'[h].pc = "bound" /\ bind'[h].snap = Applied(h, bind[h].snap, Current.val)
          /\ \A b \in Bindings : b # h => bind'[b] = bind[b]
      <4>1. bind' = [bind EXCEPT ![h].snap = Applied(h, @, round.got.val), ![h].ver = round.got.seq]
        BY <2>7, <2>h DEF ApplySnapshot
      <4>2. bind'[h].snap = Applied(h, bind[h].snap, round.got.val) /\ bind'[h].pc = bind[h].pc
        BY <3>t, <4>1, <2>4
      <4>. QED
        BY <3>1, <3>t, <4>1, <4>2, <2>4
    <3>4. Reflects(h)'
      <4>1. Reflects(h)' <=> Applied(h, bind'[h].snap, Current.val) = bind'[h].snap
        BY <1>c DEF Reflects, Applied, Fits
      <4>. QED
        BY <3>3, <4>1, AppliedOnce
    <3>5. \A b \in Bindings : b # h => (Reflects(b)' <=> Reflects(b))
      BY <1>c, <3>3 DEF Reflects
    <3>6. \A b \in Bindings : b # h /\ ToCome(b) => ToCome(b)'
      BY <2>5, <3>2 DEF ToCome
    <3>. QED
      BY <1>c, <2>3, <3>1, <3>2, <3>3, <3>4, <3>5, <3>6 DEF Settled
  <2>. QED
    BY <1>2, <2>6, <2>7
<1>. QED
  BY <1>1, <1>2

\* Every step preserves PathInv.
LEMMA PathStep ==
    ASSUME SaveInv, BindInv, PathInv, [Next]_vars
    PROVE  PathInv'
<1>1. CASE UNCHANGED vars
  <2>1. /\ UNCHANGED <<rows, op, link, chan, watcher, sub, reload, round, bind>>
        /\ UNCHANGED <<imPub, silent, missed>>
    BY <1>1 DEF vars, server, client, gateway, history
  <2>2. (Pending' <=> Pending) /\ PathTypes'
    BY <2>1 DEF Pending, PathInv, PathTypes
  <2>. QED
    BY <2>1, <2>2, ComingStays DEF PathInv
<1>2. CASE (\E o \in Ops : Console(o)) /\ UNCHANGED watcher
  BY <1>2, ConsoleAnnounces
<1>3. CASE (\E b \in Bindings : BindFetch(b) \/ BindRegister(b)) /\ UNCHANGED watcher
  BY <1>3, BindComes
<1>4. CASE (ReloadTake \/ ReloadFetch \/ ApplySnapshot) /\ UNCHANGED watcher
  BY <1>4, ReloadComes
<1>5. CASE /\ UNCHANGED watcher
           /\ \/ Cut \/ Subscribe \/ HubRun \/ Watch \/ StreamEnds \/ Recv
              \/ SetIMConfig \/ PublishIM \/ Load
  <2>1. PathTypes' /\ (watcher # {} /\ Pending => Pending')
    BY <1>5, SignalsKept DEF PathInv
  <2>2. UNCHANGED <<bind, round, rows, silent, missed>>
    BY <1>5 DEF Cut, Subscribe, HubRun, Watch, StreamEnds, Recv, SetIMConfig, PublishIM, Load,
                server, client, history
  <2>. QED
    BY <2>1, <2>2, ComingStays DEF PathInv
<1>. QED
  BY <1>1, <1>2, <1>3, <1>4, <1>5 DEF Next

\* The stream is still to be opened.
LEMMA PathInit == Init => PathInv
<1>. SUFFICES ASSUME Init PROVE PathInv
  OBVIOUS
<1>1. /\ sub \in [state : {"none", "open", "closed"}, ready : BOOLEAN, buf : Seq({"center", "im", "gap"})]
      /\ sub.state = "none"
  BY DEF Init, NoSub
<1>2. PathTypes
  <2>1. \A S : <<>> \in Seq(S)
    OBVIOUS
  <2>. QED
    BY <1>1, <2>1 DEF Init, PathTypes
<1>3. Pending
  BY <1>1 DEF Pending
<1>. QED
  BY <1>2, <1>3 DEF PathInv, Coming

\* requestConfigReload, runConfigReload, ConfigHub: for any number of saves, faults and
\* contents, merging signals, closing slow subscribers and gaps lose nothing.  When all is
\* quiet every binding reflects the current version, unless the change was not announced or
\* this binding's last fetch failed or overlapped its registration.
THEOREM QuietMeansCurrent == Spec => []QuietReflects
<1>1. SaveInv /\ BindInv /\ PathInv /\ [Next]_vars => SaveInv' /\ BindInv' /\ PathInv'
  BY SaveStep, BindStep, PathStep
<1>2. PathInv => QuietReflects
  <2>. SUFFICES ASSUME PathInv, Quiet, ~silent, NEW b \in Bindings, bind[b].pc = "bound", b \notin missed
                PROVE  Reflects(b)
    BY DEF QuietReflects
  <2>1. ~Pending /\ ~ToCome(b)
    BY DEF Quiet, Pending, ToCome
  <2>. QED
    BY <2>1 DEF PathInv, Coming, Settled
<1>. QED
  BY <1>1, <1>2, SaveInit, BindInit, PathInit, PTL DEF Spec
=============================================================================
