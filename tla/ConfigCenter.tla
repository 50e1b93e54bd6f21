---------------------------- MODULE ConfigCenter ----------------------------
(***************************************************************************)
(* The configuration centre, from the console to the processes that read   *)
(* it.                                                                     *)
(*                                                                         *)
(*   ConfigService (internal/service/config.go) -> Redis channel ->        *)
(*   ConfigHub (internal/grpcapi/config_hub.go) -> Watch stream ->         *)
(*   Client.runConfigReload -> Binding and TypeBinding (sdk/).             *)
(*                                                                         *)
(* The same channel announces changes of an application's IM settings      *)
(* (ApplicationService.SetIMConfig) to the IM gateway, which keeps them in *)
(* fpappcfg.Source.                                                        *)
(*                                                                         *)
(* One application and one partition of its configuration, and one process *)
(* that watches: an application with bindings, or a gateway.  A content is *)
(* a function on the keys that are set; "bad" is a value whose type does   *)
(* not fit the field it is bound to.                                       *)
(***************************************************************************)
EXTENDS Integers, Sequences

CONSTANTS
    Ops,               \* calls of the console: Save, Rollback or DeleteType
    GatewayOps,        \* bound: those made while a gateway watches
    Watchers,          \* the watching processes to consider: the set of an
                       \* application's bindings; {} is a gateway
    Keys, Contents,    \* the fields of the bound struct; what may be saved
    KeepVersions,      \* ConfigMaxVersions
    BufSize,           \* configBufferSize
    MaxFaults,         \* bound: failing publishes and fetches, broken links
    MaxIM              \* bound: calls of SetIMConfig

ASSUME ConfigAssumption ==
    /\ GatewayOps \subseteq Ops /\ Watchers \subseteq SUBSET {"struct", "map"}
    /\ \A c \in Contents : DOMAIN c \subseteq Keys
    /\ KeepVersions \in Nat \ {0} /\ BufSize \in Nat \ {0}
    /\ MaxFaults \in Nat /\ MaxIM \in Nat

VARIABLES
    rows,              \* table config: [seq, val]
    op,                \* where each call of the console stands
    link, chan,        \* the hub's Redis subscription; signals it has received
    watcher,           \* the bindings of the watching process
    sub,               \* its Watch stream: the subscriber and its queue
    reload,            \* Client.cfgReload holds a signal
    round,             \* runConfigReload: bindings still to reload, content fetched
    registered,        \* Client.bindings, in order of registration
    bind,              \* per binding: Bind or BindType under way; its snapshot
    imRow, imPub,      \* the application's IM settings; PublishIM outstanding
    im,                \* the gateway's Source.apps
    faults,
    silent,            \* history: the newest change was not announced
    missed,            \* history: bindings that missed the last reload
    wiped              \* history: DeleteType has run

server == <<rows, op, link, chan>>
client == <<reload, round, registered, bind>>
gateway == <<imRow, imPub, im>>
history == <<silent, missed, wiped>>
vars == <<server, watcher, sub, client, gateway, faults, history>>

Bindings == {"struct", "map"}     \* Bind[T] and BindType
Empty    == [k \in {} |-> "a"]
None     == [seq |-> -1, val |-> Empty]
Zero     == [k \in Keys |-> "zero"]
NoOp     == [pc |-> "idle", val |-> Empty, push |-> FALSE, seq |-> 0]
NoSub    == [state |-> "none", ready |-> FALSE, buf |-> <<>>]

Fault == faults < MaxFaults /\ faults' = faults + 1

Init ==
    /\ watcher \in Watchers /\ sub = NoSub
    /\ rows = {} /\ link = "up" /\ chan = <<>>
    /\ op = [o \in Ops |-> IF watcher # {} \/ o \in GatewayOps THEN NoOp
                            ELSE [NoOp EXCEPT !.pc = "same"]]
    /\ reload = FALSE /\ round = [todo |-> <<>>, got |-> None] /\ registered = <<>>
    /\ bind = [b \in Bindings |-> [pc |-> "none", got |-> None, snap |-> Zero, ver |-> 0]]
    /\ imRow = 1 /\ imPub = FALSE /\ im = 0
    /\ faults = 0 /\ silent = FALSE /\ missed = {} /\ wiped = FALSE

-----------------------------------------------------------------------------
(* ConfigService                                                           *)

(* Current: the newest version, or version 0 without any key.              *)
Current ==
    IF rows = {} THEN [seq |-> 0, val |-> Empty]
    ELSE CHOOSE r \in rows : \A q \in rows : q.seq <= r.seq

(* The RPC GetConfig answers with the current version, read when it runs.  *)
GetConfig == Current

Go(o, pc) == op' = [op EXCEPT ![o].pc = pc]

(* Rollback reads the version it returns to ...                            *)
Version(o) ==
    /\ op[o].pc = "idle"
    /\ \E r \in rows, p \in BOOLEAN :
          op' = [op EXCEPT ![o] = [pc |-> "compare", val |-> r.val, push |-> p, seq |-> 0]]
    /\ UNCHANGED <<rows, link, chan, sub, client, gateway, faults, history>>

(* ... and compares it with the current one; it saves it unless they agree.*)
Rollback(o) ==
    /\ op[o].pc = "compare"
    /\ Go(o, IF Current.val = op[o].val THEN "same" ELSE "max")
    /\ UNCHANGED <<rows, link, chan, sub, client, gateway, faults, history>>

(* Save's early returns: a type that is no identifier, a text that is not  *)
(* a YAML mapping even after NormalizeConfigYAML.                          *)
Refuse(o) ==
    /\ op[o].pc = "idle" /\ Go(o, "refused")
    /\ UNCHANGED <<rows, link, chan, sub, client, gateway, faults, history>>

(* Save's transaction, called by Rollback or by the console with a text    *)
(* that passed NormalizeConfigYAML and ParseConfigYAML: SELECT MAX(seq) + 1*)
SaveMax(o) ==
    /\ \/ op[o].pc = "max" /\ op' = [op EXCEPT ![o].pc = "insert", ![o].seq = Current.seq + 1]
       \/ /\ op[o].pc = "idle"
          /\ \E c \in Contents, p \in BOOLEAN :
                op' = [op EXCEPT ![o] = [pc |-> "insert", val |-> c, push |-> p,
                                         seq |-> Current.seq + 1]]
    /\ UNCHANGED <<rows, link, chan, sub, client, gateway, faults, history>>

(* Variant: the INSERT replaces a row with the same key.                   *)
SaveUpsert(o) ==
    LET new == [seq |-> op[o].seq, val |-> op[o].val] IN
    /\ op[o].pc = "insert"
    /\ rows' = {r \in rows : r.seq # new.seq /\ r.seq > new.seq - KeepVersions} \cup {new}
    /\ Go(o, IF op[o].push THEN "publish" ELSE "saved")
    /\ silent' = (silent \/ ~op[o].push)
    /\ UNCHANGED <<link, chan, sub, client, gateway, faults, missed, wiped>>

(* ... then INSERT, refused when another call took the number, and DELETE  *)
(* of the versions beyond the last KeepVersions.                           *)
Save(o) ==
    LET new == [seq |-> op[o].seq, val |-> op[o].val] IN
    /\ op[o].pc = "insert"
    /\ \/ /\ \E r \in rows : r.seq = new.seq
          /\ Go(o, "conflict")
          /\ UNCHANGED <<rows, silent>>
       \/ /\ \A r \in rows : r.seq # new.seq
          /\ rows' = {r \in rows : r.seq > new.seq - KeepVersions} \cup {new}
          /\ Go(o, IF op[o].push THEN "publish" ELSE "saved")
          /\ silent' = (silent \/ ~op[o].push)
    /\ UNCHANGED <<link, chan, sub, client, gateway, faults, missed, wiped>>

(* DeleteType announces nothing.                                           *)
DeleteType(o) ==
    /\ op[o].pc = "idle"
    /\ Go(o, "deleted")
    /\ rows' = {} /\ silent' = TRUE /\ wiped' = TRUE
    /\ UNCHANGED <<link, chan, sub, client, gateway, faults, missed>>

(* PUBLISH reaches the hub if it is subscribed.                            *)
Signal(sig) == chan' = IF link = "up" THEN Append(chan, sig) ELSE chan

(* ConfigPublisher.Publish; a failure is logged and the save stands.       *)
Publish(o) ==
    /\ op[o].pc = "publish" /\ Go(o, "saved")
    /\ \/ Signal("center") /\ silent' = FALSE /\ UNCHANGED faults
       \/ Fault /\ silent' = TRUE /\ UNCHANGED chan
    /\ UNCHANGED <<rows, link, sub, client, gateway, missed, wiped>>

-----------------------------------------------------------------------------
(* store.ConfigPublisher.Subscribe and ConfigHub                           *)

Cut ==
    /\ link = "up" /\ Fault
    /\ link' = "cut"
    /\ UNCHANGED <<rows, op, chan, sub, client, gateway, history>>

(* Variant: nobody is told that signals were lost.                         *)
SubscribeSilent ==
    /\ link = "cut"
    /\ link' = "up"
    /\ UNCHANGED <<rows, op, chan, sub, client, gateway, faults, history>>

(* go-redis subscribes again; what was published meanwhile is lost, so a   *)
(* Gap follows.                                                            *)
Subscribe ==
    /\ link = "cut"
    /\ link' = "up" /\ chan' = Append(chan, "gap")
    /\ UNCHANGED <<rows, op, sub, client, gateway, faults, history>>

Wants(sig) == sig = "gap" \/ (sig = "im") = (watcher = {})

(* fanout: a subscriber whose queue is full is closed and removed.         *)
Fanout(sig) ==
    IF sub.state # "open" \/ ~Wants(sig) THEN sub
    ELSE IF Len(sub.buf) = BufSize THEN [sub EXCEPT !.state = "closed"]
    ELSE [sub EXCEPT !.buf = Append(@, sig)]

HubRun ==
    /\ chan # <<>>
    /\ chan' = Tail(chan)
    /\ sub' = Fanout(Head(chan))
    /\ UNCHANGED <<rows, op, link, client, gateway, faults, history>>

-----------------------------------------------------------------------------
(* Variant: a new stream does not ask for a reload.                        *)
WatchUnready ==
    /\ sub.state = "none"
    /\ sub' = [state |-> "open", ready |-> FALSE, buf |-> <<>>]
    /\ UNCHANGED <<server, client, gateway, faults, history>>

(* Watch on both sides: subscribe, then ready; the stream ends when the    *)
(* queue is closed, or breaks.                                             *)
Watch ==
    /\ sub.state = "none"
    /\ sub' = [state |-> "open", ready |-> TRUE, buf |-> <<>>]
    /\ UNCHANGED <<server, client, gateway, faults, history>>

(* Variant: a closed queue does not end the stream.                        *)
StreamStays ==
    /\ sub.state # "none" /\ Fault
    /\ sub' = NoSub
    /\ UNCHANGED <<server, client, gateway, history>>

StreamEnds ==
    /\ \/ sub.state = "closed" /\ sub.buf = <<>> /\ ~sub.ready /\ UNCHANGED faults
       \/ sub.state # "none" /\ Fault
    /\ sub' = NoSub
    /\ UNCHANGED <<server, client, gateway, history>>

(* watchOnce: ready and ConfigChanged put a signal into cfgReload unless   *)
(* one is there; AppIMConfigChanged falls through the switch.  A gateway's *)
(* client has no bindings to reload.                                       *)
Recv ==
    /\ sub.ready \/ sub.buf # <<>>
    /\ sub' = IF sub.ready THEN [sub EXCEPT !.ready = FALSE] ELSE [sub EXCEPT !.buf = Tail(@)]
    /\ reload' = (reload \/ watcher # {})
    /\ UNCHANGED <<server, round, registered, bind, gateway, faults, history>>

-----------------------------------------------------------------------------
(* The bindings                                                            *)

Fits(c) == \A k \in DOMAIN c : c[k] # "bad"

(* applyValues: a key that is missing keeps its value, one value that does *)
(* not parse leaves the whole snapshot as it was.  TypeBinding.applySnapshot*)
(* takes the content as it is.                                             *)
Applied(b, old, c) ==
    IF b = "map" THEN c
    ELSE IF ~Fits(c) THEN old
    ELSE [k \in Keys |-> IF k \in DOMAIN c THEN c[k] ELSE old[k]]

(* Variant: the binding is registered before its first snapshot is stored. *)
BindFetchRegistered(b) ==
    /\ b \in watcher /\ bind[b].pc = "none"
    /\ bind' = [bind EXCEPT ![b].pc = "fetched", ![b].got = Current]
    /\ registered' = Append(registered, b)
    /\ UNCHANGED <<server, sub, reload, round, gateway, faults, history>>

(* Bind, BindType: fetch ...                                               *)
BindFetch(b) ==
    /\ b \in watcher /\ bind[b].pc = "none"
    /\ bind' = [bind EXCEPT ![b].pc = "fetched", ![b].got = GetConfig]
    /\ UNCHANGED <<server, sub, reload, round, registered, gateway, faults, history>>

(* ... then store the first snapshot and register; a struct that does not  *)
(* fit makes Bind fail.                                                    *)
BindRegister(b) ==
    LET got == bind[b].got
        ok  == b = "map" \/ Fits(got.val) IN
    /\ bind[b].pc = "fetched"
    /\ bind' = [bind EXCEPT ![b] =
                   IF ok THEN [pc |-> "bound", got |-> None,
                               snap |-> Applied(b, Zero, got.val), ver |-> got.seq]
                   ELSE [@ EXCEPT !.pc = "none", !.got = None]]
    /\ registered' = IF ok THEN Append(registered, b) ELSE registered
    /\ UNCHANGED <<server, sub, reload, round, gateway, faults, history>>

(* runConfigReload takes the signal and copies the list of bindings; a     *)
(* binding that has fetched and is not registered yet misses the round.    *)
ReloadTake ==
    /\ reload /\ round.todo = <<>>
    /\ reload' = FALSE /\ round' = [round EXCEPT !.todo = registered]
    /\ missed' = missed \cup {b \in Bindings : bind[b].pc = "fetched"}
    /\ UNCHANGED <<server, sub, registered, bind, gateway, faults, silent, wiped>>

(* reloadFromPush, one binding after the other: GetConfig reads the current*)
(* version; an error is raised and not retried.                            *)
ReloadFetch ==
    /\ round.todo # <<>> /\ round.got = None
    /\ \/ /\ round' = [round EXCEPT !.got = GetConfig]
          /\ missed' = missed \ {Head(round.todo)}
          /\ UNCHANGED faults
       \/ /\ Fault
          /\ round' = [round EXCEPT !.todo = Tail(@)]
          /\ missed' = missed \cup {Head(round.todo)}
    /\ UNCHANGED <<server, sub, reload, registered, bind, gateway, silent, wiped>>

ApplySnapshot ==
    LET b == Head(round.todo) IN
    /\ round.todo # <<>> /\ round.got # None
    /\ bind' = [bind EXCEPT ![b].snap = Applied(b, @, round.got.val),
                            ![b].ver = round.got.seq]
    /\ round' = [todo |-> Tail(round.todo), got |-> None]
    /\ UNCHANGED <<server, sub, reload, registered, gateway, faults, history>>

-----------------------------------------------------------------------------
(* ApplicationService.SetIMConfig: the UPDATE, then PublishIM.             *)
SetIMConfig ==
    /\ watcher = {} /\ ~imPub /\ imRow <= MaxIM
    /\ imRow' = imRow + 1 /\ imPub' = TRUE
    /\ UNCHANGED <<server, sub, client, im, faults, history>>

PublishIM ==
    /\ imPub /\ imPub' = FALSE
    /\ \/ Signal("im") /\ UNCHANGED faults
       \/ Fault /\ UNCHANGED chan
    /\ UNCHANGED <<rows, op, link, sub, client, imRow, im, history>>

(* The RPC GetAppIMConfig.                                                 *)
GetAppIMConfig == imRow

(* Source.Load, on a handshake: fetch and store unless cached.             *)
Load ==
    /\ watcher = {} /\ im = 0
    /\ im' = GetAppIMConfig
    /\ UNCHANGED <<server, sub, client, imRow, imPub, faults, history>>

-----------------------------------------------------------------------------
Console(o) == Version(o) \/ Rollback(o) \/ Refuse(o) \/ SaveMax(o) \/ Save(o)
              \/ DeleteType(o) \/ Publish(o)

Next ==
    /\ UNCHANGED watcher
    /\ \/ \E o \in Ops : Console(o)
       \/ Cut \/ Subscribe \/ HubRun
       \/ Watch \/ StreamEnds \/ Recv
       \/ \E b \in Bindings : BindFetch(b) \/ BindRegister(b)
       \/ ReloadTake \/ ReloadFetch \/ ApplySnapshot
       \/ SetIMConfig \/ PublishIM \/ Load

Spec == Init /\ [][Next]_vars

(* The goroutines of server and SDK run; calls that have begun go on.      *)
Publishing    == (\E o \in Ops : Publish(o)) /\ UNCHANGED watcher
Resubscribing == Subscribe /\ UNCHANGED watcher
Fanning       == HubRun /\ UNCHANGED watcher
Watching      == (Watch \/ StreamEnds) /\ UNCHANGED watcher
Receiving     == Recv /\ UNCHANGED watcher
Reloading     == (ReloadTake \/ ReloadFetch \/ ApplySnapshot) /\ UNCHANGED watcher

Fairness ==
    /\ WF_vars(Publishing) /\ WF_vars(Resubscribing) /\ WF_vars(Fanning)
    /\ WF_vars(Watching) /\ WF_vars(Receiving) /\ WF_vars(Reloading)

LiveSpec == Spec /\ Fairness

-----------------------------------------------------------------------------
(* Types of the variables.                                                 *)
TypeOK ==
    /\ \A r \in rows : r.seq \in Nat \ {0} /\ r.val \in Contents
    /\ \A o \in Ops : op[o].pc \in {"idle", "compare", "max", "insert", "publish",
                                    "saved", "same", "conflict", "refused", "deleted"}
    /\ link \in {"up", "cut"} /\ chan \in Seq({"center", "im", "gap"})
    /\ watcher \in Watchers
    /\ sub.state \in {"none", "open", "closed"} /\ Len(sub.buf) <= BufSize
    /\ reload \in BOOLEAN /\ registered \in Seq(Bindings)
    /\ faults \in 0..MaxFaults /\ im \in 0..imRow

(* ConfigService.Save: a version the console was told of is in the table   *)
(* with its content, until KeepVersions newer ones or DeleteType remove it.*)
AckedVersionKept ==
    \A o \in Ops : op[o].pc = "saved" /\ ~wiped /\ op[o].seq > Current.seq - KeepVersions
        => [seq |-> op[o].seq, val |-> op[o].val] \in rows

Reflects(b) == Applied(b, bind[b].snap, Current.val) = bind[b].snap

Quiet ==
    /\ \A o \in Ops : op[o].pc # "publish"
    /\ link = "up" /\ chan = <<>>
    /\ sub.state = "open" /\ ~sub.ready /\ sub.buf = <<>>
    /\ ~reload /\ round.todo = <<>>

(* requestConfigReload, runConfigReload: merging signals loses nothing.    *)
(* When all is quiet every binding reflects the current version, unless    *)
(* the change was not announced or this binding's last fetch failed or     *)
(* overlapped its registration.                                            *)
QuietReflects ==
    Quiet /\ ~silent =>
        \A b \in Bindings : bind[b].pc = "bound" /\ b \notin missed => Reflects(b)

(* runConfigReload: one goroutine reloads, so that an older answer never   *)
(* replaces a newer one (DeleteType restarts the numbers).                 *)
NeverOlder ==
    [][~wiped' => \A b \in Bindings : bind'[b].ver >= bind[b].ver]_vars

(* An announced change arrives: a binding that does not reflect the        *)
(* current version comes to do so, the same exceptions apart.              *)
ChangeArrives ==
    \A b \in Bindings :
        bind[b].pc = "bound" /\ ~Reflects(b)
            ~> Reflects(b) \/ silent \/ b \in missed

(* Source.Invalidate's comment: a change of the IM settings is pushed to   *)
(* the gateway and drops what it has cached, so once the push has gone     *)
(* through the gateway does not keep the old settings.                     *)
GatewayFollows ==
    /\ ~imPub /\ link = "up" /\ chan = <<>>
    /\ sub.state = "open" /\ ~sub.ready /\ sub.buf = <<>>
    => im \in {0, imRow}
=============================================================================
