------------------------------- MODULE Notify -------------------------------
(***************************************************************************)
(* The notification centre: NotifyService.Send with its idempotency lease  *)
(* in Redis and its fail-over between providers (notify_send.go), the      *)
(* console operations on providers, templates and links (notify.go), and   *)
(* the retries of the SDK's Notify.Send.                                   *)
(*                                                                         *)
(* One template and one idempotency key, used by several callers.  A step  *)
(* is one Redis command or script, one SQL statement, or one attempt at a  *)
(* provider.  A tick is half of notifyIdemProcessingTTL.                   *)
(***************************************************************************)
EXTENDS Integers, Sequences, FiniteSets

CONSTANTS
    Clients, Providers, Vars, \* callers of Send; providers; names of variables
    Attempts,                 \* notifyAttempts of the SDK, at most
    CacheMax,                 \* instances kept by providerFor
    Instances                 \* the instances to check, one of which is inst

ASSUME NotifyAssumption ==
    /\ Attempts \in Nat \ {0} /\ CacheMax \in Nat \ {0}
    /\ IsFiniteSet(Providers)
    /\ \A i \in Instances : i.ops \in Nat /\ i.faults \in Nat /\ i.clients \subseteq Clients
                          /\ i.attempts \in 1..Attempts
                          /\ i.params \subseteq SUBSET Vars

VARIABLES
    inst,      \* who calls, how often and with which parameters, the channel, and how many
               \* console operations and faults there are; never changes
    key,       \* Redis: the idempotency key
    row, link, \* tables notify_provider and notify_template_provider
    tpl,       \* the row of notify_template
    cache,     \* NotifyService.cache: the instances built, with the version they are of
    cl, rq,    \* callers, and the server's request for each of their attempts
    op,        \* the console operation under way
    ops, faults,
    delivered, \* history: messages that reached the recipient
    excused    \* history: a fault after which a second message is unavoidable

console == <<row, link, tpl, op, ops>>
history == <<faults, delivered, excused>>
vars    == <<inst, key, console, cache, cl, rq, history>>

TTL    == 2
NoKey  == [st |-> "none", by |-> <<>>, ttl |-> 0]
NoOp   == [pc |-> "none", p |-> "none", seen |-> FALSE]
NoTpl  == [st |-> "none", uses |-> {}, vars |-> {}]
Req    == Clients \X (1..Attempts)
NoReq  == [pc |-> "none", round |-> 1, cands |-> <<>>, ver |-> 0, tpl |-> NoTpl, params |-> {},
           ok |-> FALSE, gone |-> FALSE, age |-> 0, since |-> [p \in Providers |-> 0]]

(* NeedsRecipient: messages to a chat have one target and no fail-over.    *)
NeedsRecipient == inst.channel = "sms"

Init ==
    /\ inst \in Instances
    /\ key = NoKey /\ cache = {}
    /\ row = [p \in Providers |-> [there |-> TRUE, on |-> TRUE, ver |-> 1]]
    /\ \E p \in Providers :
          link = [q \in Providers |->
                    [there |-> NeedsRecipient \/ q = p, on |-> TRUE, priority |-> 0]]
    /\ tpl = [st |-> "on", uses |-> Vars, vars |-> Vars]
    /\ cl = [c \in Clients |-> [n |-> 0, pc |-> "ready"]]
    /\ rq = [r \in Req |-> NoReq]
    /\ op = NoOp /\ ops = 0
    /\ faults = 0 /\ delivered = 0 /\ excused = FALSE

Set(r, new) == rq' = [rq EXCEPT ![r] = new]
Go(r, pc) == Set(r, [rq[r] EXCEPT !.pc = pc])
End(r, pc, ok) == Set(r, [NoReq EXCEPT !.pc = pc, !.ok = ok])
Running(r) == rq[r].pc \notin {"none", "over", "busy", "crashed"}
Owns(r) == key.st = "processing" /\ key.by = r

-----------------------------------------------------------------------------
(* The SDK                                                                 *)

(* Notify.Send: every attempt uses the same key.                           *)
Send(c) ==
    /\ c \in inst.clients /\ cl[c].pc = "ready"
    /\ cl' = [cl EXCEPT ![c] = [n |-> @.n + 1, pc |-> "waiting"]]
    /\ \E params \in inst.params :
          Set(<<c, cl[c].n + 1>>,
              [NoReq EXCEPT !.pc = "load", !.params = params,
                            !.since = [p \in Providers |-> row[p].ver]])
    /\ UNCHANGED <<key, console, cache, history>>

(* retryableNotify: no answer in time, an unreachable server, and "in      *)
(* progress" are tried again; anything else is the caller's answer.        *)
Retry(c) == [cl EXCEPT ![c].pc = IF cl[c].n < inst.attempts THEN "ready" ELSE "failed"]

SendOnce(c) ==
    LET r == <<c, cl[c].n>> IN
    /\ cl[c].pc = "waiting"
    /\ \/ /\ rq[r].pc \in {"busy", "crashed"} /\ cl' = Retry(c) /\ UNCHANGED rq
       \/ /\ rq[r].pc = "over" /\ UNCHANGED rq
          /\ cl' = [cl EXCEPT ![c].pc = IF rq[r].ok THEN "sent" ELSE "failed"]
       \/ /\ Running(r) /\ cl' = Retry(c) /\ Set(r, [rq[r] EXCEPT !.gone = TRUE])
    /\ UNCHANGED <<key, console, cache, history>>

-----------------------------------------------------------------------------
(* NotifyService.Send                                                      *)

(* ValidateParams and Render on the names of variables: the parameters are *)
(* exactly the variables declared; a placeholder without one stays.        *)
ValidateParams(t, params) == params = t.vars
Render(t, params) == t.uses \ params

(* Load the template and check the request against it.                     *)
LoadTemplate(r) ==
    /\ rq[r].pc = "load"
    /\ IF tpl.st = "on" /\ ValidateParams(tpl, rq[r].params)
       THEN Set(r, [rq[r] EXCEPT !.pc = "acquire", !.tpl = tpl])
       ELSE End(r, "over", FALSE)
    /\ UNCHANGED <<key, console, cache, cl, history>>

(* acquireIdem: SETNX ...                                                  *)
AcquireSet(r) ==
    /\ rq[r].pc = "acquire"
    /\ IF key.st = "none"
       THEN /\ key' = [st |-> "processing", by |-> r, ttl |-> TTL]
            /\ Set(r, [rq[r] EXCEPT !.pc = "candidates", !.age = 0])
       ELSE Go(r, "get") /\ UNCHANGED key
    /\ UNCHANGED <<console, cache, cl, history>>

(* ... and GET; a key that has just expired is tried for once more.        *)
AcquireGet(r) ==
    /\ rq[r].pc = "get"
    /\ CASE key.st = "done" -> End(r, "over", TRUE)
         [] key.st = "none" /\ rq[r].round = 1 -> Set(r, [rq[r] EXCEPT !.pc = "acquire", !.round = 2])
         [] OTHER -> End(r, "busy", FALSE)
    /\ UNCHANGED <<key, console, cache, cl, history>>

(* candidates and order: the providers that are enabled, with their        *)
(* version, the highest priority first and equals shuffled.                *)
Orders(ps) ==
    {s \in [1..Cardinality(ps) -> ps] :
        /\ \A i, j \in DOMAIN s : i # j => s[i] # s[j]
        /\ \A i, j \in DOMAIN s : i < j => link[s[i]].priority >= link[s[j]].priority}

Candidates(r) ==
    LET ps == {p \in Providers : link[p].there /\ link[p].on /\ row[p].there /\ row[p].on} IN
    /\ rq[r].pc = "candidates"
    /\ IF ps = {} THEN Set(r, [rq[r] EXCEPT !.pc = "settle", !.ok = FALSE])
       ELSE \E s \in Orders(ps) :
               LET cands == [i \in DOMAIN s |-> [p |-> s[i], ver |-> row[s[i]].ver]] IN
               Set(r, [rq[r] EXCEPT !.pc = "renew",
                                    !.cands = IF NeedsRecipient THEN cands ELSE <<cands[1]>>])
    /\ UNCHANGED <<key, console, cache, cl, history>>

(* Variant: instances are kept by provider alone.                          *)
ProviderForAny(c) ==
    LET hit == {i \in cache : i.p = c.p} IN
    IF hit # {} THEN [ver |-> (CHOOSE i \in hit : TRUE).ver, cache |-> cache]
    ELSE [ver |-> c.ver, cache |-> cache \cup {c}]

(* providerFor: the instance of this version of the provider, or a new one;*)
(* a full cache is emptied first.                                          *)
ProviderFor(c) ==
    [ver |-> c.ver,
     cache |-> IF c \in cache THEN cache
               ELSE IF Cardinality(cache) >= CacheMax THEN {c} ELSE cache \cup {c}]

(* Variant: the lease is not renewed between two providers.                *)
RenewNever(r) == rq[r].pc = "renew" /\ UNCHANGED <<key, faults, excused>>

(* renewIdem: only the owner can renew; it may fail, and nobody looks.     *)
RenewIdem(r) ==
    /\ rq[r].pc = "renew"
    /\ \/ ~Owns(r) /\ UNCHANGED <<key, faults, excused>>
       \/ Owns(r) /\ key' = [key EXCEPT !.ttl = TTL] /\ UNCHANGED <<faults, excused>>
       \/ /\ Owns(r) /\ UNCHANGED key
          /\ faults < inst.faults /\ faults' = faults + 1 /\ excused' = TRUE

(* One round of dispatch's loop: renew, stop if the caller has gone, and   *)
(* turn to the next candidate.                                             *)
NextCandidate(r) ==
    LET c == Head(rq[r].cands) IN
    /\ RenewIdem(r)
    /\ IF rq[r].gone
       THEN Set(r, [rq[r] EXCEPT !.age = 0, !.pc = "settle"]) /\ UNCHANGED cache
       ELSE /\ Set(r, [rq[r] EXCEPT !.age = 0, !.pc = "sending", !.ver = ProviderFor(c).ver])
            /\ cache' = ProviderFor(c).cache
    /\ UNCHANGED <<console, cl, delivered>>

(* sendVia and writeNotifyLog: the message is sent; or it is not; or it is *)
(* and the attempt still ends in an error.                                 *)
SendVia(r) ==
    LET left == Tail(rq[r].cands)
        next(ok) == Set(r, [rq[r] EXCEPT !.pc = IF ok \/ left = <<>> THEN "settle" ELSE "renew",
                                         !.ok = ok, !.cands = left]) IN
    /\ rq[r].pc = "sending"
    /\ \/ next(TRUE) /\ delivered' = delivered + 1 /\ UNCHANGED <<faults, excused>>
       \/ next(FALSE) /\ UNCHANGED <<delivered, faults, excused>>
       \/ /\ next(FALSE) /\ delivered' = delivered + 1
          /\ faults < inst.faults /\ faults' = faults + 1 /\ excused' = TRUE
    /\ UNCHANGED <<key, console, cache, cl>>

(* Variant: a failed request deletes the key without looking at its owner. *)
SettleAny(r) ==
    /\ rq[r].pc = "settle" /\ UNCHANGED <<faults, excused>>
    /\ key' = IF rq[r].ok THEN [st |-> "done", by |-> <<>>, ttl |-> 0] ELSE NoKey
    /\ End(r, "over", rq[r].ok)
    /\ UNCHANGED <<console, cache, cl, delivered>>

(* settleIdem: success is recorded whoever has the key, failure releases   *)
(* it only for its owner; either may fail and is not tried again.          *)
SettleIdem(r) ==
    /\ rq[r].pc = "settle"
    /\ \/ /\ key' = IF rq[r].ok THEN [st |-> "done", by |-> <<>>, ttl |-> 0]
                    ELSE IF Owns(r) THEN NoKey ELSE key
          /\ UNCHANGED <<faults, excused>>
       \/ /\ faults < inst.faults /\ faults' = faults + 1
          /\ excused' = (excused \/ rq[r].ok) /\ UNCHANGED key
    /\ End(r, "over", rq[r].ok)
    /\ UNCHANGED <<console, cache, cl, delivered>>

(* The server stops: its requests end where they are, and a message may    *)
(* have been delivered without a record of it.                             *)
Crash ==
    /\ faults < inst.faults /\ faults' = faults + 1
    /\ \E r \in Req : Running(r)
    /\ rq' = [r \in Req |-> IF Running(r) THEN [NoReq EXCEPT !.pc = "crashed"] ELSE rq[r]]
    /\ cache' = {}
    /\ excused' = (excused \/ \E r \in Req : rq[r].pc = "settle" /\ rq[r].ok)
    /\ UNCHANGED <<key, console, cl, delivered>>

(* Half of the lease's life passes.  From one renewal to the next an       *)
(* attempt takes notifyAttemptTimeout and a log entry                      *)
(* notifyLogWriteTimeout at most, which is less than two halves.           *)
Tick ==
    /\ key.st = "processing"
    /\ \A r \in Req : Running(r) => rq[r].age = 0
    /\ rq' = [r \in Req |-> IF Running(r) THEN [rq[r] EXCEPT !.age = 1] ELSE rq[r]]
    /\ key' = IF key.ttl = 1 THEN NoKey ELSE [key EXCEPT !.ttl = @ - 1]
    /\ UNCHANGED <<console, cache, cl, history>>

-----------------------------------------------------------------------------
(* The console                                                             *)

Begin == op.pc = "none" /\ ops < inst.ops /\ ops' = ops + 1
Others == UNCHANGED <<key, cache, cl, rq, history>>
Touch(p, on) == row' = [row EXCEPT ![p] = [there |-> TRUE, on |-> on, ver |-> @.ver + 1]]

CreateProvider(p) ==
    /\ Begin /\ ~row[p].there
    /\ Touch(p, TRUE)
    /\ UNCHANGED <<link, tpl, op>> /\ Others

(* UpdateProvider reads the row ...                                        *)
GetProvider(p) ==
    /\ Begin /\ row[p].there
    /\ op' = [pc |-> "update", p |-> p, seen |-> row[p].on]
    /\ UNCHANGED <<row, link, tpl>> /\ Others

(* ... and writes all of it back with what the request changes.            *)
UpdateProvider ==
    /\ op.pc = "update" /\ op' = NoOp
    /\ \E on \in {op.seen, ~op.seen} : IF row[op.p].there THEN Touch(op.p, on) ELSE UNCHANGED row
    /\ UNCHANGED <<link, tpl, ops>> /\ Others

(* A provider with a link stays.                                           *)
DeleteProvider(p) ==
    /\ Begin /\ row[p].there /\ ~link[p].there
    /\ row' = [row EXCEPT ![p].there = FALSE]
    /\ UNCHANGED <<link, tpl, op>> /\ Others

(* ValidateContent: the placeholders used are the variables declared.      *)
ValidateContent(uses, vs) == uses = vs

(* Variant: content is stored as it comes.                                 *)
PutTemplateUnchecked(from) ==
    /\ Begin /\ tpl.st \in from
    /\ \E uses, vs \in SUBSET Vars, st \in {"on", "off"} :
          tpl' = [st |-> st, uses |-> uses, vars |-> vs]
    /\ UNCHANGED <<row, link, op>> /\ Others

(* CreateTemplate and UpdateTemplate.                                      *)
PutTemplate(from) ==
    /\ Begin /\ tpl.st \in from
    /\ \E uses, vs \in SUBSET Vars, st \in {"on", "off"} :
          ValidateContent(uses, vs) /\ tpl' = [st |-> st, uses |-> uses, vars |-> vs]
    /\ UNCHANGED <<row, link, op>> /\ Others
CreateTemplate == PutTemplate({"none"})
UpdateTemplate == PutTemplate({"on", "off"})

(* Its links go with it.                                                   *)
DeleteTemplate ==
    /\ Begin /\ tpl.st # "none" /\ tpl' = NoTpl
    /\ link' = [p \in Providers |-> [link[p] EXCEPT !.there = FALSE]]
    /\ UNCHANGED <<row, op>> /\ Others

(* SetTemplateProvider checks template, provider and, on a chat channel,   *)
(* that the link is the only one ...                                       *)
CheckLink(p) ==
    /\ Begin /\ tpl.st # "none" /\ row[p].there
    /\ NeedsRecipient \/ \A q \in Providers \ {p} : ~link[q].there
    /\ op' = [pc |-> "link", p |-> p, seen |-> FALSE]
    /\ UNCHANGED <<row, link, tpl>> /\ Others

(* ... and stores it, unless template or provider have gone.               *)
SetTemplateProvider ==
    /\ op.pc = "link" /\ op' = NoOp
    /\ IF tpl.st # "none" /\ row[op.p].there
       THEN \E on \in BOOLEAN, pr \in {0, 1} :
               link' = [link EXCEPT ![op.p] = [there |-> TRUE, on |-> on, priority |-> pr]]
       ELSE UNCHANGED link
    /\ UNCHANGED <<row, tpl, ops>> /\ Others

RemoveTemplateProvider(p) ==
    /\ Begin /\ link[p].there
    /\ link' = [link EXCEPT ![p].there = FALSE]
    /\ UNCHANGED <<row, tpl, op>> /\ Others

ProviderHandlers ==
    \/ \E p \in Providers : CreateProvider(p) \/ GetProvider(p) \/ DeleteProvider(p)
    \/ UpdateProvider

TemplateHandlers ==
    \/ CreateTemplate \/ UpdateTemplate \/ DeleteTemplate
    \/ \E p \in Providers : CheckLink(p) \/ RemoveTemplateProvider(p)
    \/ SetTemplateProvider

-----------------------------------------------------------------------------
(* The loop of dispatch, from the candidates to the first success.         *)
Dispatch(r) == Candidates(r) \/ NextCandidate(r) \/ SendVia(r)

Step ==
    \/ \E c \in Clients : Send(c) \/ SendOnce(c)
    \/ \E r \in Req :
          LoadTemplate(r) \/ AcquireSet(r) \/ AcquireGet(r) \/ Dispatch(r) \/ SettleIdem(r)
    \/ Crash \/ Tick \/ ProviderHandlers \/ TemplateHandlers

Next == Step /\ UNCHANGED inst
Spec == Init /\ [][Next]_vars

-----------------------------------------------------------------------------
(* Types; and the foreign keys: a link has its template and its provider.  *)
TypeOK ==
    /\ key.st \in {"none", "processing", "done"} /\ key.ttl \in 0..TTL
    /\ key.st = "processing" => key.by \in Req /\ key.ttl > 0
    /\ \A p \in Providers : link[p].there => row[p].there /\ tpl.st # "none"
    /\ ops \in 0..inst.ops /\ faults \in 0..inst.faults
    /\ \A r \in Req : rq[r].age \in {0, 1} /\ (rq[r].pc \in {"renew", "sending"} => rq[r].cands # <<>>)

(* acquireIdem, renewIdem and settleIdem: for one idempotency key, however *)
(* retries, callers and fail-over overlap, the recipient gets one message, *)
(* unless a fault left the service without a record of the first.          *)
NoDuplicate == excused \/ delivered <= 1

(* idemReleaseScript: once a message is recorded as sent, no request that  *)
(* fails later takes the record away.                                      *)
DoneSticks == [][key.st = "done" => key'.st = "done"]_key

(* candidates, providerFor, ValidateContent and ValidateParams: a request  *)
(* never sends with settings of a provider older than those acknowledged   *)
(* when it began, nor a text with a placeholder left in it.                *)
SettingsApplied ==
    \A r \in Req : rq[r].pc = "sending" =>
        /\ rq[r].ver >= rq[r].since[Head(rq[r].cands).p]
        /\ Render(rq[r].tpl, rq[r].params) = {}
=============================================================================
