------------------------------- MODULE Catalog ------------------------------
(***************************************************************************)
(* The server catalog and what changes it: subscription updates, which     *)
(* fetch without the engine lock and are merged afterwards, and the edits  *)
(* that land meanwhile (engine.rs, subscription.rs, alias.rs, the catalog  *)
(* handlers of daemon.rs).                                                 *)
(*                                                                         *)
(* A provider's entry has a name, a host, which stands for all that tells  *)
(* connections apart, and one field a user may override.  The identity a   *)
(* parser derives from an entry is the entry.  Every value of the field    *)
(* resolves with every host, and a save that fails leaves the change in    *)
(* memory: what the file holds is not modelled, nor a provider's own pin.  *)
(***************************************************************************)
EXTENDS Naturals, Sequences, FiniteSetsExt, Functions

CONSTANTS
    Urls,         \* the ids of URL-backed subscriptions
    Local,        \* the id of the group of hand-made servers
    Feed,         \* Feed[u]: the lists of entries a provider may return
    Drafts,       \* the entries a user may type in
    Handles,      \* the aliases a user may choose
    Unset,        \* no alias, override, pin, update, or session
    MaxEdits,     \* bound on the user's operations
    MaxUpdates    \* bound on the updates

\* The entries a parser derives, and what they have of each field.
Entries == Drafts \cup UNION {Range(entries) : entries \in UNION {Feed[u] : u \in Urls}}
Names == {entry.name : entry \in Entries}
Hosts == {entry.host : entry \in Entries}
Fields == {entry.field : entry \in Entries}

\* A suggested handle is a name with a number.
ASSUME CatalogAssumption ==
    /\ Local \notin Urls
    /\ \A u \in Urls : \A entries \in Feed[u] : entries \in Seq(Entries)
    /\ Entries \subseteq [name : Names, host : Hosts, field : Fields]
    /\ Unset \notin Fields /\ Unset \notin Handles /\ Unset \notin Names \X Nat
    /\ MaxEdits \in Nat /\ MaxUpdates \in Nat

VARIABLES
    catalog,      \* the subscriptions in order
    removals,     \* removals of each id
    agent,        \* the global User-Agent
    update,       \* the update that holds subscription_work
    tunnel,       \* the servers a session was claimed for, or runs
    edits, updates

catalogVars == <<catalog, removals, agent, update, tunnel, edits, updates>>

Ids == Urls \cup {Local}

-----------------------------------------------------------------------------
\* Servers and subscriptions

Parsed(entry) ==
    [id |-> entry, name |-> entry.name, host |-> entry.host, field |-> entry.field,
     alias |-> Unset, pin |-> FALSE, override |-> Unset, base |-> Unset]

NewSubscription(id, hwid) ==
    [id |-> id, hwid |-> hwid, agent |-> Unset, servers |-> <<>>]

\* retain: what is none of these stays, in its order.
Retained(items, gone) ==
    LET kept[n \in 0 .. Len(items)] ==
            IF n = 0 THEN <<>>
            ELSE IF items[n] \in gone THEN kept[n - 1]
            ELSE Append(kept[n - 1], items[n])
    IN  kept[Len(items)]

Listed == {catalog[i].id : i \in 1 .. Len(catalog)}
IndexOf(cat, id) == CHOOSE i \in 1 .. Len(cat) : cat[i].id = id
Sub(id) == catalog[IndexOf(catalog, id)]
SubIds(id) == {s.id : s \in Range(Sub(id).servers)}
ServerIds(cat) == UNION {{s.id : s \in Range(cat[i].servers)} : i \in 1 .. Len(cat)}

EffectiveAgent(sub) == IF sub.agent = Unset THEN agent ELSE sub.agent

\* Positions of servers, in the order find_server looks at them.
Positions(cat) == UNION {{i} \X (1 .. Len(cat[i].servers)) : i \in 1 .. Len(cat)}
Before(p, q) == p[1] < q[1] \/ (p[1] = q[1] /\ p[2] < q[2])
First(positions) == CHOOSE p \in positions : \A q \in positions : ~Before(q, p)
ServerAt(cat, p) == cat[p[1]].servers[p[2]]
Find(cat, id) == First({p \in Positions(cat) : ServerAt(cat, p).id = id})
WithServer(cat, p, server) == [cat EXCEPT ![p[1]].servers[p[2]] = server]

\* Wrong on purpose: a suggested handle is not compared with those in use.
SuggestedUnchecked(name, used) == <<name, 1>>

\* The handles a server's name suggests: the name, then the name with a number.
Suggested(name, used) ==
    LET free == {n \in 1 .. Cardinality(used) + 1 : <<name, n>> \notin used}
    IN  <<name, Min(free)>>

\* alias::assign: every server keeps its handle unless an earlier one has it; then
\* the servers without one get, one after the other, a suggested handle nobody has.
Keeps(cat, p) ==
    \A q \in Positions(cat) : Before(q, p) => ServerAt(cat, q).alias # ServerAt(cat, p).alias
Cleared(cat) ==
    [i \in 1 .. Len(cat) |->
        [cat[i] EXCEPT !.servers = [j \in 1 .. Len(cat[i].servers) |->
            IF Keeps(cat, <<i, j>>) THEN cat[i].servers[j]
            ELSE [cat[i].servers[j] EXCEPT !.alias = Unset]]]]

Nameless(cat) == {p \in Positions(cat) : ServerAt(cat, p).alias = Unset}
Used(cat) == {ServerAt(cat, p).alias : p \in Positions(cat)} \ {Unset}
Named(cat) ==
    LET p == First(Nameless(cat))
        server == ServerAt(cat, p)
    IN  WithServer(cat, p, [server EXCEPT !.alias = Suggested(server.name, Used(cat))])

AssignAliases(cat) ==
    LET nameless == Cardinality(Nameless(Cleared(cat)))
        assigned[n \in 0 .. nameless] ==
            IF n = 0 THEN Cleared(cat) ELSE Named(assigned[n - 1])
    IN  assigned[nameless]

\* The three ways a fresh entry is recognized, in the order they are tried.
SameConnection(old, entry) == old.host = entry.host /\ old.field = entry.field
OnlyOverridesDrifted(old, entry) == old.override # Unset /\ old.host = entry.host
Match(old, used, entry) ==
    LET free == (1 .. Len(old)) \ used
        byId == {i \in free : old[i].id = entry}
        byConnection == {i \in free : SameConnection(old[i], entry)}
        byDrift == {i \in free : OnlyOverridesDrifted(old[i], entry)}
    IN  CASE byId # {} -> Min(byId)
          [] byId = {} /\ byConnection # {} -> Min(byConnection)
          [] byId \cup byConnection = {} /\ byDrift # {} -> Min(byDrift)
          [] OTHER -> 0

\* A fresh entry takes over the identity of the one it matches and the decisions
\* of the user about it.
CarriedOver(old, entry) ==
    [Parsed(entry) EXCEPT
        !.id = old.id, !.alias = old.alias, !.pin = old.pin,
        !.field = IF old.override = Unset THEN @ ELSE old.override,
        !.override = old.override,
        !.base = IF old.override = Unset THEN Unset ELSE entry.field]

\* preserve_server_identity: each old server is matched at most once.
Refreshed(old, entries) ==
    LET take(acc, entry) ==
            LET i == Match(old, acc.used, entry)
            IN  [used |-> acc.used \cup ({i} \ {0}),
                 servers |-> Append(acc.servers,
                    IF i = 0 THEN Parsed(entry) ELSE CarriedOver(old[i], entry))]
        taken[n \in 0 .. Len(entries)] ==
            IF n = 0 THEN [used |-> {}, servers |-> <<>>] ELSE take(taken[n - 1], entries[n])
    IN  taken[Len(entries)].servers

\* What a user makes of a server by editing the field: the local group is rewritten,
\* a subscription's server records the decision unless it is the provider's own.
Edited(server, isLocal, value) ==
    IF isLocal \/ value = server.field
    THEN [server EXCEPT !.field = value]
    ELSE LET base == IF server.override = Unset THEN server.field ELSE server.base
             settled == value = base
         IN  [server EXCEPT !.field = value,
                            !.override = IF settled THEN Unset ELSE value,
                            !.base = IF settled THEN Unset ELSE base]

-----------------------------------------------------------------------------
\* Sessions

\* disconnect_if_active_within: a session that runs on one of the servers is stopped,
\* whether it was claimed by name or as a pool.
Without(gone) ==
    IF tunnel # Unset /\ tunnel.runs /\ tunnel.servers \cap gone # {}
    THEN Unset ELSE tunnel

\* Wrong on purpose: sessions are reconciled with the catalog before the merge.
ReconciledEarly(cat) == Without(tunnel.servers \ ServerIds(catalog))

\* disconnect_if_active_gone, against the catalog that results.
Reconciled(cat) == Without(tunnel.servers \ ServerIds(cat))

-----------------------------------------------------------------------------
\* Updates

Target(id, hwid, ua, baseline) ==
    [id |-> id, epoch |-> removals[id], hwid |-> hwid, agent |-> ua, baseline |-> baseline,
     removed |-> FALSE, state |-> "waits", response |-> <<>>]

RefreshTarget(id) ==
    Target(id, Sub(id).hwid, EffectiveAgent(Sub(id)),
           [add |-> FALSE, servers |-> SubIds(id)])

\* The baseline of an Add is the whole subscription, or that there is none.
AddTarget(id, hwid) ==
    Target(id, hwid, agent,
           [add |-> TRUE, existing |-> IF id \in Listed THEN Sub(id) ELSE Unset])

\* Wrong on purpose: removals are not counted.
ValidUncounted(target) ==
    IF target.baseline.add
    THEN target.baseline.existing =
            (IF target.id \in Listed THEN Sub(target.id) ELSE Unset)
         /\ agent = target.agent
    ELSE /\ target.id \in Listed
         /\ Sub(target.id).hwid = target.hwid
         /\ EffectiveAgent(Sub(target.id)) = target.agent
         /\ target.baseline.servers \subseteq SubIds(target.id)

\* Wrong on purpose: a withdrawn consent is not noticed.
ValidUnasked(target) ==
    /\ removals[target.id] = target.epoch
    /\ target.baseline.add \/ target.id \in Listed

\* validate_subscription_fetch
Valid(target) ==
    /\ removals[target.id] = target.epoch
    /\ IF target.baseline.add
       THEN /\ target.baseline.existing =
                    (IF target.id \in Listed THEN Sub(target.id) ELSE Unset)
            /\ agent = target.agent
       ELSE /\ target.id \in Listed
            /\ Sub(target.id).hwid = target.hwid
            /\ EffectiveAgent(Sub(target.id)) = target.agent
            /\ target.baseline.servers \subseteq SubIds(target.id)

\* prepare_subscription_update, with subscription_work held.
Prepare(all, targets) ==
    /\ update = Unset /\ updates < MaxUpdates
    /\ updates' = updates + 1
    /\ update' = [all |-> all, targets |-> targets]
    /\ UNCHANGED <<catalog, removals, agent, tunnel, edits>>

AddSubscription ==
    \E u \in Urls, hwid \in BOOLEAN : Prepare(FALSE, <<AddTarget(u, hwid)>>)
Refresh ==
    \E u \in Urls \cap Listed : Prepare(FALSE, <<RefreshTarget(u)>>)
RefreshAll ==
    LET remote == Retained(catalog, {sub \in Range(catalog) : sub.id \notin Urls})
    IN  Prepare(TRUE, [i \in 1 .. Len(remote) |-> RefreshTarget(remote[i].id)])

\* The next target of the update, checked before its request leaves.
Pending == {i \in 1 .. Len(update.targets) : update.targets[i].state \in {"waits", "fetches"}}
Current == Min(Pending)

Resolve(i, state, response) ==
    /\ update' = [update EXCEPT !.targets[i].state = state, !.targets[i].response = response]
    /\ UNCHANGED <<catalog, removals, agent, tunnel, edits, updates>>

Request ==
    /\ update # Unset /\ Pending # {}
    /\ update.targets[Current].state = "waits"
    /\ Resolve(Current, IF Valid(update.targets[Current]) THEN "fetches" ELSE "failed", <<>>)

Respond ==
    /\ update # Unset /\ Pending # {}
    /\ update.targets[Current].state = "fetches"
    /\ \/ \E entries \in Feed[update.targets[Current].id] :
            Resolve(Current, "fetched", entries)
       \/ Resolve(Current, "failed", <<>>)

\* One target merged into a catalog: an Add replaces the subscription, a refresh
\* works on the one there is.
Merged(cat, target) ==
    IF target.state # "fetched" \/ ~Valid(target) THEN cat
    ELSE IF target.baseline.add
    THEN LET fresh == [NewSubscription(target.id, target.hwid)
                        EXCEPT !.servers = Refreshed(<<>>, target.response)]
         IN  IF target.id \in Listed
             THEN [cat EXCEPT ![IndexOf(cat, target.id)] = fresh]
             ELSE Append(cat, fresh)
    ELSE LET i == IndexOf(cat, target.id)
         IN  [cat EXCEPT ![i].servers = Refreshed(@, target.response)]

MergedAll(targets) ==
    LET merged[n \in 0 .. Len(targets)] ==
            IF n = 0 THEN catalog ELSE Merged(merged[n - 1], targets[n])
    IN  merged[Len(targets)]

\* apply_subscription_update: the targets are merged in order and, if anything was,
\* or all were asked for, handles are assigned and the sessions reconciled, whether
\* the save succeeds or not.
Apply ==
    /\ update # Unset /\ Pending = {}
    /\ LET targets == update.targets
           changed == \E i \in 1 .. Len(targets) : targets[i].state = "fetched" /\ Valid(targets[i])
           merged == MergedAll(targets)
       IN  IF changed \/ update.all
           THEN /\ catalog' = AssignAliases(merged)
                /\ tunnel' = IF tunnel = Unset THEN Unset ELSE Reconciled(merged)
           ELSE UNCHANGED <<catalog, tunnel>>
    /\ update' = Unset
    /\ UNCHANGED <<removals, agent, edits, updates>>

-----------------------------------------------------------------------------
\* Edits

Edit == edits < MaxEdits /\ edits' = edits + 1 /\ UNCHANGED updates

\* Removal advances the epoch of the id, listed or not.
RemoveSubscription ==
    /\ Edit
    /\ \E u \in Urls :
        /\ tunnel' = IF u \in Listed THEN Without(SubIds(u))
                                     ELSE tunnel
        /\ removals' = [removals EXCEPT ![u] = @ + 1]
        /\ catalog' = Retained(catalog, {sub \in Range(catalog) : sub.id = u})
        /\ update' = IF update = Unset THEN Unset
                     ELSE [update EXCEPT !.targets = [i \in 1 .. Len(update.targets) |->
                            [update.targets[i] EXCEPT !.removed = @ \/ update.targets[i].id = u]]]
    /\ UNCHANGED agent

WithLocal(cat) == IF Local \in Listed THEN cat ELSE <<NewSubscription(Local, FALSE)>> \o cat

\* create_server and, for one link, import_links: an identical server is refused.
CreateServer ==
    /\ Edit
    /\ \E draft \in Drafts :
        LET cat == WithLocal(catalog)
            i == IndexOf(cat, Local)
        IN  catalog' =
                IF \E s \in Range(cat[i].servers) : s.id = draft THEN cat
                ELSE AssignAliases([cat EXCEPT ![i].servers = Append(@, Parsed(draft))])
    /\ UNCHANGED <<removals, agent, update, tunnel>>

\* remove_server stops the sessions on the id and takes it out of the local group,
\* which goes when it is empty.
RemoveServer ==
    /\ Edit
    /\ \E id \in ServerIds(catalog) :
        /\ tunnel' = Without({id})
        /\ LET left == [i \in 1 .. Len(catalog) |->
                            IF catalog[i].id # Local THEN catalog[i]
                            ELSE [catalog[i] EXCEPT !.servers =
                                    Retained(@, {s \in Range(@) : s.id = id})]]
           IN  catalog' = Retained(left,
                            {sub \in Range(left) : sub.id = Local /\ sub.servers = <<>>})
    /\ UNCHANGED <<removals, agent, update>>

\* An edit that would make the server identical to another local one is refused.
UpdateServer ==
    /\ Edit
    /\ \E id \in ServerIds(catalog), entry \in Drafts :
        LET p == Find(catalog, id)
            server == ServerAt(catalog, p)
            result == [name |-> server.name, host |-> server.host, field |-> entry.field]
            identical == /\ Local \in Listed
                         /\ result # id
                         /\ \E s \in Range(Sub(Local).servers) : s.id = result
        IN  catalog' = IF identical THEN catalog
                       ELSE WithServer(catalog, p,
                            Edited(server, catalog[p[1]].id = Local, entry.field))
    /\ UNCHANGED <<removals, agent, update, tunnel>>

DropOverride ==
    /\ Edit
    /\ \E id \in ServerIds(catalog) :
        LET p == Find(catalog, id)
            server == ServerAt(catalog, p)
        IN  /\ server.override # Unset
            /\ catalog' = WithServer(catalog, p,
                [server EXCEPT !.field = server.base, !.override = Unset, !.base = Unset])
    /\ UNCHANGED <<removals, agent, update, tunnel>>

TrustCertificate ==
    /\ Edit
    /\ \E id \in ServerIds(catalog) :
        LET p == Find(catalog, id)
        IN  catalog' = WithServer(catalog, p, [ServerAt(catalog, p) EXCEPT !.pin = TRUE])
    /\ UNCHANGED <<removals, agent, update, tunnel>>

\* A handle that another server has is refused.
SetServerAlias ==
    /\ Edit
    /\ \E id \in ServerIds(catalog), handle \in Handles :
        LET p == Find(catalog, id)
        IN  /\ \A q \in Positions(catalog) \ {p} : ServerAt(catalog, q).alias # handle
            /\ catalog' = WithServer(catalog, p, [ServerAt(catalog, p) EXCEPT !.alias = handle])
    /\ UNCHANGED <<removals, agent, update, tunnel>>

SetHwid ==
    /\ Edit
    /\ \E id \in Listed, enabled \in BOOLEAN :
        catalog' = [catalog EXCEPT ![IndexOf(catalog, id)].hwid = enabled]
    /\ UNCHANGED <<removals, agent, update, tunnel>>

SetSubscriptionUserAgent ==
    /\ Edit
    /\ \E id \in Listed, own \in {Unset, "own"} :
        catalog' = [catalog EXCEPT ![IndexOf(catalog, id)].agent = own]
    /\ UNCHANGED <<removals, agent, update, tunnel>>

\* set_settings, of which only the global User-Agent matters here.
SetUserAgent ==
    /\ Edit
    /\ agent' = IF agent = "global" THEN "other" ELSE "global"
    /\ UNCHANGED <<catalog, removals, update, tunnel>>

\* A connection is claimed for one server or a pool of listed ones, started later, if
\* they are all still listed, and ends.
ClaimServers ==
    /\ Edit /\ tunnel = Unset
    /\ \E servers \in SUBSET ServerIds(catalog) \ {{}} :
        tunnel' = [servers |-> servers, runs |-> FALSE]
    /\ UNCHANGED <<catalog, removals, agent, update>>

StartClaimed ==
    /\ tunnel # Unset /\ ~tunnel.runs
    /\ tunnel' = IF tunnel.servers \subseteq ServerIds(catalog)
                  THEN [tunnel EXCEPT !.runs = TRUE] ELSE Unset
    /\ UNCHANGED <<catalog, removals, agent, update, edits, updates>>

-----------------------------------------------------------------------------
CatalogInit ==
    /\ catalog = <<>>
    /\ removals = [id \in Ids |-> 0]
    /\ agent = "global"
    /\ update = Unset
    /\ tunnel = Unset
    /\ edits = 0 /\ updates = 0

UpdateWork == Request \/ Respond \/ Apply

CatalogNext ==
    \/ AddSubscription \/ Refresh \/ RefreshAll
    \/ UpdateWork
    \/ RemoveSubscription \/ CreateServer \/ RemoveServer \/ UpdateServer
    \/ DropOverride \/ TrustCertificate \/ SetServerAlias \/ SetHwid
    \/ SetSubscriptionUserAgent \/ SetUserAgent
    \/ ClaimServers \/ StartClaimed

CatalogSpec == CatalogInit /\ [][CatalogNext]_catalogVars

-----------------------------------------------------------------------------
CatalogTypeOK ==
    /\ \A i, j \in 1 .. Len(catalog) : catalog[i].id = catalog[j].id => i = j
    /\ Listed \subseteq Ids
    /\ removals \in [Ids -> 0 .. MaxEdits]
    /\ agent \in {"global", "other"}
    /\ \A p \in Positions(catalog) :
        (ServerAt(catalog, p).override = Unset) = (ServerAt(catalog, p).base = Unset)
    /\ update # Unset => \A i \in 1 .. Len(update.targets) :
        update.targets[i].state \in {"waits", "fetches", "fetched", "failed"}
    /\ edits \in 0 .. MaxEdits /\ updates \in 0 .. MaxUpdates

\* Every server has a handle and no two have the same, however updates, new servers
\* and a user's own choice of handle follow each other ("aliases are globally unique,
\* stable human handles", docs/spec/cli.md).
HandlesAreUnique ==
    \A p, q \in Positions(catalog) :
        /\ ServerAt(catalog, p).alias # Unset
        /\ ServerAt(catalog, p).alias = ServerAt(catalog, q).alias => p = q

\* No session runs on a server the catalog lost, by a refresh, a replacement or a
\* removal, even one claimed while the update was being fetched.
RunningIsListed ==
    tunnel # Unset /\ tunnel.runs => tunnel.servers \subseteq ServerIds(catalog)

\* A response is never merged into a subscription that was removed after its request
\* was prepared, nor brings one back, listed before the update or not.
RemovalStands(target) ==
    target.removed =>
        IF target.id \in Listed
        THEN target.id \in Listed' /\ SubIds(target.id)' = SubIds(target.id)
        ELSE target.id \notin Listed'

\* A refresh keeps what the user decided about a server it still lists, decisions made
\* while it was being fetched included: the handle, the trusted certificate, and the
\* override, over the provider's newest value.
DecisionsSurvive(target) ==
    ~target.baseline.add /\ target.id \in Listed =>
        \A old \in Range(Sub(target.id).servers) :
            old.id \in SubIds(target.id)' =>
                \E new \in Range(Sub(target.id)'.servers) :
                    /\ new.id = old.id /\ new.alias = old.alias
                    /\ new.pin = old.pin /\ new.override = old.override
                    /\ new.override # Unset => new.field = new.override

\* What the user did while an update was out stands when the update is merged.
EditsStand ==
    [][update # Unset /\ update' = Unset =>
        \A target \in Range(update.targets) :
            RemovalStands(target) /\ DecisionsSurvive(target)]_catalogVars

\* A request carries the device identifier only if the subscription it refreshes says
\* so when the request leaves, however long it waited behind another.
HwidIsConsented ==
    [][update # Unset /\ update' # Unset =>
        \A i \in 1 .. Len(update.targets) :
            LET target == update.targets[i] IN
            /\ target.state = "waits" /\ update'.targets[i].state = "fetches"
            /\ target.hwid /\ ~target.baseline.add
            => target.id \in Listed /\ Sub(target.id).hwid]_catalogVars
=============================================================================
