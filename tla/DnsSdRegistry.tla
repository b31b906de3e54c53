---------------------------- MODULE DnsSdRegistry ----------------------------
(***************************************************************************)
(* The DNS-SD registry of dnssd_full.rs: services that are registered,     *)
(* renamed out of each other's way, updated and withdrawn, and subscribers *)
(* that browse for them.  A registration is the key it is known by         *)
(* (interface, instance, service type and domain) and everything else,     *)
(* its body.  An instance name is a base and the ordinal put after it.     *)
(*                                                                         *)
(* view is a history variable: what a subscriber makes of the updates it   *)
(* has taken so far.                                                       *)
(***************************************************************************)
EXTENDS Naturals, FiniteSets, SequencesExt

CONSTANTS
    Interfaces,
    Types,        \* service types, with their domains
    Bases,        \* instance names as first asked for
    Bodies,       \* host, port, TXT, subtypes and addresses
    BadBody,      \* a body validate refuses
    Anywhere,     \* a filter's interface when it has none
    MaxOrdinal,   \* 9999
    MaxId,        \* bound: registrations ever made
    MaxSubscriptions, \* bound: subscriptions ever made
    MaxPending    \* bound: updates a subscriber leaves lying

RegistrationKeys == [interface : Interfaces, base : Bases, ordinal : 1..MaxOrdinal, type : Types]
Registrations == [key : RegistrationKeys, body : Bodies \cup {BadBody}]
BrowseFilters == [type : Types, interface : Interfaces \cup {Anywhere}]

VARIABLES
    next_registration_id,
    next_subscription_id,
    registrations,  \* registrations[id], for the ids registered
    keys,           \* keys[key]: the id registered under key
    subscriptions,  \* subscriptions[s]: the filter of s
    pending,        \* pending[s]: updates s has not taken
    view            \* view[s]: the services s knows of

vars == <<next_registration_id, next_subscription_id, registrations, keys,
          subscriptions, pending, view>>

Without(f, x) == [y \in DOMAIN f \ {x} |-> f[y]]
With(f, x, v) == [y \in DOMAIN f \cup {x} |-> IF y = x THEN v ELSE f[y]]

validate(r) == r.body # BadBody
matches(filter, r) ==
    /\ filter.type = r.key.type
    /\ filter.interface \in {Anywhere, r.key.interface}

Update(kind, id, r) == [kind |-> kind, id |-> id, key |-> r.key]

MutantNotify(updates) ==
    [s \in DOMAIN subscriptions |->
        pending[s] \o SelectSeq(updates, LAMBDA u : u.kind = "added" /\ matches(subscriptions[s], u))]

(* The updates of one call, in order, as the subscribers see them.         *)
notify(updates) ==
    [s \in DOMAIN subscriptions |->
        pending[s] \o SelectSeq(updates, LAMBDA u : matches(subscriptions[s], u))]

Init ==
    /\ next_registration_id = 0 /\ next_subscription_id = 0
    /\ registrations = <<>> /\ keys = <<>>
    /\ subscriptions = <<>> /\ pending = <<>> /\ view = <<>>

(* register: refused if it is invalid or its key is taken.                 *)
register(r) ==
    /\ validate(r) /\ r.key \notin DOMAIN keys
    /\ next_registration_id' = next_registration_id + 1
    /\ pending' = notify(<<Update("added", next_registration_id', r)>>)
    /\ keys' = With(keys, r.key, next_registration_id')
    /\ registrations' = With(registrations, next_registration_id', r)
    /\ UNCHANGED <<next_subscription_id, subscriptions, view>>

(* The first ordinal whose key is free.                                    *)
register_with_automatic_rename(r) ==
    \E ordinal \in 1..MaxOrdinal :
        /\ [r.key EXCEPT !.ordinal = ordinal] \notin DOMAIN keys
        /\ \A lower \in 1..(ordinal - 1) : [r.key EXCEPT !.ordinal = lower] \in DOMAIN keys
        /\ register([r EXCEPT !.key.ordinal = ordinal])

update(id, r) ==
    /\ validate(r) /\ id \in DOMAIN registrations
    /\ r.key = registrations[id].key \/ r.key \notin DOMAIN keys
    /\ pending' = notify(<<Update("removed", id, registrations[id]), Update("added", id, r)>>)
    /\ keys' = With(Without(keys, registrations[id].key), r.key, id)
    /\ registrations' = With(registrations, id, r)
    /\ UNCHANGED <<next_registration_id, next_subscription_id, subscriptions, view>>

unregister(id) ==
    /\ id \in DOMAIN registrations
    /\ registrations' = Without(registrations, id)
    /\ keys' = Without(keys, registrations[id].key)
    /\ pending' = notify(<<Update("removed", id, registrations[id])>>)
    /\ UNCHANGED <<next_registration_id, next_subscription_id, subscriptions, view>>

(* unregister, for every service on the interface in the order of ids.     *)
remove_interface(i) ==
    LET ids == {id \in DOMAIN registrations : registrations[id].key.interface = i}
        rank(id) == Cardinality({j \in ids : j <= id})
    IN  /\ ids # {}
        /\ registrations' = [id \in DOMAIN registrations \ ids |-> registrations[id]]
        /\ keys' = [k \in {k \in DOMAIN keys : keys[k] \notin ids} |-> keys[k]]
        /\ pending' = notify([n \in 1..Cardinality(ids) |->
                                LET id == CHOOSE id \in ids : rank(id) = n
                                IN  Update("removed", id, registrations[id])])
        /\ UNCHANGED <<next_registration_id, next_subscription_id, subscriptions, view>>

(* A new subscriber starts with what is there.                             *)
subscribe(filter) ==
    LET ids == {id \in DOMAIN registrations : matches(filter, registrations[id])}
        rank(id) == Cardinality({j \in ids : j <= id})
    IN  /\ next_subscription_id' = next_subscription_id + 1
        /\ subscriptions' = With(subscriptions, next_subscription_id', filter)
        /\ pending' = With(pending, next_subscription_id',
                        [n \in 1..Cardinality(ids) |->
                            LET id == CHOOSE id \in ids : rank(id) = n
                            IN  Update("added", id, registrations[id])])
        /\ view' = With(view, next_subscription_id', {})
        /\ UNCHANGED <<next_registration_id, registrations, keys>>

unsubscribe(s) ==
    /\ s \in DOMAIN subscriptions
    /\ subscriptions' = Without(subscriptions, s)
    /\ pending' = Without(pending, s)
    /\ view' = Without(view, s)
    /\ UNCHANGED <<next_registration_id, next_subscription_id, registrations, keys>>

(* What a browser makes of updates: the services it then knows of.         *)
Browse(known, updates) ==
    FoldLeft(LAMBDA services, u :
                IF u.kind = "added" THEN services \cup {[id |-> u.id, key |-> u.key]}
                ELSE services \ {[id |-> u.id, key |-> u.key]},
             known, updates)

take_updates(s) ==
    /\ s \in DOMAIN subscriptions
    /\ view' = [view EXCEPT ![s] = Browse(@, pending[s])]
    /\ pending' = [pending EXCEPT ![s] = <<>>]
    /\ UNCHANGED <<next_registration_id, next_subscription_id, registrations, keys, subscriptions>>

Next ==
    \/ /\ \A s \in DOMAIN pending : Len(pending[s]) < MaxPending
       /\ \/ /\ next_registration_id < MaxId
             /\ \E r \in Registrations : register(r) \/ register_with_automatic_rename(r)
          \/ \E id \in 1..MaxId : unregister(id) \/ \E r \in Registrations : update(id, r)
          \/ \E i \in Interfaces : remove_interface(i)
    \/ /\ next_subscription_id < MaxSubscriptions
       /\ \E filter \in BrowseFilters : subscribe(filter)
    \/ \E s \in 1..MaxSubscriptions : unsubscribe(s) \/ take_updates(s)

Spec == Init /\ [][Next]_vars

-----------------------------------------------------------------------------
TypeOK ==
    /\ next_registration_id \in 0..MaxId
    /\ DOMAIN registrations \subseteq 1..next_registration_id
    /\ \A id \in DOMAIN registrations : registrations[id] \in Registrations
    /\ DOMAIN pending = DOMAIN subscriptions /\ DOMAIN view = DOMAIN subscriptions

(* The index by key and the table by id describe the same services: no two *)
(* services share a key, none is left in the index after it is gone and    *)
(* none is registered that validate refuses, whatever register, update,    *)
(* unregister and remove_interface do in between.                          *)
IndexesAgree ==
    /\ \A key \in DOMAIN keys : /\ keys[key] \in DOMAIN registrations
                                /\ registrations[keys[key]].key = key
    /\ \A id \in DOMAIN registrations : /\ registrations[id].key \in DOMAIN keys
                                        /\ keys[registrations[id].key] = id
                                        /\ validate(registrations[id])

(* A subscriber that applies the updates it has taken and those that wait  *)
(* for it knows exactly the services that match its filter.                *)
SubscribersConverge ==
    \A s \in DOMAIN subscriptions :
        Browse(view[s], pending[s]) =
            {[id |-> id, key |-> registrations[id].key] :
                id \in {id \in DOMAIN registrations : matches(subscriptions[s], registrations[id])}}
=============================================================================
