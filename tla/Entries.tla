------------------------------- MODULE Entries -------------------------------
(***************************************************************************)
(* The config entries of the integration: the flows that create them and   *)
(* change their data, their setup, reload and unload, and what all of them *)
(* share: the services and the card.                                       *)
(*                                                                         *)
(* Everything runs in one event loop and stops at every await: a flow while*)
(* it validates what was entered, a setup at the first refresh, at the     *)
(* platforms and in the registration of the card, an unload at the         *)
(* platforms.  Of an entry's data the address and the machine are kept,    *)
(* which make its identifier; that anything else has changed shows in      *)
(* `fresh` only.  Home Assistant does one setup or unload of an entry at a *)
(* time, and replaces an entry by a new one with its identifier.           *)
(***************************************************************************)
EXTENDS Naturals, FiniteSets

CONSTANTS
    Entry,          \* possible entries
    Addresses,      \* LAPI addresses as they are entered
    HostOf,         \* address -> scheme and host in lower case
    Machines,
    NoMachine,      \* the place of the machine in an identifier of version 1
    Idle,           \* no flow
    MaxFlows,       \* bound: flows at a time
    MaxStores       \* bound: changes of entry data

ASSUME HostAssumption == DOMAIN HostOf = Addresses
ASSUME EntriesAssumption == NoMachine \notin Machines /\ MaxFlows \in Nat /\ MaxStores \in Nat

EntryData == [address : Addresses, machine : Machines]
Identifiers == {HostOf[a] : a \in Addresses} \X (Machines \cup {NoMachine})
Steps == {"absent", "off", "starting", "card", "path", "loaded", "unloading", "error"}
Sources == {"user", "reauth", "reconfigure", "repair"}
Flows == Sources \X Entry
Progress == [data : EntryData, overtaken : BOOLEAN]

VARIABLES
    state,      \* entry -> state in Home Assistant, or await of its setup or unload
    version,    \* entry -> version of its data
    uid,        \* entry -> unique_id
    data,       \* entry -> entry.data
    fresh,      \* entry -> its coordinator was built from what is stored now
    reload,     \* entry -> a reload is scheduled
    flows,      \* <<source, entry>> -> flow in progress
    services,   \* the services are registered
    mark,       \* hass.data[CARD_REGISTERED]
    path,       \* the static path of the card is registered
    stores,     \* the number of changes of entry data
    disarmed,   \* history: the services were removed under an entry being set up
    unchecked,  \* history: entries whose identifier was stored unchecked
    reverted,   \* history: entries whose data a repair set back
    missed      \* history: entries whose options changed in a setup that did not
                \* listen yet

entryVars == <<version, uid, data>>
sharedVars == <<services, mark, path, disarmed>>
historyVars == <<unchecked, reverted, missed>>
vars == <<state, entryVars, fresh, reload, flows, sharedVars, stores, historyVars>>

Present == {e \in Entry : state[e] # "absent"}

\* build_unique_id.
Identifier(d) == <<HostOf[d.address], d.machine>>

OldIdentifier(d) == <<HostOf[d.address], NoMachine>>

Init ==
    /\ state = [e \in Entry |-> "off"]
    /\ data \in [Entry -> EntryData]
    /\ version \in [Entry -> 1 .. 2]
    /\ uid = [e \in Entry |-> IF version[e] = 1 THEN OldIdentifier(data[e])
                                                ELSE Identifier(data[e])]
    /\ \A e, f \in Entry : uid[e] = uid[f] => e = f
    /\ fresh = [e \in Entry |-> FALSE] /\ reload = [e \in Entry |-> FALSE]
    /\ flows = [f \in Flows |-> Idle]
    /\ services = FALSE /\ mark = FALSE /\ path = FALSE
    /\ stores = 0 /\ disarmed = FALSE
    /\ unchecked = {} /\ reverted = {} /\ missed = {}

-----------------------------------------------------------------------------
(* Setup *)

Moves(e, from, to) == state[e] = from /\ state' = [state EXCEPT ![e] = to]

\* Without a coordinator there is nothing to be fresh.
Forget(e) ==
    /\ fresh' = [fresh EXCEPT ![e] = FALSE]
    /\ missed' = missed \ {e}

\* Mutant: the migration changes the version only.
MigratedIdentifierKept(e) == uid[e]

MigratedIdentifier(e) == IF version[e] = 1 THEN Identifier(data[e]) ELSE uid[e]

\* async_migrate_entry, and async_setup_entry up to the first refresh.
SetupStarts(e) ==
    /\ Moves(e, "off", "starting")
    /\ version' = [version EXCEPT ![e] = 2]
    /\ uid' = [uid EXCEPT ![e] = MigratedIdentifier(e)]
    /\ unchecked' = unchecked \cup {x \in {e} : version[e] = 1}
    /\ fresh' = [fresh EXCEPT ![e] = TRUE]
    /\ reload' = [reload EXCEPT ![e] = FALSE]
    /\ missed' = missed \ {e}
    /\ UNCHANGED <<data, flows, sharedVars, stores, reverted>>

SetupFails(e) ==
    /\ Moves(e, "starting", "off")
    /\ Forget(e)
    /\ UNCHANGED <<entryVars, reload, flows, sharedVars, stores, unchecked, reverted>>

\* The first refresh and the platforms have been awaited: the update listener and
\* the services are registered, then the mark is read.
PlatformsReady(e) ==
    /\ Moves(e, "starting", IF mark THEN "loaded" ELSE "card")
    /\ services' = TRUE
    /\ disarmed' = FALSE
    /\ UNCHANGED <<entryVars, fresh, reload, flows, mark, path, stores, historyVars>>

\* Mutant: the mark is set first, whether there is a build or not.
CardCheckedMarkFirst(e) ==
    /\ Moves(e, "card", "loaded") \/ Moves(e, "card", "path")
    /\ mark' = TRUE
    /\ UNCHANGED <<entryVars, fresh, reload, flows, services, path, disarmed, stores,
                   historyVars>>

\* The build of the card is missing, or the mark is set before the path is
\* registered.
CardChecked(e) ==
    /\ \/ Moves(e, "card", "loaded") /\ UNCHANGED mark
       \/ Moves(e, "card", "path") /\ mark' = TRUE
    /\ UNCHANGED <<entryVars, fresh, reload, flows, services, path, disarmed, stores,
                   historyVars>>

\* "A second registration of the same static path raises", which ends the setup.
PathRegistered(e) ==
    /\ Moves(e, "path", IF path THEN "error" ELSE "loaded")
    /\ path' = TRUE
    /\ UNCHANGED <<entryVars, fresh, reload, flows, services, mark, disarmed, stores,
                   historyVars>>

-----------------------------------------------------------------------------
(* Unload *)

UnloadStarts(e) ==
    /\ Moves(e, "loaded", "unloading")
    /\ Forget(e)
    /\ UNCHANGED <<entryVars, reload, flows, sharedVars, stores, unchecked, reverted>>

Loaded == {e \in Entry : state[e] = "loaded"}
InSetup == {e \in Entry : state[e] \in {"card", "path"}}

\* Mutant: the services go with every entry.
RemainingNone(e) == {}

Remaining(e) == Loaded \ {e}

\* The end of an unload as far as the services are concerned.
ReleaseServices(e) ==
    /\ services' = (services /\ Remaining(e) # {})
    /\ disarmed' = (disarmed \/ (Remaining(e) = {} /\ InSetup \ {e} # {}))

\* Without success nothing is released.
UnloadEnds(e) ==
    /\ \/ Moves(e, "unloading", "off") /\ ReleaseServices(e)
       \/ Moves(e, "unloading", "error") /\ UNCHANGED <<services, disarmed>>
    /\ UNCHANGED <<entryVars, fresh, reload, flows, mark, path, stores, historyVars>>

Abort(gone) ==
    flows' = [f \in Flows |-> IF f[2] \in gone THEN Idle ELSE flows[f]]

\* The user deletes an entry, its flows are aborted.
RemoveEntry(e) ==
    /\ Moves(e, "off", "absent") \/ Moves(e, "error", "absent")
    /\ Abort({e})
    /\ reload' = [reload EXCEPT ![e] = FALSE]
    /\ unchecked' = unchecked \ {e} /\ reverted' = reverted \ {e}
    /\ UNCHANGED <<entryVars, fresh, sharedVars, stores, missed>>

RestartHomeAssistant ==
    /\ state' = [e \in Entry |-> IF state[e] = "absent" THEN "absent" ELSE "off"]
    /\ flows' = [f \in Flows |-> Idle]
    /\ fresh' = [e \in Entry |-> FALSE] /\ reload' = [e \in Entry |-> FALSE]
    /\ services' = FALSE /\ mark' = FALSE /\ path' = FALSE
    /\ disarmed' = FALSE /\ missed' = {}
    /\ UNCHANGED <<entryVars, stores, unchecked, reverted>>

-----------------------------------------------------------------------------
(* Flows *)

Active == {f \in Flows : flows[f] # Idle}

Begin(f, d) ==
    /\ f \notin Active
    /\ Cardinality(Active) < MaxFlows /\ stores < MaxStores
    /\ flows' = [flows EXCEPT ![f] = [data |-> d, overtaken |-> FALSE]]
    /\ UNCHANGED <<state, entryVars, fresh, reload, sharedVars, stores, historyVars>>

\* The other entries that have an identifier.
Holders(id, e) == {o \in Present \ {e} : uid[o] = id}

\* Mutant: every identifier is free.
FreeAlways(id, e) == TRUE

Free(id, e) == Holders(id, e) = {}

\* The first submission of async_step_user; `e` will be the new entry.
UserSubmits(e, d) ==
    /\ state[e] = "absent"
    /\ \A o \in Entry : flows[<<"user", o>>] = Idle
    /\ Free(Identifier(d), e)
    /\ Begin(<<"user", e>>, d)

\* The data is copied when the dialog opens, and waits there.  The machine that is
\* entered later is chosen here: nothing reads it before the validation ends.
ReauthStarts(e, machine) ==
    /\ state[e] \in {"off", "loaded"}
    /\ Begin(<<"reauth", e>>, [data[e] EXCEPT !.machine = machine])

ReconfigureSubmits(e, d) ==
    /\ e \in Present
    /\ Free(Identifier(d), e)
    /\ Begin(<<"reconfigure", e>>, d)

\* BouncerKeyRepairFlow copies the data and changes the key.
RepairSubmits(e) ==
    /\ e \in Present
    /\ Begin(<<"repair", e>>, data[e])

\* What `g` has read before it validates, any identifier for a reconfiguration and
\* the data of its entry for a repair, is changed by `f`.
Overtakes(f, g) == g[1] = "reconfigure" \/ (g[1] = "repair" /\ g[2] = f[2])

EndFlow(f) ==
    [g \in Flows |->
        IF g = f \/ flows[g] = Idle THEN Idle
        ELSE [flows[g] EXCEPT !.overtaken = flows[g].overtaken \/ Overtakes(f, g)]]

\* The validation fails and the form is shown again, or the flow is closed.
FlowFails(f) ==
    /\ f \in Active
    /\ flows' = [flows EXCEPT ![f] = Idle]
    /\ UNCHANGED <<state, entryVars, fresh, reload, sharedVars, stores, historyVars>>

\* Mutant: a reconfiguration moves the data, not the identifier.
NewIdentifierKept(f) ==
    IF f[1] \in {"repair", "reconfigure"} THEN uid[f[2]] ELSE Identifier(flows[f].data)

\* A repair stores data, the other flows an identifier with it.
NewIdentifier(f) ==
    IF f[1] = "repair" THEN uid[f[2]] ELSE Identifier(flows[f].data)

\* Mutant: what was stored is not loaded.
ScheduleReloadNever(e) == reload

ScheduleReload(e) == [reload EXCEPT ![e] = TRUE]

\* The validation has succeeded: async_update_entry and a reload.
FlowStores(f) ==
    LET e == f[2]
        flow == flows[f]
    IN  /\ f \in Active /\ f[1] # "user"
        /\ stores < MaxStores
        /\ stores' = stores + 1
        /\ data' = [data EXCEPT ![e] = flow.data]
        /\ uid' = [uid EXCEPT ![e] = NewIdentifier(f)]
        /\ unchecked' = IF f[1] = "repair" THEN unchecked
                        ELSE (unchecked \ {e})
                               \cup {x \in {e} : f[1] = "reauth" \/ flow.overtaken}
        /\ reverted' = IF f[1] # "repair" THEN reverted \ {e}
                       ELSE reverted \cup {x \in {e} : flow.overtaken}
        /\ fresh' = [fresh EXCEPT ![e] = FALSE]
        /\ reload' = ScheduleReload(e)
        /\ flows' = EndFlow(f)
        /\ UNCHANGED <<state, version, sharedVars, missed>>

\* A new entry replaces those that were given its identifier in the meantime.
UserStores(e) ==
    LET f == <<"user", e>>
        gone == Holders(Identifier(flows[f].data), e)
    IN  /\ f \in Active
        /\ stores < MaxStores
        /\ \A o \in gone : state[o] \in {"off", "error"}
        /\ stores' = stores + 1
        /\ state' = [o \in Entry |-> IF o = e THEN "off"
                                     ELSE IF o \in gone THEN "absent" ELSE state[o]]
        /\ version' = [version EXCEPT ![e] = 2]
        /\ data' = [data EXCEPT ![e] = flows[f].data]
        /\ uid' = [uid EXCEPT ![e] = Identifier(flows[f].data)]
        /\ flows' = [g \in Flows |-> IF g[2] \in gone THEN Idle ELSE EndFlow(f)[g]]
        /\ unchecked' = unchecked \ {e} /\ reverted' = reverted \ {e}
        /\ reload' = [o \in Entry |-> reload[o] /\ o \notin gone]
        /\ UNCHANGED <<fresh, sharedVars, missed>>

\* The update listener reloads the entry, once it is registered.
Listening(e) == state[e] \in {"card", "path", "loaded", "unloading"}

\* CrowdSecOptionsFlow does not await; options that are refused change nothing.
ChangeOptions(e) ==
    /\ e \in Present
    /\ stores < MaxStores
    /\ stores' = stores + 1
    /\ fresh' = [fresh EXCEPT ![e] = FALSE]
    /\ reload' = IF Listening(e) THEN ScheduleReload(e) ELSE reload
    /\ missed' = missed \cup {x \in {e} : state[e] = "starting"}
    /\ UNCHANGED <<state, entryVars, flows, sharedVars, unchecked, reverted>>

-----------------------------------------------------------------------------
Lifecycle(e) ==
    \/ SetupStarts(e)
    \/ SetupFails(e)
    \/ PlatformsReady(e)
    \/ CardChecked(e)
    \/ PathRegistered(e)
    \/ UnloadStarts(e)
    \/ UnloadEnds(e)
    \/ RemoveEntry(e)
    \/ ChangeOptions(e)

FlowStep(e) ==
    \/ \E d \in EntryData : UserSubmits(e, d) \/ ReconfigureSubmits(e, d)
    \/ \E m \in Machines : ReauthStarts(e, m)
    \/ RepairSubmits(e)
    \/ UserStores(e)

Next ==
    \/ \E e \in Entry : Lifecycle(e) \/ FlowStep(e)
    \/ \E f \in Flows : FlowStores(f) \/ FlowFails(f)
    \/ RestartHomeAssistant

Spec == Init /\ [][Next]_vars

-----------------------------------------------------------------------------
(* Properties *)

\* The type invariant: an entry of version 2 has a machine in its
\* identifier.
TypeOK ==
    /\ state \in [Entry -> Steps]
    /\ version \in [Entry -> 1 .. 2]
    /\ uid \in [Entry -> Identifiers] /\ data \in [Entry -> EntryData]
    /\ \A e \in Entry : version[e] = 2 => uid[e][2] # NoMachine
    /\ fresh \in [Entry -> BOOLEAN] /\ reload \in [Entry -> BOOLEAN]
    /\ flows \in [Flows -> Progress \cup {Idle}]
    /\ services \in BOOLEAN /\ mark \in BOOLEAN /\ path \in BOOLEAN
    /\ stores \in 0 .. MaxStores /\ disarmed \in BOOLEAN
    /\ unchecked \subseteq Entry /\ reverted \subseteq Entry /\ missed \subseteq Entry

\* While an entry is loaded its services are there, whatever the others do; but
\* an unload does not see an entry that waits for the card.
ServicesWhileLoaded == Loaded # {} => services \/ disarmed

\* The mark keeps its promise: the path is registered or about to be, and an
\* entry that is turned away has come after another one.
CardServed ==
    /\ mark => path \/ \E e \in Entry : state[e] = "path"
    /\ path => mark

\* Two entries share an identifier, and would fight over one device, only if one
\* of them got it unchecked: by a reauth, by the migration, or because another
\* flow stored while it was being validated.
IdentifiersUnique ==
    \A e, f \in Present :
        uid[e] = uid[f] => e = f \/ e \in unchecked \/ f \in unchecked

\* The identifier is the one of the stored address and machine, over any flows
\* and the migration; only a repair that was overtaken can set the data back.
IdentifierMatches ==
    \A e \in Present :
        version[e] = 2 => uid[e] = Identifier(data[e]) \/ e \in reverted

\* A loaded entry with no reload to come runs on what is stored, however changes
\* overlap with its setup; but options that change before the update listener is
\* registered wait for the next reload.
RunsWhatIsStored ==
    \A e \in Loaded : fresh[e] \/ reload[e] \/ e \in missed
=============================================================================
