---------------------------- MODULE EntriesProofs ----------------------------
(***************************************************************************)
(* The properties of Entries for any number of entries, flows and changes. *)
(***************************************************************************)
EXTENDS Entries, TLAPS

\* The services are there for the entries that are still to be loaded, too.
ServicesInv ==
    \A e \in Entry : state[e] \in {"card", "path", "loaded"} => services \/ disarmed

\* A new entry is not there before its flow ends.
UserInv == \A e \in Entry : flows[<<"user", e>>] # Idle => state[e] = "absent"

\* A reconfiguration that was not overtaken has found its identifier free, and
\* only the migration can have taken it since.
FreeInv ==
    \A e \in Entry, o \in Present :
        LET flow == flows[<<"reconfigure", e>>]
        IN  flow # Idle /\ o # e /\ ~flow.overtaken
              => uid[o] # Identifier(flow.data) \/ o \in unchecked

\* A repair that was not overtaken holds what is stored.
CopyInv ==
    \A e \in Entry :
        LET flow == flows[<<"repair", e>>]
        IN  flow # Idle /\ ~flow.overtaken => flow.data = data[e]

\* RunsWhatIsStored, from the start of the setup on.
FreshInv ==
    \A e \in Entry :
        state[e] \in {"starting", "card", "path", "loaded"}
            => fresh[e] \/ reload[e] \/ e \in missed

\* The mark is set before the path is awaited.
MarkInv == CardServed /\ \A e \in Entry : state[e] = "path" => mark

SharedInv == ServicesInv /\ MarkInv /\ FreshInv
FlowInv == UserInv /\ FreeInv /\ CopyInv
IdentityInv == IdentifiersUnique /\ IdentifierMatches

Inv == TypeOK /\ SharedInv /\ FlowInv /\ IdentityInv

-----------------------------------------------------------------------------
\* What is stored has an identifier with a machine.
LEMMA IdentifierType ==
    ASSUME NEW d \in EntryData
    PROVE  Identifier(d) \in Identifiers /\ Identifier(d)[2] # NoMachine
  BY HostAssumption, EntriesAssumption DEF Identifier, Identifiers, EntryData

LEMMA InitInv == Init => Inv
<1> SUFFICES ASSUME Init PROVE Inv
  OBVIOUS
<1>1. TypeOK
  <2>1. ASSUME NEW e \in Entry
        PROVE  uid[e] \in Identifiers /\ (version[e] = 2 => uid[e][2] # NoMachine)
    <3>1. data[e] \in EntryData
      BY DEF Init
    <3>2. OldIdentifier(data[e]) \in Identifiers
      BY <3>1, HostAssumption DEF OldIdentifier, Identifiers, EntryData
    <3>3. uid[e] = IF version[e] = 1 THEN OldIdentifier(data[e]) ELSE Identifier(data[e])
      BY DEF Init
    <3>4. QED
      BY <3>1, <3>2, <3>3, IdentifierType
  <2>2. uid \in [Entry -> Identifiers]
    BY <2>1 DEF Init
  <2>3. /\ flows \in [Flows -> Progress \cup {Idle}]
        /\ fresh \in [Entry -> BOOLEAN] /\ reload \in [Entry -> BOOLEAN]
    BY DEF Init
  <2>4. services \in BOOLEAN /\ mark \in BOOLEAN /\ path \in BOOLEAN /\ disarmed \in BOOLEAN
    BY Zenon DEF Init
  <2>5. /\ stores \in 0 .. MaxStores
        /\ state \in [Entry -> Steps] /\ version \in [Entry -> 1 .. 2]
        /\ data \in [Entry -> EntryData]
        /\ unchecked \subseteq Entry /\ reverted \subseteq Entry /\ missed \subseteq Entry
    BY EntriesAssumption DEF Init, Steps
  <2>6. QED
    BY <2>1, <2>2, <2>3, <2>4, <2>5 DEF TypeOK
<1>2. SharedInv
  BY DEF Init, SharedInv, ServicesInv, MarkInv, CardServed, FreshInv
<1>3. FlowInv
  BY DEF Init, FlowInv, UserInv, FreeInv, CopyInv, Flows, Sources
<1>4. IdentityInv
  BY DEF Init, IdentityInv, IdentifiersUnique, IdentifierMatches, Present
<1>5. QED
  BY <1>1, <1>2, <1>3, <1>4 DEF Inv

-----------------------------------------------------------------------------
(* Setup and unload *)

\* What a step that only moves an entry on leaves alone.
LEMMA MoveKeeps ==
    ASSUME Inv, NEW e \in Entry, NEW from, NEW to \in Steps \ {"absent"},
           from # "absent", Moves(e, from, to),
           UNCHANGED <<entryVars, flows, unchecked, reverted>>
    PROVE  /\ FlowInv' /\ IdentityInv' /\ Present' = Present
           /\ state' \in [Entry -> Steps]
<1>1. state' = [state EXCEPT ![e] = to] /\ state[e] = from /\ state \in [Entry -> Steps]
  BY DEF Moves, Inv, TypeOK
<1>2. Present' = Present
  BY <1>1 DEF Present
<1>3. UserInv'
  BY <1>1 DEF Inv, FlowInv, UserInv
<1>4. FreeInv' /\ CopyInv'
  BY <1>2 DEF Inv, FlowInv, FreeInv, CopyInv, entryVars, Identifier
<1>5. IdentityInv'
  BY <1>2 DEF Inv, IdentityInv, IdentifiersUnique, IdentifierMatches, entryVars, Identifier
<1>6. QED
  BY <1>1, <1>2, <1>3, <1>4, <1>5 DEF FlowInv

LEMMA SetupStartsKeeps ==
    ASSUME Inv, NEW e \in Entry, SetupStarts(e)
    PROVE  Inv'
<1> USE DEF SetupStarts, Moves
<1>1. MigratedIdentifier(e) \in Identifiers /\ MigratedIdentifier(e)[2] # NoMachine
  BY IdentifierType DEF MigratedIdentifier, Inv, TypeOK
<1>2. TypeOK'
  BY <1>1 DEF Inv, TypeOK, Steps, sharedVars
<1>3. SharedInv'
  BY DEF Inv, TypeOK, SharedInv, ServicesInv, MarkInv, CardServed, FreshInv, sharedVars
<1>4. Present' = Present
  BY DEF Inv, TypeOK, Present
<1>5. ASSUME NEW o \in Present PROVE uid'[o] = uid[o] \/ o \in unchecked'
  BY <1>5 DEF Inv, TypeOK, Present, MigratedIdentifier
<1>6. UserInv' /\ CopyInv'
  BY DEF Inv, TypeOK, FlowInv, UserInv, CopyInv
<1>7. FreeInv'
  BY <1>4, <1>5 DEF Inv, FlowInv, FreeInv, Identifier
<1>8. IdentifiersUnique'
  BY <1>4, <1>5 DEF Inv, IdentityInv, IdentifiersUnique
<1>9. IdentifierMatches'
  BY <1>4 DEF Inv, TypeOK, IdentityInv, IdentifierMatches, MigratedIdentifier, Identifier, Present
<1>10. QED
  BY <1>2, <1>3, <1>6, <1>7, <1>8, <1>9 DEF Inv, FlowInv, IdentityInv

LEMMA SetupFailsKeeps ==
    ASSUME Inv, NEW e \in Entry, SetupFails(e)
    PROVE  Inv'
<1>1. FlowInv' /\ IdentityInv' /\ state' \in [Entry -> Steps]
  BY MoveKeeps DEF SetupFails, Steps
<1>2. TypeOK'
  BY <1>1 DEF SetupFails, Forget, Inv, TypeOK, entryVars, sharedVars
<1>3. SharedInv'
  BY DEF SetupFails, Forget, Moves, Inv, TypeOK, SharedInv, ServicesInv, MarkInv, CardServed,
         FreshInv, sharedVars
<1>4. QED
  BY <1>1, <1>2, <1>3 DEF Inv

LEMMA PlatformsReadyKeeps ==
    ASSUME Inv, NEW e \in Entry, PlatformsReady(e)
    PROVE  Inv'
<1>1. FlowInv' /\ IdentityInv' /\ state' \in [Entry -> Steps]
  BY MoveKeeps DEF PlatformsReady, Steps, historyVars
<1>2. TypeOK'
  BY <1>1 DEF PlatformsReady, Inv, TypeOK, entryVars, historyVars
<1>3. SharedInv'
  BY DEF PlatformsReady, Moves, Inv, TypeOK, SharedInv, ServicesInv, MarkInv, CardServed, FreshInv,
         historyVars
<1>4. QED
  BY <1>1, <1>2, <1>3 DEF Inv

LEMMA CardKeeps ==
    ASSUME Inv, NEW e \in Entry, CardChecked(e) \/ PathRegistered(e)
    PROVE  Inv'
<1>1. FlowInv' /\ IdentityInv' /\ state' \in [Entry -> Steps]
  <2>1. CASE CardChecked(e)
    BY <2>1, MoveKeeps DEF CardChecked, Steps, historyVars
  <2>2. CASE PathRegistered(e)
    BY <2>2, MoveKeeps DEF PathRegistered, Steps, historyVars
  <2>3. QED
    BY <2>1, <2>2
<1>2. TypeOK'
  BY <1>1 DEF CardChecked, PathRegistered, Inv, TypeOK, entryVars, historyVars
<1>3. SharedInv'
  <2>1. CASE CardChecked(e)
    BY <2>1 DEF CardChecked, Moves, Inv, TypeOK, SharedInv, ServicesInv, MarkInv, CardServed,
                FreshInv, historyVars
  <2>2. CASE PathRegistered(e)
    BY <2>2 DEF PathRegistered, Moves, Inv, TypeOK, SharedInv, ServicesInv, MarkInv, CardServed,
                FreshInv, historyVars
  <2>3. QED
    BY <2>1, <2>2
<1>4. QED
  BY <1>1, <1>2, <1>3 DEF Inv

LEMMA UnloadKeeps ==
    ASSUME Inv, NEW e \in Entry, UnloadStarts(e) \/ UnloadEnds(e)
    PROVE  Inv'
<1>1. FlowInv' /\ IdentityInv' /\ state' \in [Entry -> Steps]
  <2>1. CASE UnloadStarts(e)
    BY <2>1, MoveKeeps DEF UnloadStarts, Steps
  <2>2. CASE UnloadEnds(e)
    BY <2>2, MoveKeeps DEF UnloadEnds, Steps, historyVars
  <2>3. QED
    BY <2>1, <2>2
<1>2. TypeOK'
  <2>1. CASE UnloadStarts(e)
    BY <1>1, <2>1 DEF UnloadStarts, Forget, Inv, TypeOK, entryVars, sharedVars
  <2>2. CASE UnloadEnds(e)
    BY <1>1, <2>2 DEF UnloadEnds, ReleaseServices, Inv, TypeOK, entryVars, historyVars
  <2>3. QED
    BY <2>1, <2>2
<1>3. MarkInv' /\ FreshInv'
  BY DEF UnloadStarts, UnloadEnds, Forget, Moves, Inv, TypeOK, SharedInv, MarkInv, CardServed,
         FreshInv, sharedVars, historyVars
<1>4. ServicesInv'
  <2>1. CASE UnloadStarts(e)
    BY <2>1 DEF UnloadStarts, Moves, Inv, TypeOK, SharedInv, ServicesInv, sharedVars
  <2>2. CASE UnloadEnds(e) /\ state'[e] = "error"
    BY <2>2 DEF UnloadEnds, Moves, Inv, TypeOK, SharedInv, ServicesInv
  <2>3. CASE UnloadEnds(e) /\ ReleaseServices(e) /\ Moves(e, "unloading", "off")
    <3>1. ASSUME NEW o \in Entry, state'[o] \in {"card", "path", "loaded"}
          PROVE  o # e /\ state[o] = state'[o] /\ (services \/ disarmed)
      BY <2>3, <3>1 DEF Moves, Inv, TypeOK, SharedInv, ServicesInv
    <3>2. ASSUME NEW o \in Entry, state'[o] \in {"card", "path", "loaded"}
          PROVE  Remaining(e) # {} \/ InSetup \ {e} # {}
      BY <3>1, <3>2 DEF Remaining, Loaded, InSetup
    <3>3. QED
      BY <2>3, <3>1, <3>2 DEF ReleaseServices, ServicesInv
  <2>4. QED
    BY <2>1, <2>2, <2>3 DEF UnloadEnds, Moves, Inv, TypeOK
<1>5. QED
  BY <1>1, <1>2, <1>3, <1>4 DEF Inv, SharedInv

\* An entry that goes takes what is said of it with it.
LEMMA RemoveKeeps ==
    ASSUME Inv, NEW e \in Entry, RemoveEntry(e)
    PROVE  Inv'
<1>1. state' = [state EXCEPT ![e] = "absent"] /\ state[e] \in {"off", "error"}
  BY DEF RemoveEntry, Moves
<1>2. \A f \in Flows : flows'[f] = Idle \/ flows'[f] = flows[f]
  BY DEF RemoveEntry, Abort, Inv, TypeOK
<1>3. Present' = Present \ {e}
  BY <1>1 DEF Present, Inv, TypeOK
<1>4. TypeOK'
  <2>1. flows' \in [Flows -> Progress \cup {Idle}]
    BY DEF RemoveEntry, Abort, Inv, TypeOK
  <2>2. QED
    BY <1>1, <2>1 DEF RemoveEntry, Inv, TypeOK, Steps, entryVars, sharedVars
<1>5. ServicesInv' /\ MarkInv' /\ FreshInv'
  BY <1>1 DEF RemoveEntry, Inv, TypeOK, SharedInv, ServicesInv, MarkInv, CardServed, FreshInv,
              sharedVars
<1>6. UserInv' /\ CopyInv'
  BY <1>1, <1>2 DEF RemoveEntry, Inv, TypeOK, FlowInv, UserInv, CopyInv, Flows, Sources,
                    entryVars
<1>7. FreeInv'
  BY <1>2, <1>3 DEF RemoveEntry, Inv, FlowInv, FreeInv, Flows, Sources, entryVars, Identifier
<1>8. IdentityInv'
  BY <1>3 DEF RemoveEntry, Inv, IdentityInv, IdentifiersUnique, IdentifierMatches, entryVars,
              Identifier
<1>9. QED
  BY <1>4, <1>5, <1>6, <1>7, <1>8 DEF Inv, SharedInv, FlowInv

LEMMA RestartKeeps ==
    ASSUME Inv, RestartHomeAssistant
    PROVE  Inv'
<1> USE DEF RestartHomeAssistant
<1>1. Present' = Present
  BY DEF Present, Inv, TypeOK
<1>2. TypeOK'
  <2>1. /\ flows' \in [Flows -> Progress \cup {Idle}]
        /\ fresh' \in [Entry -> BOOLEAN] /\ reload' \in [Entry -> BOOLEAN]
    OBVIOUS
  <2>2. services' \in BOOLEAN /\ mark' \in BOOLEAN /\ path' \in BOOLEAN
        /\ disarmed' \in BOOLEAN
    BY Zenon
  <2>3. QED
    BY <2>1, <2>2 DEF Inv, TypeOK, Steps, entryVars
<1>3. SharedInv'
  BY DEF Inv, TypeOK, SharedInv, ServicesInv, MarkInv, CardServed, FreshInv
<1>4. FlowInv'
  BY DEF FlowInv, UserInv, FreeInv, CopyInv, Flows, Sources
<1>5. IdentityInv'
  BY <1>1 DEF Inv, IdentityInv, IdentifiersUnique, IdentifierMatches, entryVars, Identifier
<1>6. QED
  BY <1>2, <1>3, <1>4, <1>5 DEF Inv

\* Options are no part of what the flows have read.
LEMMA OptionsKeep ==
    ASSUME Inv, NEW e \in Entry, ChangeOptions(e)
    PROVE  Inv'
<1> USE DEF ChangeOptions
<1>1. TypeOK'
  BY EntriesAssumption DEF Inv, TypeOK, ScheduleReload, entryVars, sharedVars
<1>2. ServicesInv' /\ MarkInv'
  BY DEF Inv, SharedInv, ServicesInv, MarkInv, CardServed, sharedVars
<1>3. FreshInv'
  BY DEF Inv, TypeOK, SharedInv, FreshInv, ScheduleReload, Listening
<1>4. FlowInv' /\ IdentityInv'
  BY DEF Inv, FlowInv, UserInv, FreeInv, CopyInv, IdentityInv, IdentifiersUnique,
         IdentifierMatches, Present, Identifier, entryVars
<1>5. QED
  BY <1>1, <1>2, <1>3, <1>4 DEF Inv, SharedInv

-----------------------------------------------------------------------------
(* Flows *)

\* What a step that only changes the flows leaves alone.
LEMMA SharedStays ==
    ASSUME Inv, UNCHANGED <<state, entryVars, fresh, reload, sharedVars, stores, historyVars>>
    PROVE  SharedInv' /\ IdentityInv' /\ Present' = Present
<1>1. Present' = Present
  BY DEF Present
<1>2. SharedInv'
  BY DEF Inv, SharedInv, ServicesInv, MarkInv, CardServed, FreshInv, sharedVars, historyVars
<1>3. IdentityInv'
  BY <1>1 DEF Inv, IdentityInv, IdentifiersUnique, IdentifierMatches, Identifier, entryVars,
              historyVars
<1>4. QED
  BY <1>1, <1>2, <1>3

LEMMA FlowFailsKeeps ==
    ASSUME Inv, NEW f \in Flows, FlowFails(f)
    PROVE  Inv'
<1>1. SharedInv' /\ IdentityInv' /\ Present' = Present
  BY SharedStays DEF FlowFails
<1>2. \A g \in Flows : flows'[g] = Idle \/ flows'[g] = flows[g]
  BY DEF FlowFails, Inv, TypeOK
<1>3. TypeOK'
  BY DEF FlowFails, Inv, TypeOK, entryVars, sharedVars, historyVars
<1>4. FlowInv'
  BY <1>1, <1>2 DEF FlowFails, Inv, FlowInv, UserInv, FreeInv, CopyInv, Flows, Sources,
                    Identifier, entryVars, historyVars
<1>5. QED
  BY <1>1, <1>3, <1>4 DEF Inv

\* A flow begins with what its source guarantees.
LEMMA BeginKeeps ==
    ASSUME Inv, NEW f \in Flows, NEW d \in EntryData, Begin(f, d),
           f[1] = "user" => state[f[2]] = "absent",
           f[1] = "reconfigure" => Free(Identifier(d), f[2]),
           f[1] = "repair" => d = data[f[2]]
    PROVE  Inv'
<1>1. SharedInv' /\ IdentityInv' /\ Present' = Present
  BY SharedStays DEF Begin
<1>2. [data |-> d, overtaken |-> FALSE] \in Progress
  BY DEF Progress
<1>3. TypeOK'
  BY <1>2 DEF Begin, Inv, TypeOK, entryVars, sharedVars, historyVars
<1>4. \A g \in Flows : flows'[g] = IF g = f THEN [data |-> d, overtaken |-> FALSE]
                                            ELSE flows[g]
  BY DEF Begin, Inv, TypeOK
<1>5. UNCHANGED <<state, uid, data, unchecked>>
  BY DEF Begin, entryVars, historyVars
<1>6. UserInv'
  BY <1>4, <1>5 DEF Inv, FlowInv, UserInv, Flows, Sources
<1>7. CopyInv'
  BY <1>4, <1>5 DEF Inv, FlowInv, CopyInv, Flows, Sources
<1>8. FreeInv'
  <2> SUFFICES ASSUME NEW e \in Entry, NEW o \in Present', o # e,
                      ~flows'[<<"reconfigure", e>>].overtaken,
                      flows'[<<"reconfigure", e>>] # Idle
               PROVE  uid'[o] # Identifier(flows'[<<"reconfigure", e>>].data)
                        \/ o \in unchecked'
    BY <1>5 DEF FreeInv, Identifier
  <2>1. o \in Present /\ <<"reconfigure", e>> \in Flows
    BY <1>1 DEF Flows, Sources
  <2>2. CASE f = <<"reconfigure", e>>
    BY <1>4, <1>5, <2>1, <2>2 DEF Free, Holders, Identifier
  <2>3. CASE f # <<"reconfigure", e>>
    BY <1>4, <1>5, <2>1, <2>3 DEF Inv, FlowInv, FreeInv
  <2>4. QED
    BY <2>2, <2>3
<1>9. QED
  BY <1>1, <1>3, <1>6, <1>7, <1>8 DEF Inv, FlowInv

LEMMA BeginStepsKeep ==
    ASSUME Inv, NEW e \in Entry,
           \/ \E d \in EntryData : UserSubmits(e, d) \/ ReconfigureSubmits(e, d)
           \/ \E m \in Machines : ReauthStarts(e, m)
           \/ RepairSubmits(e)
    PROVE  Inv'
<1>1. \A s \in Sources : <<s, e>> \in Flows /\ <<s, e>>[1] = s /\ <<s, e>>[2] = e
  BY DEF Flows
<1>2. data[e] \in EntryData
  BY DEF Inv, TypeOK
<1>3. ASSUME NEW d \in EntryData, UserSubmits(e, d) PROVE Inv'
  BY <1>1, <1>3, BeginKeeps DEF UserSubmits, Sources
<1>4. ASSUME NEW d \in EntryData, ReconfigureSubmits(e, d) PROVE Inv'
  BY <1>1, <1>4, BeginKeeps DEF ReconfigureSubmits, Sources
<1>5. ASSUME NEW m \in Machines, ReauthStarts(e, m) PROVE Inv'
  <2>1. [data[e] EXCEPT !.machine = m] \in EntryData
    BY <1>2 DEF EntryData
  <2>2. QED
    BY <1>1, <1>5, <2>1, BeginKeeps DEF ReauthStarts, Sources
<1>6. CASE RepairSubmits(e)
  BY <1>1, <1>2, <1>6, BeginKeeps DEF RepairSubmits, Sources
<1>7. QED
  BY <1>3, <1>4, <1>5, <1>6

\* The flows that are left when one has ended: what they hold stays, and those
\* that rest on what has changed are overtaken.
LEMMA EndFlowIs ==
    ASSUME Inv, NEW f \in Flows
    PROVE  /\ EndFlow(f) \in [Flows -> Progress \cup {Idle}]
           /\ EndFlow(f)[f] = Idle
           /\ \A g \in Flows :
                EndFlow(f)[g] # Idle =>
                  /\ flows[g] # Idle
                  /\ EndFlow(f)[g].data = flows[g].data
                  /\ ~EndFlow(f)[g].overtaken
                       => ~flows[g].overtaken /\ ~Overtakes(f, g)
<1>1. ASSUME NEW g \in Flows, g # f, flows[g] # Idle
      PROVE  /\ EndFlow(f)[g] = [flows[g] EXCEPT
                                   !.overtaken = flows[g].overtaken \/ Overtakes(f, g)]
             /\ flows[g] \in Progress
  BY <1>1 DEF EndFlow, Inv, TypeOK
<1>2. ASSUME NEW g \in Flows, g # f, flows[g] # Idle
      PROVE  /\ EndFlow(f)[g] \in Progress
             /\ EndFlow(f)[g].data = flows[g].data
             /\ EndFlow(f)[g].overtaken = (flows[g].overtaken \/ Overtakes(f, g))
  <2>1. (flows[g].overtaken \/ Overtakes(f, g)) \in BOOLEAN
    OBVIOUS
  <2>2. QED
    BY <1>1, <1>2, <2>1 DEF Progress
<1>3. ASSUME NEW g \in Flows, g = f \/ flows[g] = Idle PROVE EndFlow(f)[g] = Idle
  BY <1>3 DEF EndFlow
<1>4. \A g \in Flows : EndFlow(f)[g] \in Progress \cup {Idle}
  BY <1>2, <1>3
<1>5. EndFlow(f) \in [Flows -> Progress \cup {Idle}]
  BY <1>4 DEF EndFlow
<1>6. QED
  BY <1>2, <1>3, <1>5

\* What a flow stores is checked, or it has been overtaken.
LEMMA FlowStoresKeeps ==
    ASSUME Inv, NEW f \in Flows, FlowStores(f)
    PROVE  Inv'
<1> DEFINE e == f[2]
           flow == flows[f]
<1>0. e \in Entry /\ f = <<f[1], e>> /\ f[1] \in {"reauth", "reconfigure", "repair"}
  BY DEF Flows, Sources, FlowStores
<1>1. flow \in Progress /\ flow # Idle
  BY DEF FlowStores, Active, Inv, TypeOK
<1>2. flow.data \in EntryData
  BY <1>1 DEF Progress
<1>3. /\ data' = [data EXCEPT ![e] = flow.data]
      /\ uid' = [uid EXCEPT ![e] = NewIdentifier(f)]
      /\ flows' = EndFlow(f) /\ reload' = [reload EXCEPT ![e] = TRUE]
      /\ fresh' = [fresh EXCEPT ![e] = FALSE]
      /\ UNCHANGED <<state, version, sharedVars, missed>>
      /\ Present' = Present
  BY DEF FlowStores, ScheduleReload, Present
<1>4. NewIdentifier(f) = IF f[1] = "repair" THEN uid[e] ELSE Identifier(flow.data)
  BY DEF NewIdentifier
<1>5. NewIdentifier(f) \in Identifiers
      /\ (NewIdentifier(f)[2] = NoMachine => NewIdentifier(f) = uid[e])
  BY <1>0, <1>2, <1>4, IdentifierType DEF Inv, TypeOK
<1>6. TypeOK'
  <2>1. unchecked' \subseteq Entry /\ reverted' \subseteq Entry
        /\ stores' \in 0 .. MaxStores
    BY <1>0, EntriesAssumption DEF FlowStores, Inv, TypeOK
  <2>2. \A o \in Entry : version'[o] = 2 => uid'[o][2] # NoMachine
    BY <1>0, <1>3, <1>5 DEF Inv, TypeOK
  <2>3. QED
    BY <1>0, <1>2, <1>3, <1>5, <2>1, <2>2, EndFlowIs DEF Inv, TypeOK, sharedVars
<1>7. SharedInv'
  BY <1>0, <1>3 DEF Inv, TypeOK, SharedInv, ServicesInv, MarkInv, CardServed, FreshInv,
                    sharedVars
<1>8. FlowInv'
  <2>1. ASSUME NEW s \in Sources, NEW o \in Entry
        PROVE  /\ <<s, o>> \in Flows
               /\ Overtakes(f, <<s, o>>) = (s = "reconfigure" \/ (s = "repair" /\ o = e))
    BY DEF Flows, Overtakes
  <2>2. UserInv'
    BY <1>3, <2>1, EndFlowIs DEF Inv, FlowInv, UserInv, Sources
  <2>3. FreeInv'
    BY <1>3, <2>1, EndFlowIs DEF FreeInv, Sources
  <2>4. CopyInv'
    <3> SUFFICES ASSUME NEW o \in Entry, flows'[<<"repair", o>>] # Idle,
                        ~flows'[<<"repair", o>>].overtaken
                 PROVE  flows'[<<"repair", o>>].data = data'[o]
      BY DEF CopyInv
    <3>1. /\ flows[<<"repair", o>>] # Idle /\ ~flows[<<"repair", o>>].overtaken
          /\ flows'[<<"repair", o>>].data = flows[<<"repair", o>>].data
          /\ o # e
      BY <1>3, <2>1, EndFlowIs DEF Sources
    <3>2. data'[o] = data[o]
      BY <1>0, <1>3, <3>1 DEF Inv, TypeOK
    <3>3. QED
      BY <3>1, <3>2 DEF Inv, FlowInv, CopyInv
  <2>5. QED
    BY <2>2, <2>3, <2>4 DEF FlowInv
<1>9. IdentifiersUnique'
  <2>1. CASE f[1] = "repair"
    <3>1. uid' = uid /\ unchecked' = unchecked
      BY <1>0, <1>3, <1>4, <2>1 DEF FlowStores, Inv, TypeOK
    <3>2. QED
      BY <1>3, <3>1 DEF Inv, IdentityInv, IdentifiersUnique
  <2>2. CASE f[1] # "repair" /\ (f[1] = "reauth" \/ flow.overtaken)
    <3>1. unchecked' = unchecked \cup {e}
      BY <2>2 DEF FlowStores
    <3>2. QED
      BY <1>0, <1>3, <3>1 DEF Inv, TypeOK, IdentityInv, IdentifiersUnique, Present
  <2>3. CASE f[1] = "reconfigure" /\ ~flow.overtaken
    <3>1. unchecked' = unchecked \ {e} /\ uid'[e] = Identifier(flow.data)
      BY <1>0, <1>3, <1>4, <2>3 DEF FlowStores, Inv, TypeOK
    <3>2. \A o \in Present : o # e => uid[o] # Identifier(flow.data) \/ o \in unchecked
      BY <1>0, <1>1, <2>3 DEF Inv, FlowInv, FreeInv
    <3>3. QED
      BY <1>0, <1>3, <3>1, <3>2 DEF Inv, TypeOK, IdentityInv, IdentifiersUnique, Present
  <2>4. QED
    BY <1>0, <2>1, <2>2, <2>3
<1>10. IdentifierMatches'
  <2>1. ASSUME NEW o \in Present, o # e
        PROVE  uid'[o] = uid[o] /\ data'[o] = data[o] /\ (o \in reverted => o \in reverted')
    BY <1>0, <1>3, <2>1 DEF FlowStores, Inv, TypeOK, Present
  <2>2. uid'[e] = Identifier(data'[e]) \/ (f[1] = "repair" /\ uid'[e] = uid[e])
    BY <1>0, <1>3, <1>4 DEF Inv, TypeOK
  <2>3. f[1] = "repair" => e \in reverted' \/ data'[e] = data[e]
    <3>1. CASE flow.overtaken
      BY <3>1 DEF FlowStores
    <3>2. CASE ~flow.overtaken
      BY <1>0, <1>1, <1>3, <3>2 DEF Inv, TypeOK, FlowInv, CopyInv
    <3>3. QED
      BY <3>1, <3>2
  <2>4. f[1] = "repair" /\ e \in reverted => e \in reverted'
    BY DEF FlowStores
  <2>5. QED
    BY <1>3, <2>1, <2>2, <2>3, <2>4 DEF Inv, IdentityInv, IdentifierMatches, Identifier
<1>11. QED
  BY <1>6, <1>7, <1>8, <1>9, <1>10 DEF Inv, IdentityInv

\* A new entry drives out those that hold its identifier.
LEMMA UserStoresKeeps ==
    ASSUME Inv, NEW e \in Entry, UserStores(e)
    PROVE  Inv'
<1> DEFINE f == <<"user", e>>
           id == Identifier(flows[f].data)
           gone == Holders(id, e)
<1>1. f \in Flows /\ f[1] = "user" /\ f[2] = e /\ flows[f] # Idle
  BY DEF Flows, Sources, UserStores, Active
<1>2. flows[f].data \in EntryData
  BY <1>1 DEF Inv, TypeOK, Progress
<1>3. state[e] = "absent" /\ e \notin gone /\ gone \subseteq Entry
  BY <1>1 DEF Inv, FlowInv, UserInv, Holders, Present
<1>4. /\ state' = [o \in Entry |-> IF o = e THEN "off"
                                   ELSE IF o \in gone THEN "absent" ELSE state[o]]
      /\ \A o \in gone : state[o] \in {"off", "error"}
      /\ version' = [version EXCEPT ![e] = 2]
      /\ data' = [data EXCEPT ![e] = flows[f].data]
      /\ uid' = [uid EXCEPT ![e] = id]
      /\ flows' = [g \in Flows |-> IF g[2] \in gone THEN Idle ELSE EndFlow(f)[g]]
      /\ unchecked' = unchecked \ {e} /\ reverted' = reverted \ {e}
      /\ reload' = [o \in Entry |-> reload[o] /\ o \notin gone]
      /\ UNCHANGED <<fresh, sharedVars, missed>>
      /\ stores < MaxStores /\ stores' = stores + 1
  BY DEF UserStores
<1>5. id \in Identifiers /\ id[2] # NoMachine
  BY <1>2, IdentifierType
<1>6. Present' = (Present \cup {e}) \ gone
  BY <1>3, <1>4 DEF Present, Inv, TypeOK
<1>7. \A o \in Entry : o # e =>
        /\ uid'[o] = uid[o] /\ data'[o] = data[o] /\ version'[o] = version[o]
        /\ state'[o] = state[o] \/ (o \in gone /\ state'[o] = "absent")
  BY <1>4 DEF Inv, TypeOK
<1>8. \A o \in Entry : reload[o] /\ o \notin gone => reload'[o]
  BY <1>4
<1>9. TypeOK'
  <2>1. reload' \in [Entry -> BOOLEAN]
    BY <1>4
  <2>2. flows' \in [Flows -> Progress \cup {Idle}]
    BY <1>1, <1>4, EndFlowIs
  <2>3. state' \in [Entry -> Steps]
    BY <1>4 DEF Inv, TypeOK, Steps
  <2>4. stores' \in 0 .. MaxStores
    BY <1>4, EntriesAssumption DEF Inv, TypeOK
  <2>5. /\ uid' \in [Entry -> Identifiers] /\ data' \in [Entry -> EntryData]
        /\ version' \in [Entry -> 1 .. 2]
        /\ \A o \in Entry : version'[o] = 2 => uid'[o][2] # NoMachine
    BY <1>2, <1>4, <1>5 DEF Inv, TypeOK
  <2>6. QED
    BY <1>4, <2>1, <2>2, <2>3, <2>4, <2>5 DEF Inv, TypeOK, sharedVars
<1>10. SharedInv'
  <2>1. ASSUME NEW o \in Entry, state'[o] \in {"starting", "card", "path", "loaded"}
        PROVE  o # e /\ o \notin gone /\ state[o] = state'[o]
    BY <1>4, <2>1 DEF Inv, TypeOK
  <2>2. ASSUME NEW o \in Entry, state[o] = "path" PROVE state'[o] = "path"
    BY <1>3, <1>4, <2>2 DEF Inv, TypeOK
  <2>3. ServicesInv' /\ MarkInv'
    BY <1>4, <2>1, <2>2 DEF Inv, SharedInv, ServicesInv, MarkInv, CardServed, sharedVars
  <2>4. FreshInv'
    BY <1>4, <1>8, <2>1 DEF Inv, SharedInv, FreshInv
  <2>5. QED
    BY <2>3, <2>4 DEF SharedInv
<1>11. FlowInv'
  <2>1. ASSUME NEW g \in Flows, flows'[g] # Idle
        PROVE  /\ g # f /\ g[2] \notin gone
               /\ flows[g] # Idle /\ flows'[g].data = flows[g].data
               /\ ~flows'[g].overtaken => ~flows[g].overtaken /\ ~Overtakes(f, g)
    BY <1>1, <1>4, <2>1, EndFlowIs
  <2>2. ASSUME NEW s \in Sources, NEW o \in Entry
        PROVE  /\ <<s, o>> \in Flows /\ <<s, o>>[2] = o
               /\ <<s, o>> = f => o = e
               /\ Overtakes(f, <<s, o>>) = (s = "reconfigure" \/ (s = "repair" /\ o = e))
    BY DEF Flows, Overtakes
  <2>3. UserInv'
    <3> SUFFICES ASSUME NEW o \in Entry, flows'[<<"user", o>>] # Idle
                 PROVE  state'[o] = "absent"
      BY DEF UserInv
    <3>1. o # e /\ flows[<<"user", o>>] # Idle
      BY <2>1, <2>2 DEF Sources
    <3>2. QED
      BY <1>7, <3>1 DEF Inv, FlowInv, UserInv
  <2>4. FreeInv'
    BY <2>1, <2>2 DEF FreeInv, Sources
  <2>5. CopyInv'
    <3> SUFFICES ASSUME NEW o \in Entry, flows'[<<"repair", o>>] # Idle,
                        ~flows'[<<"repair", o>>].overtaken
                 PROVE  flows'[<<"repair", o>>].data = data'[o]
      BY DEF CopyInv
    <3>1. /\ flows[<<"repair", o>>] # Idle /\ ~flows[<<"repair", o>>].overtaken
          /\ flows'[<<"repair", o>>].data = flows[<<"repair", o>>].data
          /\ o # e
      BY <2>1, <2>2 DEF Sources
    <3>2. QED
      BY <1>7, <3>1 DEF Inv, FlowInv, CopyInv
  <2>6. QED
    BY <2>3, <2>4, <2>5 DEF FlowInv
<1>12. IdentifiersUnique'
  <2>1. uid'[e] = id
    BY <1>4 DEF Inv, TypeOK
  <2>2. \A o \in Present' : o # e => o \in Present /\ uid[o] # id
    BY <1>3, <1>6 DEF Holders
  <2>3. \A o \in Present : o \in Entry
    BY DEF Present
  <2>4. QED
    BY <1>4, <1>7, <2>1, <2>2, <2>3 DEF Inv, IdentityInv, IdentifiersUnique
<1>13. IdentifierMatches'
  <2>1. uid'[e] = Identifier(data'[e])
    BY <1>4 DEF Inv, TypeOK
  <2>2. \A o \in Present' : o = e \/ (o \in Present /\ o \in Entry)
    BY <1>6 DEF Present
  <2>3. QED
    BY <1>4, <1>7, <2>1, <2>2 DEF Inv, IdentityInv, IdentifierMatches, Identifier
<1>14. QED
  BY <1>9, <1>10, <1>11, <1>12, <1>13 DEF Inv, IdentityInv

-----------------------------------------------------------------------------
LEMMA StepKeeps == Inv /\ [Next]_vars => Inv'
<1> SUFFICES ASSUME Inv, [Next]_vars PROVE Inv'
  OBVIOUS
<1>1. ASSUME NEW e \in Entry, Lifecycle(e) PROVE Inv'
  BY <1>1, SetupStartsKeeps, SetupFailsKeeps, PlatformsReadyKeeps, CardKeeps, UnloadKeeps,
     RemoveKeeps, OptionsKeep DEF Lifecycle
<1>2. ASSUME NEW e \in Entry, FlowStep(e) PROVE Inv'
  BY <1>2, BeginStepsKeep, UserStoresKeeps DEF FlowStep
<1>3. ASSUME NEW f \in Flows, FlowStores(f) \/ FlowFails(f) PROVE Inv'
  BY <1>3, FlowStoresKeeps, FlowFailsKeeps
<1>4. CASE RestartHomeAssistant
  BY <1>4, RestartKeeps
<1>5. CASE UNCHANGED vars
  <2>1. UNCHANGED <<state, version, uid, data, fresh, reload, flows, services, mark, path,
                    stores, disarmed, unchecked, reverted, missed>>
    BY <1>5 DEF vars, entryVars, sharedVars, historyVars
  <2>2. Present' = Present
    BY <2>1 DEF Present
  <2>3. TypeOK' /\ SharedInv'
    BY <2>1 DEF Inv, TypeOK, SharedInv, ServicesInv, MarkInv, CardServed, FreshInv
  <2>4. FlowInv' /\ IdentityInv'
    BY <2>1, <2>2 DEF Inv, FlowInv, UserInv, FreeInv, CopyInv, IdentityInv,
                      IdentifiersUnique, IdentifierMatches, Identifier
  <2>5. QED
    BY <2>3, <2>4 DEF Inv
<1>6. QED
  BY <1>1, <1>2, <1>3, <1>4, <1>5 DEF Next

\* The invariant on which the properties rest: entries, their flows and what they
\* share, at every await of a flow, a setup or an unload.
THEOREM Invariance == Spec => []Inv
<1>1. QED
  BY InitInv, StepKeeps, PTL DEF Spec

\* The type invariant holds for any entries, flows and changes.
THEOREM TypeCorrect == Spec => []TypeOK
<1>1. Inv => TypeOK
  BY DEF Inv
<1>2. QED
  BY <1>1, Invariance, PTL

\* The last unload never takes the services from an entry that is loaded, except
\* from one that was waiting for the card.
THEOREM ServicesStay == Spec => []ServicesWhileLoaded
<1>1. Inv => ServicesWhileLoaded
  BY DEF Inv, SharedInv, ServicesInv, ServicesWhileLoaded, Loaded
<1>2. QED
  BY <1>1, Invariance, PTL

\* The mark of the card and its static path agree, however setups overlap.
THEOREM CardIsServed == Spec => []CardServed
<1>1. Inv => CardServed
  BY DEF Inv, SharedInv, MarkInv
<1>2. QED
  BY <1>1, Invariance, PTL

\* Flows that overlap share an identifier only where it was stored unchecked.
THEOREM IdentifiersStayUnique == Spec => []IdentifiersUnique
<1>1. Inv => IdentifiersUnique
  BY DEF Inv, IdentityInv
<1>2. QED
  BY <1>1, Invariance, PTL

\* Identifier and data agree unless a repair wrote old data back.
THEOREM IdentifierStaysTrue == Spec => []IdentifierMatches
<1>1. Inv => IdentifierMatches
  BY DEF Inv, IdentityInv
<1>2. QED
  BY <1>1, Invariance, PTL

\* A loaded entry runs on what is stored, or will be reloaded.
THEOREM StoredIsRun == Spec => []RunsWhatIsStored
<1>1. Inv => RunsWhatIsStored
  BY DEF Inv, SharedInv, FreshInv, RunsWhatIsStored, Loaded
<1>2. QED
  BY <1>1, Invariance, PTL
=============================================================================
