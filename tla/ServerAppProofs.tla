-------------------------- MODULE ServerAppProofs --------------------------
(***************************************************************************)
(* Theorems about ServerApp, for every value of its constants: what the    *)
(* runs check of the commercial sequence and of the firmware update.  Each *)
(* of the two has an inductive invariant of its own, proved action by      *)
(* action from the types.                                                  *)
(***************************************************************************)
EXTENDS ServerApp, SequenceTheorems, TLAPS

-----------------------------------------------------------------------------
(* Types *)

\* Every variable has its type; what is told of a step is told of a sequence
\* that has been started.
TypeOK ==
    /\ commercial \in BOOLEAN
    /\ client \in [Ids -> Devices \cup {Nobody}]
    /\ registrations \in Nat /\ commands \in 0..MaxCommands
    /\ sequences \in Seq(Sequence)
    /\ steps \subseteq (DOMAIN sequences) \X Steps
    /\ inBlocks \subseteq steps
    /\ watched \subseteq (DOMAIN sequences) \X Steps
    /\ dfota \in Dfota
    /\ operations \subseteq Operation
    /\ stored \in [Ids -> Commands \cup {0}]
    /\ notes \subseteq Note
    /\ executed \in [Commands -> Seq(Devices)]
    /\ firmware \in [Devices -> Firmware]
    /\ downloaded \subseteq Commands

\* What the sequence waits for: one that goes on has not heard of a step that
\* is observed before it came to its end, so that notifications hurry nothing.
NotHurried == \A w \in watched : sequences[w[1]].active => w[2] < sequences[w[1]].step

\* Without -C there are no sequences.
OnlyCommercial == ~commercial => sequences = <<>>

\* The invariant of the commercial sequence.
SequencesOK == OnlyCommercial /\ NotHurried /\ OneStepAtATime /\ OnlyTheRegistered

\* The invariants of the firmware update.  What is executed was asked for by a
\* command that awaits no answer any more; the update's client is the device that
\* was asked for, unless its internalID was given to another; and an observation
\* is that of a client there is.
CommandsKnown ==
    /\ dfota.command <= commands
    /\ dfota.state # "IDLE" => dfota.command # 0
    /\ \A op \in operations : op.command <= commands
    /\ \A i \in Ids : stored[i] # 0 => client[i] # Nobody
    /\ \A d \in Devices : firmware[d].state = "downloading" => firmware[d].package # 0
ExecutedOK ==
    \A c \in Commands : executed[c] # <<>> =>
        c <= dfota.command /\ (c = dfota.command => dfota.state \notin {"WAIT_DOWNLOAD", "WAIT_RESULT"})
ClientAsked ==
    dfota.command # 0 => client[dfota.client] \in {Nobody, dfota.device} \/ dfota.reused

\* Who says "downloaded" has downloaded: an answer, a notification, a device and
\* the wait for the result all come after a download, and a download after the
\* command whose package it is, which is none after the last.
DownloadsKnown ==
    /\ \A op \in operations : op.answer = "downloaded" => downloaded # {}
    /\ notes # {} => downloaded # {}
    /\ \A d \in Devices : firmware[d].state = "downloaded" => downloaded # {}
    /\ dfota.state = "WAIT_RESULT" => downloaded # {}
    /\ \A op \in operations : op.kind = "write" => op.command <= dfota.command
    /\ \A d \in Devices : firmware[d].package <= dfota.command
    /\ \A b \in downloaded : b <= dfota.command

UpdatesOK ==
    /\ CommandsKnown /\ ExecutedOK /\ ClientAsked /\ DownloadsKnown
    /\ OneExecution /\ ExecutesWhereAsked /\ DownloadedFirst

-----------------------------------------------------------------------------
(* The operators of the commercial sequence *)

\* A sequence that is stopped, or moved to a step, is one, and only the fields
\* that are given change.
LEMMA StoppedRecord ==
    ASSUME NEW x \in Sequence, NEW b \in BOOLEAN
    PROVE  /\ [x EXCEPT !.active = b] \in Sequence
           /\ [x EXCEPT !.active = b].active = b
           /\ [x EXCEPT !.active = b].client = x.client
           /\ [x EXCEPT !.active = b].device = x.device
           /\ [x EXCEPT !.active = b].step = x.step
BY DEF Sequence

LEMMA DispatchedRecord ==
    ASSUME NEW x \in Sequence, NEW n \in Steps \cup {COMPLETE}, NEW b \in BOOLEAN
    PROVE  [x EXCEPT !.step = n, !.active = b] \in Sequence
BY DEF Sequence

\* Stopping changes nothing of a sequence but that it is active, and only of
\* sequences of that client, among them the newest.
LEMMA StopFacts ==
    ASSUME sequences \in Seq(Sequence), NEW i \in Ids
    PROVE  /\ Stop(i) \in Seq(Sequence)
           /\ DOMAIN Stop(i) = DOMAIN sequences
           /\ Len(Stop(i)) = Len(sequences)
           /\ \A s \in DOMAIN sequences :
                 /\ Stop(i)[s].client = sequences[s].client
                 /\ Stop(i)[s].device = sequences[s].device
                 /\ Stop(i)[s].step = sequences[s].step
                 /\ Stop(i)[s].active => sequences[s].active
                 /\ Stop(i)[s].active /\ sequences[s].client = i =>
                       \E t \in DOMAIN sequences : sequences[t].client = i /\ ~(t <= s)
<1> DEFINE newest == {s \in DOMAIN sequences :
                        /\ sequences[s].client = i
                        /\ \A t \in DOMAIN sequences : sequences[t].client = i => t <= s}
           Stopped(x) == [x EXCEPT !.active = FALSE]
<1>1. Stop(i) = [s \in DOMAIN sequences |-> IF s \in newest THEN Stopped(sequences[s]) ELSE sequences[s]]
    BY DEF Stop
<1>2. ASSUME NEW s \in DOMAIN sequences
      PROVE  /\ sequences[s] \in Sequence
             /\ Stopped(sequences[s]) \in Sequence
             /\ Stopped(sequences[s]).active = FALSE
             /\ Stopped(sequences[s]).client = sequences[s].client
             /\ Stopped(sequences[s]).device = sequences[s].device
             /\ Stopped(sequences[s]).step = sequences[s].step
    <2>1. sequences[s] \in Sequence
        BY <1>2, ElementOfSeq
    <2>2. QED
        BY <2>1, StoppedRecord, Zenon
<1>. HIDE DEF Stopped
<1>3. DOMAIN sequences = 1..Len(sequences) /\ Len(sequences) \in Nat
    BY LenProperties
<1>4. Stop(i) \in [1..Len(sequences) -> Sequence]
    BY <1>1, <1>2, <1>3
<1>5. /\ Stop(i) \in Seq(Sequence)
      /\ DOMAIN Stop(i) = DOMAIN sequences
      /\ Len(Stop(i)) = Len(sequences)
    BY <1>3, <1>4, SeqDef, LenProperties
<1>6. ASSUME NEW s \in DOMAIN sequences
      PROVE  /\ Stop(i)[s].client = sequences[s].client
             /\ Stop(i)[s].device = sequences[s].device
             /\ Stop(i)[s].step = sequences[s].step
             /\ Stop(i)[s].active => sequences[s].active
             /\ Stop(i)[s].active /\ sequences[s].client = i =>
                   \E t \in DOMAIN sequences : sequences[t].client = i /\ ~(t <= s)
    <2>1. CASE s \in newest
        BY <1>1, <1>2, <2>1
    <2>2. CASE s \notin newest
        BY <1>1, <2>2
    <2>3. QED
        BY <2>1, <2>2
<1>7. QED
    BY <1>5, <1>6

\* A dispatch moves one sequence to a step n, whose request is under way then,
\* or to its end, and leaves the others.
LEMMA DispatchFacts ==
    ASSUME NEW table \in Seq(Sequence), NEW s \in DOMAIN table, NEW k \in Steps \cup {COMPLETE},
           NEW outstanding \in SUBSET ((DOMAIN table) \X Steps),
           Dispatch(table, s, k, outstanding)
    PROVE  \E n \in k..COMPLETE :
              /\ n \in Steps \cup {COMPLETE}
              /\ sequences' \in Seq(Sequence)
              /\ DOMAIN sequences' = DOMAIN table
              /\ \A t \in DOMAIN table : t # s => sequences'[t] = table[t]
              /\ sequences'[s].client = table[s].client
              /\ sequences'[s].device = table[s].device
              /\ sequences'[s].step = n
              /\ sequences'[s].active <=> n # COMPLETE
              /\ steps' \subseteq (DOMAIN table) \X Steps
              /\ steps' = outstanding \cup (IF n = COMPLETE THEN {} ELSE {<<s, n>>})
<1>1. PICK n \in k..COMPLETE :
          /\ sequences' = [table EXCEPT ![s].step = n, ![s].active = n # COMPLETE]
          /\ steps' = outstanding \cup ({<<s, n>>} \ {<<s, COMPLETE>>})
    BY DEF Dispatch
<1>2. n \in Steps \cup {COMPLETE}
    BY DEF Steps, READ_4_0_8, READ_3_0_3, COMPLETE
<1>3. PICK going \in BOOLEAN : going = (n # COMPLETE)
    OBVIOUS
<1>4. PICK old \in Sequence : old = table[s]
    BY ElementOfSeq
<1> DEFINE x == [old EXCEPT !.step = n, !.active = going]
<1>5. /\ x \in Sequence
      /\ x.active = going
      /\ x.client = table[s].client
      /\ x.device = table[s].device
      /\ x.step = n
    <2>1. x \in Sequence
        BY <1>2, DispatchedRecord
    <2>2. x.active = going /\ x.client = old.client /\ x.device = old.device /\ x.step = n
        BY <1>2 DEF Sequence
    <2>3. QED
        BY <1>4, <2>1, <2>2
<1>6. sequences' = [table EXCEPT ![s] = x]
    BY <1>1, <1>3, <1>4
<1>. HIDE DEF x
<1>7. /\ sequences' \in Seq(Sequence)
      /\ DOMAIN sequences' = DOMAIN table
    BY <1>5, <1>6, ExceptSeq
<1>8. sequences'[s] = x /\ \A t \in DOMAIN table : t # s => sequences'[t] = table[t]
    BY <1>6
<1>9. steps' = outstanding \cup (IF n = COMPLETE THEN {} ELSE {<<s, n>>})
    BY <1>1
<1>10. steps' \subseteq (DOMAIN table) \X Steps
    BY <1>2, <1>9
<1>11. sequences'[s].active <=> n # COMPLETE
    BY <1>3, <1>5, <1>8
<1>12. QED
    BY <1>2, <1>5, <1>7, <1>8, <1>9, <1>10, <1>11

\* What becomes of the table when the answer to a step ends it, or does not.
Moved(s, k, outstanding) ==
    \E n \in Steps \cup {COMPLETE} :
        /\ n > k
        /\ sequences'[s].step = n
        /\ sequences'[s].active <=> n # COMPLETE
        /\ steps' = outstanding \cup (IF n = COMPLETE THEN {} ELSE {<<s, n>>})

LEMMA AdvanceFacts ==
    ASSUME sequences \in Seq(Sequence), NEW s \in DOMAIN sequences, NEW k \in Steps,
           NEW outstanding \in SUBSET ((DOMAIN sequences) \X Steps),
           Advance(s, k, outstanding)
    PROVE  /\ sequences' \in Seq(Sequence)
           /\ DOMAIN sequences' = DOMAIN sequences
           /\ steps' \subseteq (DOMAIN sequences) \X Steps
           /\ outstanding \subseteq steps'
           /\ \A t \in DOMAIN sequences : t # s => sequences'[t] = sequences[t]
           /\ sequences'[s].client = sequences[s].client
           /\ sequences'[s].device = sequences[s].device
           /\ \/ ~Matches(s, k) /\ sequences' = sequences /\ steps' = outstanding
              \/ Matches(s, k) /\ Moved(s, k, outstanding)
<1>1. CASE ~Matches(s, k)
    BY <1>1 DEF Advance
<1>2. CASE Matches(s, k)
    <2>1. Dispatch(sequences, s, k + 1, outstanding) /\ k + 1 \in Steps \cup {COMPLETE}
        BY <1>2 DEF Advance, Steps, READ_4_0_8, READ_3_0_3, COMPLETE
    <2>2. PICK n \in (k + 1)..COMPLETE :
              /\ n \in Steps \cup {COMPLETE}
              /\ sequences' \in Seq(Sequence)
              /\ DOMAIN sequences' = DOMAIN sequences
              /\ \A t \in DOMAIN sequences : t # s => sequences'[t] = sequences[t]
              /\ sequences'[s].client = sequences[s].client
              /\ sequences'[s].device = sequences[s].device
              /\ sequences'[s].step = n
              /\ sequences'[s].active <=> n # COMPLETE
              /\ steps' \subseteq (DOMAIN sequences) \X Steps
              /\ steps' = outstanding \cup (IF n = COMPLETE THEN {} ELSE {<<s, n>>})
        BY <2>1, DispatchFacts
    <2>3. n > k
        BY DEF Steps, READ_4_0_8, READ_3_0_3, COMPLETE
    <2>4. Moved(s, k, outstanding)
        BY <2>2, <2>3 DEF Moved
    <2>5. QED
        BY <1>2, <2>2, <2>4
<1>3. QED
    BY <1>1, <1>2

\* A new sequence is the last of the table; the others are as Stop leaves them.
LEMMA StartFacts ==
    ASSUME sequences \in Seq(Sequence), steps \subseteq (DOMAIN sequences) \X Steps,
           NEW i \in Ids, NEW d \in Devices, Start(i, d)
    PROVE  \E n \in Steps \cup {COMPLETE} :
              /\ sequences' \in Seq(Sequence)
              /\ DOMAIN sequences' = 1..(Len(sequences) + 1)
              /\ \A t \in DOMAIN sequences : sequences'[t] = Stop(i)[t]
              /\ sequences'[Len(sequences) + 1].client = i
              /\ sequences'[Len(sequences) + 1].device = d
              /\ sequences'[Len(sequences) + 1].step = n
              /\ sequences'[Len(sequences) + 1].active <=> n # COMPLETE
              /\ steps' \subseteq (DOMAIN sequences') \X Steps
              /\ steps' = steps \cup (IF n = COMPLETE THEN {} ELSE {<<Len(sequences) + 1, n>>})
<1> DEFINE new == [client |-> i, device |-> d, step |-> READ_4_0_8, active |-> TRUE]
           table == Append(Stop(i), new)
           s == Len(sequences) + 1
<1>1. new \in Sequence
    BY DEF Sequence, Steps, READ_4_0_8, READ_3_0_3
<1>2. new.client = i /\ new.device = d
    OBVIOUS
<1>. HIDE DEF new
<1>3. Len(sequences) \in Nat /\ DOMAIN sequences = 1..Len(sequences)
    BY LenProperties
<1>4. /\ Stop(i) \in Seq(Sequence)
      /\ DOMAIN Stop(i) = DOMAIN sequences
      /\ Len(Stop(i)) = Len(sequences)
    BY StopFacts
<1>5. /\ table \in Seq(Sequence)
      /\ Len(table) = s
      /\ \A t \in DOMAIN sequences : table[t] = Stop(i)[t]
      /\ table[s] = new
    BY <1>1, <1>3, <1>4, AppendProperties
<1>6. DOMAIN table = 1..s /\ s \in DOMAIN table
    BY <1>3, <1>5, LenProperties
<1>7. Dispatch(table, s, READ_4_0_8, steps)
    BY DEF Start, new
<1>. HIDE DEF table
<1>8. steps \in SUBSET ((DOMAIN table) \X Steps) /\ READ_4_0_8 \in Steps
    BY <1>3, <1>6 DEF Steps, READ_4_0_8, READ_3_0_3
<1>9. PICK n \in READ_4_0_8..COMPLETE :
          /\ n \in Steps \cup {COMPLETE}
          /\ sequences' \in Seq(Sequence)
          /\ DOMAIN sequences' = DOMAIN table
          /\ \A t \in DOMAIN table : t # s => sequences'[t] = table[t]
          /\ sequences'[s].client = table[s].client
          /\ sequences'[s].device = table[s].device
          /\ sequences'[s].step = n
          /\ sequences'[s].active <=> n # COMPLETE
          /\ steps' \subseteq (DOMAIN table) \X Steps
          /\ steps' = steps \cup (IF n = COMPLETE THEN {} ELSE {<<s, n>>})
    BY <1>5, <1>6, <1>7, <1>8, DispatchFacts
<1>10. \A t \in DOMAIN sequences : t \in DOMAIN table /\ t # s
    BY <1>3, <1>6
<1>11. \A t \in DOMAIN sequences : sequences'[t] = Stop(i)[t]
    BY <1>5, <1>9, <1>10
<1>12. QED
    BY <1>2, <1>5, <1>6, <1>9, <1>11

-----------------------------------------------------------------------------
(* The types are kept *)

\* The part of TypeOK that the firmware update changes.
UpdateTypes ==
    /\ dfota \in Dfota
    /\ operations \subseteq Operation
    /\ stored \in [Ids -> Commands \cup {0}]
    /\ notes \subseteq Note
    /\ executed \in [Commands -> Seq(Devices)]

LEMMA RequestType ==
    ASSUME TypeOK, NEW kind \in {"observe", "write", "read", "execute"}, NEW i \in Ids,
           client[i] # Nobody, NEW c \in Commands
    PROVE  Request(kind, i, c) \in Operation
BY DEF TypeOK, Request, Operation

LEMMA NotifyType ==
    ASSUME TypeOK, CommandsKnown, NEW i \in Ids, client[i] # Nobody, NEW value, NEW sends \in BOOLEAN,
           NEW ops \in SUBSET Operation, NotifyCallback(i, value, sends, ops)
    PROVE  dfota' \in Dfota /\ operations' \subseteq Operation
<1>1. CASE dfota.state = "WAIT_DOWNLOAD" /\ dfota.client = i /\ value = "downloaded"
    <2>1. dfota.command \in Commands
        BY <1>1 DEF TypeOK, Dfota, CommandsKnown
    <2>2. Request("read", i, dfota.command) \in Operation
        BY <2>1, RequestType
    <2>3. dfota' = [dfota EXCEPT !.state = IF sends THEN "WAIT_RESULT" ELSE "IDLE"]
        BY <1>1 DEF NotifyCallback
    <2>4. dfota' \in Dfota
        BY <2>3 DEF TypeOK, Dfota
    <2>5. operations' = ops \cup (IF sends THEN {Request("read", i, dfota.command)} ELSE {})
        BY <1>1 DEF NotifyCallback
    <2>6. QED
        BY <2>2, <2>4, <2>5
<1>2. CASE ~(dfota.state = "WAIT_DOWNLOAD" /\ dfota.client = i /\ value = "downloaded")
    BY <1>2 DEF NotifyCallback, TypeOK
<1>3. QED
    BY <1>1, <1>2

LEMMA ResultType ==
    ASSUME TypeOK, CommandsKnown, NEW i \in Ids, NEW value, NEW sends \in BOOLEAN,
           NEW ops \in SUBSET Operation, ResultCallback(i, value, sends, ops)
    PROVE  /\ dfota' \in Dfota /\ operations' \subseteq Operation
           /\ executed' \in [Commands -> Seq(Devices)]
<1> DEFINE executes == Awaits(i, value) /\ value = "zero" /\ sends /\ client[i] # Nobody
           c == dfota.command
<1>1. /\ dfota' = IF Awaits(i, value) THEN [dfota EXCEPT !.state = After(executes)] ELSE dfota
      /\ operations' = ops \cup (IF executes THEN {Request("execute", i, c)} ELSE {})
      /\ executed' = IF executes THEN [executed EXCEPT ![c] = Append(@, client[i])] ELSE executed
    BY DEF ResultCallback
<1>2. dfota' \in Dfota
    BY <1>1 DEF After, TypeOK, Dfota
<1>3. ASSUME executes PROVE c \in Commands /\ client[i] \in Devices
    BY <1>3 DEF Awaits, TypeOK, Dfota, CommandsKnown
<1>4. operations' \subseteq Operation
    BY <1>1, <1>3, RequestType
<1>5. executed' \in [Commands -> Seq(Devices)]
    <2>1. CASE executes
        <3>1. executed[c] \in Seq(Devices)
            BY <1>3, <2>1 DEF TypeOK
        <3>2. Append(executed[c], client[i]) \in Seq(Devices)
            BY <1>3, <2>1, <3>1, AppendProperties
        <3>3. QED
            BY <1>1, <2>1, <3>2 DEF TypeOK
    <2>2. CASE ~executes
        BY <1>1, <2>2 DEF TypeOK
    <2>3. QED
        BY <2>1, <2>2
<1>6. QED
    BY <1>2, <1>4, <1>5

\* The sequences' part of TypeOK depends on nothing else.
LEMMA EndTypes ==
    ASSUME TypeOK, NEW s \in 1..MaxRegistrations, NEW k \in Steps,
           StepEnds(s, k, TRUE) \/ StepEnds(s, k, FALSE) \/ FirstBlock(s, k) \/ Notified(s, k)
    PROVE  /\ s \in DOMAIN sequences
           /\ sequences' \in Seq(Sequence)
           /\ DOMAIN sequences' = DOMAIN sequences
           /\ steps' \subseteq (DOMAIN sequences) \X Steps
           /\ inBlocks' \subseteq steps'
           /\ watched' \subseteq (DOMAIN sequences) \X Steps
<1>1. s \in DOMAIN sequences
    BY DEF TypeOK, StepEnds, FirstBlock, Notified
<1>2. ASSUME NEW ok \in BOOLEAN, StepEnds(s, k, ok)
      PROVE  /\ sequences' \in Seq(Sequence)
             /\ DOMAIN sequences' = DOMAIN sequences
             /\ steps' \subseteq (DOMAIN sequences) \X Steps
             /\ inBlocks' \subseteq steps'
             /\ watched' \subseteq (DOMAIN sequences) \X Steps
    <2>1. /\ Advance(s, k, steps \ {<<s, k>>})
          /\ inBlocks' = inBlocks \ {<<s, k>>}
        BY <1>2 DEF StepEnds
    <2>2. watched' \subseteq watched \cup {<<s, k>>}
        BY <1>2 DEF StepEnds
    <2>3. steps \ {<<s, k>>} \in SUBSET ((DOMAIN sequences) \X Steps)
        BY DEF TypeOK
    <2>4. /\ sequences' \in Seq(Sequence)
          /\ DOMAIN sequences' = DOMAIN sequences
          /\ steps' \subseteq (DOMAIN sequences) \X Steps
          /\ steps \ {<<s, k>>} \subseteq steps'
        BY <1>1, <2>1, <2>3, AdvanceFacts DEF TypeOK
    <2>5. QED
        BY <1>1, <2>1, <2>2, <2>4 DEF TypeOK
<1>3. ASSUME FirstBlock(s, k) \/ Notified(s, k)
      PROVE  /\ sequences' \in Seq(Sequence)
             /\ DOMAIN sequences' = DOMAIN sequences
             /\ steps' \subseteq (DOMAIN sequences) \X Steps
             /\ inBlocks' \subseteq steps'
             /\ watched' \subseteq (DOMAIN sequences) \X Steps
    <2>1. /\ Advance(s, k, steps)
          /\ inBlocks' \subseteq steps
          /\ watched' = watched
        BY <1>3 DEF FirstBlock, Notified, TypeOK
    <2>2. steps \in SUBSET ((DOMAIN sequences) \X Steps)
        BY DEF TypeOK
    <2>3. /\ sequences' \in Seq(Sequence)
          /\ DOMAIN sequences' = DOMAIN sequences
          /\ steps' \subseteq (DOMAIN sequences) \X Steps
          /\ steps \subseteq steps'
        BY <1>1, <2>1, <2>2, AdvanceFacts DEF TypeOK
    <2>4. QED
        BY <2>1, <2>3 DEF TypeOK
<1>4. QED
    BY <1>1, <1>2, <1>3

LEMMA NextType ==
    ASSUME TypeOK, CommandsKnown, [Next]_vars
    PROVE  TypeOK'
<1>1. ASSUME NEW d \in Devices, Register(d) PROVE TypeOK'
    <2>1. PICK i \in Ids :
              /\ client' = [client EXCEPT ![i] = d]
              /\ IF commercial THEN Start(i, d) ELSE UNCHANGED <<sequences, steps>>
              /\ dfota' = [dfota EXCEPT !.reused = @ \/ (dfota.client = i /\ client[i] # d)]
        BY <1>1 DEF Register
    <2>2. client' \in [Ids -> Devices \cup {Nobody}]
        BY <2>1 DEF TypeOK
    <2>3. dfota' \in Dfota
        BY <2>1 DEF TypeOK, Dfota
    <2>4. /\ sequences' \in Seq(Sequence)
          /\ DOMAIN sequences \subseteq DOMAIN sequences'
          /\ steps' \subseteq (DOMAIN sequences') \X Steps
          /\ steps \subseteq steps'
        <3>1. CASE commercial
            <4>1. Start(i, d)
                BY <2>1, <3>1
            <4>2. DOMAIN sequences = 1..Len(sequences) /\ Len(sequences) \in Nat
                BY LenProperties DEF TypeOK
            <4>3. /\ sequences' \in Seq(Sequence)
                  /\ DOMAIN sequences' = 1..(Len(sequences) + 1)
                  /\ steps' \subseteq (DOMAIN sequences') \X Steps
                  /\ steps \subseteq steps'
                BY <4>1, StartFacts DEF TypeOK
            <4>4. QED
                BY <4>2, <4>3
        <3>2. CASE ~commercial
            BY <2>1, <3>2 DEF TypeOK
        <3>3. QED
            BY <3>1, <3>2
    <2>5. /\ registrations' = registrations + 1
          /\ UNCHANGED <<commercial, commands, inBlocks, watched, operations, stored, notes, executed, devices>>
        BY <1>1 DEF Register
    <2>6. QED
        BY <2>2, <2>3, <2>4, <2>5 DEF TypeOK, devices
<1>2. ASSUME NEW d \in Devices, Download(d) PROVE TypeOK'
    <2>1. firmware[d] \in Firmware /\ firmware[d].state = "downloading"
        BY <1>2 DEF Download, TypeOK
    <2>2. firmware' \in [Devices -> Firmware]
        BY <1>2, <2>1 DEF Download, TypeOK, Firmware
    <2>3. firmware[d].watchers \subseteq Note
        BY <2>1 DEF Firmware
    <2>4. firmware[d].package \in Commands
        BY <2>1 DEF CommandsKnown, Firmware
    <2>5. QED
        BY <1>2, <2>2, <2>3, <2>4 DEF Download, TypeOK, sequencing
<1>3. ASSUME NEW i \in Ids, Leave(i) PROVE TypeOK'
    <2>1. sequences' \in Seq(Sequence) /\ DOMAIN sequences' = DOMAIN sequences
        BY <1>3, StopFacts DEF Leave, TypeOK
    <2>2. watched' \subseteq watched
        BY <1>3 DEF Leave
    <2>3. /\ client' \in [Ids -> Devices \cup {Nobody}]
          /\ stored' \in [Ids -> Commands \cup {0}]
        BY <1>3 DEF Leave, TypeOK
    <2>4. QED
        BY <1>3, <2>1, <2>2, <2>3 DEF Leave, TypeOK, devices
<1>4. ASSUME NEW i \in Ids, ReadClient(i) PROVE TypeOK'
    <2>1. commands + 1 \in Commands /\ commands' = commands + 1 /\ client[i] # Nobody
        BY <1>4, BoundsAssumption DEF ReadClient, Command, TypeOK, Commands, BoundsAssumption
    <2>2. operations' \subseteq Operation
        BY <1>4, <2>1, RequestType DEF ReadClient, TypeOK
    <2>3. QED
        BY <1>4, <2>1, <2>2 DEF ReadClient, TypeOK, sequencing, devices, Commands
<1>5. ASSUME NEW i \in Ids, NEW writes \in BOOLEAN, DfotaClient(i, writes) PROVE TypeOK'
    <2>1. commands + 1 \in Commands /\ commands' = commands + 1 /\ client[i] # Nobody
        BY <1>5, BoundsAssumption DEF DfotaClient, Command, TypeOK, Commands, BoundsAssumption
    <2>2. /\ Request("observe", i, commands + 1) \in Operation
          /\ Request("write", i, commands + 1) \in Operation
        BY <2>1, RequestType
    <2>3. operations' \subseteq Operation
        BY <1>5, <2>2 DEF DfotaClient, TypeOK
    <2>4. dfota' \in Dfota
        BY <1>5, <2>1 DEF DfotaClient, TypeOK, Dfota
    <2>5. QED
        BY <1>5, <2>1, <2>3, <2>4 DEF DfotaClient, TypeOK, sequencing, devices, Commands
<1>6. ASSUME NEW s \in 1..MaxRegistrations, NEW k \in Steps, Ends(s, k) \/ FirstBlock(s, k) \/ Notified(s, k)
      PROVE  TypeOK'
    <2>1. StepEnds(s, k, TRUE) \/ StepEnds(s, k, FALSE) \/ FirstBlock(s, k) \/ Notified(s, k)
        BY <1>6 DEF Ends
    <2>2. /\ sequences' \in Seq(Sequence)
          /\ DOMAIN sequences' = DOMAIN sequences
          /\ steps' \subseteq (DOMAIN sequences) \X Steps
          /\ inBlocks' \subseteq steps'
          /\ watched' \subseteq (DOMAIN sequences) \X Steps
        BY <2>1, EndTypes
    <2>3. UNCHANGED <<commercial, client, registrations, commands, updating, devices>>
        BY <2>1 DEF StepEnds, FirstBlock, Notified
    <2>4. QED
        BY <2>2, <2>3 DEF TypeOK, updating, devices
<1>7. ASSUME NEW op \in operations, Handle(op) PROVE TypeOK'
    <2>1. op \in Operation /\ firmware[op.device] \in Firmware
        BY DEF TypeOK, Operation
    <2>2. \A a \in {"ok", "downloaded", "zero", "other"} : [op EXCEPT !.answer = a] \in Operation
        BY <2>1 DEF Operation
    <2>3. operations' \subseteq Operation
        BY <1>7, <2>2 DEF Handle, TypeOK
    <2>4. firmware' \in [Devices -> Firmware]
        <3>1. [client |-> op.client, command |-> op.command] \in Note
            BY <2>1 DEF Operation, Note
        <3>2. op.device \in Devices /\ op.command \in Commands
            BY <2>1 DEF Operation
        <3>3. CASE firmware' = [firmware EXCEPT ![op.device].watchers =
                                  {[client |-> op.client, command |-> op.command]}]
            BY <2>1, <3>1, <3>2, <3>3 DEF TypeOK, Firmware
        <3>4. CASE firmware' = [firmware EXCEPT ![op.device].state = "downloading",
                                               ![op.device].package = op.command]
            <4>1. [firmware[op.device] EXCEPT !.state = "downloading", !.package = op.command] \in Firmware
                BY <2>1, <3>2 DEF Firmware
            <4>2. firmware' = [firmware EXCEPT ![op.device] =
                                 [firmware[op.device] EXCEPT !.state = "downloading", !.package = op.command]]
                BY <3>4
            <4>3. QED
                BY <3>2, <4>1, <4>2 DEF TypeOK
        <3>5. CASE firmware' = firmware
            BY <3>5 DEF TypeOK
        <3>6. CASE firmware' = [firmware EXCEPT ![op.device].state = "idle"]
            BY <2>1, <3>2, <3>6 DEF TypeOK, Firmware
        <3>7. QED
            BY <1>7, <3>3, <3>4, <3>5, <3>6 DEF Handle
    <2>5. QED
        BY <1>7, <2>3, <2>4 DEF Handle, TypeOK, sequencing
<1>8. ASSUME NEW op \in operations, NEW answered \in BOOLEAN, NEW sends \in BOOLEAN,
             OperationEnds(op, answered, sends)
      PROVE  TypeOK'
    <2> DEFINE i == op.client
               value == IF answered THEN op.answer ELSE "failed"
               ops == operations \ {op}
    <2>1. i \in Ids /\ op.command \in Commands /\ ops \in SUBSET Operation
        BY DEF TypeOK, Operation
    <2>2. UNCHANGED <<commercial, client, registrations, commands, sequencing, notes, devices>>
        BY <1>8 DEF OperationEnds
    <2>3. UpdateTypes'
        <3>1. CASE /\ op.kind = "observe" /\ answered /\ client[i] # Nobody
                   /\ stored' = [stored EXCEPT ![i] = op.command]
                   /\ NotifyCallback(i, value, sends, ops)
                   /\ UNCHANGED executed
            <4>1. dfota' \in Dfota /\ operations' \subseteq Operation
                BY <2>1, <3>1, NotifyType
            <4>2. stored' \in [Ids -> Commands \cup {0}]
                BY <2>1, <3>1 DEF TypeOK
            <4>3. QED
                BY <2>2, <3>1, <4>1, <4>2 DEF UpdateTypes, TypeOK
        <3>2. CASE operations' = ops /\ UNCHANGED <<dfota, stored, executed>>
            BY <2>1, <2>2, <3>2 DEF UpdateTypes, TypeOK
        <3>3. CASE ResultCallback(i, value, sends, ops) /\ UNCHANGED stored
            BY <2>1, <2>2, <3>3, ResultType DEF UpdateTypes, TypeOK
        <3>4. CASE /\ operations' = ops
                   /\ dfota' = IF dfota.state = "WAIT_EXECUTE" /\ dfota.client = i
                               THEN [dfota EXCEPT !.state = "IDLE"] ELSE dfota
                   /\ UNCHANGED <<stored, executed>>
            BY <2>1, <2>2, <3>4 DEF UpdateTypes, TypeOK, Dfota
        <3>5. QED
            BY <1>8, <3>1, <3>2, <3>3, <3>4 DEF OperationEnds
    <2>4. QED
        BY <2>2, <2>3 DEF TypeOK, UpdateTypes, sequencing, devices
<1>9. ASSUME NEW note \in notes, NEW sends \in BOOLEAN, HandleNotify(note, sends) PROVE TypeOK'
    <2>1. note.client \in Ids /\ note.command \in Commands
        BY DEF TypeOK, Note
    <2>2. dfota' \in Dfota /\ operations' \subseteq Operation
        <3>1. CASE stored[note.client] = note.command
            <4>1. client[note.client] # Nobody
                BY <2>1, <3>1 DEF CommandsKnown, Commands
            <4>2. NotifyCallback(note.client, "downloaded", sends, operations)
                BY <1>9, <3>1 DEF HandleNotify
            <4>3. QED
                BY <2>1, <4>1, <4>2, NotifyType DEF TypeOK
        <3>2. CASE stored[note.client] # note.command
            BY <1>9, <3>2 DEF HandleNotify, TypeOK
        <3>3. QED
            BY <3>1, <3>2
    <2>3. QED
        BY <1>9, <2>2 DEF HandleNotify, TypeOK, sequencing, devices
<1>10. CASE UNCHANGED vars
    BY <1>10 DEF vars, TypeOK, sequencing, updating, devices
<1>11. QED
    BY <1>1, <1>2, <1>3, <1>4, <1>5, <1>6, <1>7, <1>8, <1>9, <1>10 DEF Next

-----------------------------------------------------------------------------
(* The commercial sequence *)

LEMMA SequenceClient ==
    ASSUME sequences \in Seq(Sequence), NEW s \in DOMAIN sequences
    PROVE  sequences[s].client \in Ids
<1>1. sequences[s] \in Sequence
    BY ElementOfSeq
<1>2. QED
    BY <1>1 DEF Sequence

\* A registration under id i stops that client's sequence and may add a new one.
LEMMA RegisterSequences ==
    ASSUME TypeOK, SequencesOK, NEW d \in Devices, Register(d)
    PROVE  SequencesOK'
<1>1. PICK i \in Ids :
          /\ client' = [client EXCEPT ![i] = d]
          /\ IF commercial THEN Start(i, d) ELSE UNCHANGED <<sequences, steps>>
    BY DEF Register
<1>2. UNCHANGED <<commercial, inBlocks, watched>>
    BY DEF Register
<1>3. CASE ~commercial
    <2>1. sequences = <<>> /\ sequences' = <<>>
        BY <1>1, <1>3 DEF SequencesOK, OnlyCommercial
    <2>2. DOMAIN sequences = {}
        BY <2>1
    <2>3. watched = {}
        BY <2>2 DEF TypeOK
    <2>4. QED
        BY <1>2, <2>1, <2>2, <2>3
           DEF SequencesOK, OnlyCommercial, NotHurried, OneStepAtATime, OnlyTheRegistered
<1>4. CASE commercial
    <2> DEFINE new == Len(sequences) + 1
    <2>1. Start(i, d)
        BY <1>1, <1>4
    <2>2. PICK n \in Steps \cup {COMPLETE} :
              /\ DOMAIN sequences' = 1..new
              /\ \A t \in DOMAIN sequences : sequences'[t] = Stop(i)[t]
              /\ sequences'[new].client = i
              /\ sequences'[new].device = d
              /\ sequences'[new].step = n
              /\ sequences'[new].active <=> n # COMPLETE
              /\ steps' = steps \cup (IF n = COMPLETE THEN {} ELSE {<<new, n>>})
        BY <2>1, StartFacts DEF TypeOK
    <2>3. DOMAIN sequences = 1..Len(sequences) /\ Len(sequences) \in Nat
        BY LenProperties DEF TypeOK
    <2>4. ASSUME NEW s \in DOMAIN sequences, sequences'[s].active
          PROVE  /\ sequences[s].active
                 /\ sequences'[s].step = sequences[s].step
                 /\ sequences'[s].client = sequences[s].client
                 /\ sequences'[s].device = sequences[s].device
                 /\ sequences[s].client # i
        <3>1. /\ Stop(i)[s].client = sequences[s].client
              /\ Stop(i)[s].device = sequences[s].device
              /\ Stop(i)[s].step = sequences[s].step
              /\ Stop(i)[s].active => sequences[s].active
              /\ Stop(i)[s].active /\ sequences[s].client = i =>
                    \E t \in DOMAIN sequences : sequences[t].client = i /\ ~(t <= s)
            BY StopFacts DEF TypeOK
        <3>2. QED
            BY <2>2, <2>4, <3>1 DEF SequencesOK, OnlyTheRegistered
    <2>5. \A t \in DOMAIN sequences : sequences'[t].client = sequences[t].client
        BY <2>2, StopFacts DEF TypeOK
    <2>6. NotHurried'
        <3>1. ASSUME NEW w \in watched, sequences'[w[1]].active PROVE w[2] < sequences'[w[1]].step
            <4>1. w[1] \in DOMAIN sequences
                BY DEF TypeOK
            <4>2. QED
                BY <2>4, <3>1, <4>1 DEF SequencesOK, NotHurried
        <3>2. QED
            BY <1>2, <3>1 DEF NotHurried
    <2>7. OneStepAtATime'
        <3>1. ASSUME NEW s \in 1..new, sequences'[s].active
              PROVE  /\ <<s, sequences'[s].step>> \in steps'
                     /\ \A k \in Steps : <<s, k>> \in steps' =>
                           k = sequences'[s].step \/ (k < sequences'[s].step /\ <<s, k>> \in inBlocks)
            <4>1. CASE s = new
                <5>1. \A k \in Steps : <<new, k>> \notin steps
                    BY <2>3 DEF TypeOK
                <5>2. QED
                    BY <2>2, <3>1, <4>1, <5>1
            <4>2. CASE s # new
                <5>1. s \in DOMAIN sequences
                    BY <2>3, <4>2
                <5>2. \A k \in Steps : <<s, k>> \in steps' <=> <<s, k>> \in steps
                    BY <2>2, <4>2
                <5>3. sequences[s].active /\ sequences'[s].step = sequences[s].step
                    BY <2>4, <3>1, <5>1
                <5>4. /\ <<s, sequences[s].step>> \in steps
                      /\ \A k \in Steps : <<s, k>> \in steps =>
                           k = sequences[s].step \/ (k < sequences[s].step /\ <<s, k>> \in inBlocks)
                    BY <5>1, <5>3 DEF SequencesOK, OneStepAtATime
                <5>5. <<s, sequences[s].step>> \in steps'
                    BY <2>2, <5>4
                <5>6. QED
                    BY <5>2, <5>3, <5>4, <5>5
            <4>3. QED
                BY <4>1, <4>2
        <3>2. QED
            BY <1>2, <2>2, <3>1 DEF OneStepAtATime
    <2>8. OnlyTheRegistered'
        <3>1. ASSUME NEW s \in 1..new, sequences'[s].active
              PROVE  /\ client'[sequences'[s].client] = sequences'[s].device
                     /\ \A t \in 1..new : sequences'[t].client = sequences'[s].client => t <= s
            <4>1. CASE s = new
                BY <1>1, <2>2, <2>3, <4>1 DEF TypeOK
            <4>2. CASE s # new
                <5>1. s \in DOMAIN sequences
                    BY <2>3, <4>2
                <5>2. /\ sequences'[s].client = sequences[s].client
                      /\ sequences'[s].device = sequences[s].device
                      /\ sequences[s].client # i
                      /\ client[sequences[s].client] = sequences[s].device
                      /\ \A t \in DOMAIN sequences : sequences[t].client = sequences[s].client => t <= s
                    BY <2>4, <3>1, <5>1 DEF SequencesOK, OnlyTheRegistered
                <5>3. client'[sequences[s].client] = client[sequences[s].client]
                    <6>1. sequences[s].client \in Ids
                        BY <5>1, SequenceClient DEF TypeOK
                    <6>2. QED
                        BY <1>1, <5>2, <6>1 DEF TypeOK
                <5>4. \A t \in 1..new : t \in DOMAIN sequences \/ t = new
                    BY <2>3
                <5>5. QED
                    BY <2>2, <2>5, <5>2, <5>3, <5>4
            <4>3. QED
                BY <4>1, <4>2
        <3>2. QED
            BY <2>2, <3>1 DEF OnlyTheRegistered
    <2>9. QED
        BY <1>2, <1>4, <2>6, <2>7, <2>8 DEF SequencesOK, OnlyCommercial
<1>5. QED
    BY <1>3, <1>4

\* A client that leaves has no sequence that goes on.
LEMMA LeaveSequences ==
    ASSUME TypeOK, SequencesOK, NEW i \in Ids, Leave(i)
    PROVE  SequencesOK'
<1>1. /\ client' = [client EXCEPT ![i] = Nobody]
      /\ sequences' = Stop(i)
      /\ watched' \subseteq watched
      /\ UNCHANGED <<commercial, steps, inBlocks>>
    BY DEF Leave
<1>2. DOMAIN sequences' = DOMAIN sequences
    BY <1>1, StopFacts DEF TypeOK
<1>3. \A t \in DOMAIN sequences : sequences'[t].client = sequences[t].client
    BY <1>1, StopFacts DEF TypeOK
<1>4. ASSUME NEW s \in DOMAIN sequences, sequences'[s].active
      PROVE  /\ sequences[s].active
             /\ sequences'[s].step = sequences[s].step
             /\ sequences'[s].device = sequences[s].device
             /\ sequences[s].client # i
    <2>1. /\ Stop(i)[s].device = sequences[s].device
          /\ Stop(i)[s].step = sequences[s].step
          /\ Stop(i)[s].active => sequences[s].active
          /\ Stop(i)[s].active /\ sequences[s].client = i =>
                \E t \in DOMAIN sequences : sequences[t].client = i /\ ~(t <= s)
        BY StopFacts DEF TypeOK
    <2>2. QED
        BY <1>1, <1>4, <2>1 DEF SequencesOK, OnlyTheRegistered
<1>5. OnlyCommercial'
    <2>1. ASSUME ~commercial PROVE sequences' = <<>>
        <3>1. sequences = <<>>
            BY <2>1 DEF SequencesOK, OnlyCommercial
        <3>2. sequences' \in Seq(Sequence) /\ Len(sequences') = 0
            BY <1>1, <3>1, StopFacts DEF TypeOK
        <3>3. QED
            BY <3>2, EmptySeq
    <2>2. QED
        BY <1>1, <2>1 DEF OnlyCommercial
<1>6. NotHurried'
    <2>1. ASSUME NEW w \in watched', sequences'[w[1]].active PROVE w[2] < sequences'[w[1]].step
        <3>1. w \in watched /\ w[1] \in DOMAIN sequences
            BY <1>1 DEF TypeOK
        <3>2. QED
            BY <1>4, <2>1, <3>1 DEF SequencesOK, NotHurried
    <2>2. QED
        BY <2>1 DEF NotHurried
<1>7. OneStepAtATime'
    BY <1>1, <1>2, <1>4 DEF SequencesOK, OneStepAtATime
<1>8. OnlyTheRegistered'
    <2>1. ASSUME NEW s \in DOMAIN sequences, sequences'[s].active
          PROVE  client'[sequences'[s].client] = sequences'[s].device
        <3>1. sequences[s].client \in Ids
            BY SequenceClient DEF TypeOK
        <3>2. client'[sequences[s].client] = client[sequences[s].client]
            BY <1>1, <1>4, <2>1, <3>1 DEF TypeOK
        <3>3. QED
            BY <1>3, <1>4, <2>1, <3>2 DEF SequencesOK, OnlyTheRegistered
    <2>2. QED
        BY <1>2, <1>3, <1>4, <2>1 DEF SequencesOK, OnlyTheRegistered
<1>9. QED
    BY <1>5, <1>6, <1>7, <1>8 DEF SequencesOK

\* What comes for a step moves its sequence on if that waits for the step; of a
\* step that is observed nothing does, once its answer has come.
LEMMA EndsSequences ==
    ASSUME TypeOK, SequencesOK, NEW s \in 1..MaxRegistrations, NEW k \in Steps,
           Ends(s, k) \/ FirstBlock(s, k) \/ Notified(s, k)
    PROVE  SequencesOK'
<1>1. PICK outstanding \in SUBSET ((DOMAIN sequences) \X Steps) :
          /\ s \in DOMAIN sequences
          /\ Advance(s, k, outstanding)
          /\ UNCHANGED <<commercial, client>>
          /\ watched' \subseteq watched \cup {<<s, k>>}
          /\ \/ /\ <<s, k>> \in steps
                /\ outstanding = steps \ {<<s, k>>}
                /\ inBlocks' = inBlocks \ {<<s, k>>}
             \/ /\ <<s, k>> \in steps
                /\ outstanding = steps
                /\ inBlocks' = inBlocks \cup {<<s, k>>}
                /\ watched' = watched
             \/ /\ <<s, k>> \in watched
                /\ outstanding = steps
                /\ UNCHANGED <<inBlocks, watched>>
    <2>1. CASE Ends(s, k)
        <3>1. /\ <<s, k>> \in steps
              /\ Advance(s, k, steps \ {<<s, k>>})
              /\ UNCHANGED <<commercial, client>>
              /\ inBlocks' = inBlocks \ {<<s, k>>}
            BY <2>1 DEF Ends, StepEnds
        <3>2. watched' \subseteq watched \cup {<<s, k>>}
            BY <2>1 DEF Ends, StepEnds
        <3>3. s \in DOMAIN sequences /\ steps \ {<<s, k>>} \in SUBSET ((DOMAIN sequences) \X Steps)
            BY <3>1 DEF TypeOK
        <3>4. QED
            BY <3>1, <3>2, <3>3
    <2>2. CASE FirstBlock(s, k)
        BY <2>2 DEF FirstBlock, TypeOK
    <2>3. CASE Notified(s, k)
        BY <2>3 DEF Notified, TypeOK
    <2>4. QED
        BY <2>1, <2>2, <2>3
<1>2. /\ sequences' \in Seq(Sequence)
      /\ DOMAIN sequences' = DOMAIN sequences
      /\ \A t \in DOMAIN sequences : t # s => sequences'[t] = sequences[t]
      /\ sequences'[s].client = sequences[s].client
      /\ sequences'[s].device = sequences[s].device
      /\ \/ ~Matches(s, k) /\ sequences' = sequences /\ steps' = outstanding
         \/ Matches(s, k) /\ Moved(s, k, outstanding)
    BY <1>1, AdvanceFacts DEF TypeOK
<1>3. k \in Nat /\ \A n \in Steps \cup {COMPLETE} : n \in Nat
    BY DEF Steps, READ_4_0_8, READ_3_0_3, COMPLETE
<1>4. sequences[s].step \in Nat
    <2>1. sequences[s] \in Sequence
        BY <1>1, ElementOfSeq DEF TypeOK
    <2>2. QED
        BY <1>3, <2>1 DEF Sequence
<1>5. CASE ~Matches(s, k)
    <2>1. sequences' = sequences /\ steps' = outstanding
        BY <1>2, <1>5
    <2>2. ASSUME sequences[s].active, <<s, k>> \in steps
          PROVE  k < sequences[s].step /\ <<s, k>> \in inBlocks
        BY <1>1, <1>5, <2>2 DEF Matches, SequencesOK, OneStepAtATime
    <2>3. NotHurried'
        BY <1>1, <2>1, <2>2 DEF SequencesOK, NotHurried
    <2>4. OneStepAtATime'
        <3>1. ASSUME NEW t \in DOMAIN sequences, sequences[t].active
              PROVE  <<t, sequences[t].step>> \in outstanding
            <4>1. <<t, sequences[t].step>> \in steps
                BY <3>1 DEF SequencesOK, OneStepAtATime
            <4>2. <<t, sequences[t].step>> # <<s, k>>
                BY <1>5, <3>1 DEF Matches
            <4>3. QED
                BY <1>1, <4>1, <4>2
        <3>2. ASSUME NEW t \in DOMAIN sequences, sequences[t].active, NEW j \in Steps, <<t, j>> \in outstanding
              PROVE  j = sequences[t].step \/ (j < sequences[t].step /\ <<t, j>> \in inBlocks')
            <4>1. <<t, j>> \in steps
                BY <1>1, <3>2
            <4>2. j = sequences[t].step \/ (j < sequences[t].step /\ <<t, j>> \in inBlocks)
                BY <3>2, <4>1 DEF SequencesOK, OneStepAtATime
            <4>3. QED
                BY <1>1, <3>2, <4>2
        <3>3. QED
            BY <2>1, <3>1, <3>2 DEF OneStepAtATime
    <2>5. QED
        BY <1>1, <2>1, <2>3, <2>4 DEF SequencesOK, OnlyCommercial, OnlyTheRegistered
<1>6. CASE Matches(s, k)
    <2>1. sequences[s].active /\ sequences[s].step = k
        BY <1>6 DEF Matches
    <2>2. PICK n \in Steps \cup {COMPLETE} :
              /\ n > k
              /\ sequences'[s].step = n
              /\ sequences'[s].active <=> n # COMPLETE
              /\ steps' = outstanding \cup (IF n = COMPLETE THEN {} ELSE {<<s, n>>})
        BY <1>2, <1>6 DEF Moved
    <2>3. <<s, k>> \notin watched
        BY <1>3, <2>1 DEF SequencesOK, NotHurried
    <2>4. <<s, k>> \in steps /\ \A j \in Steps : <<s, j>> \in steps =>
              j = k \/ (j < k /\ <<s, j>> \in inBlocks)
        BY <1>1, <2>1 DEF SequencesOK, OneStepAtATime
    <2>5. \/ outstanding = steps \ {<<s, k>>} /\ inBlocks' = inBlocks \ {<<s, k>>}
          \/ outstanding = steps /\ inBlocks' = inBlocks \cup {<<s, k>>}
        BY <1>1, <2>3
    <2>6. NotHurried'
        <3>1. ASSUME NEW w \in watched \cup {<<s, k>>}, sequences'[w[1]].active PROVE w[2] < sequences'[w[1]].step
            <4>1. CASE w[1] = s
                <5>1. w[2] = k \/ (w \in watched /\ w[2] < k)
                    BY <2>1, <4>1 DEF SequencesOK, NotHurried
                <5>2. w[2] \in Nat
                    BY <1>3, <5>1 DEF TypeOK
                <5>3. QED
                    BY <1>3, <2>2, <4>1, <5>1, <5>2
            <4>2. CASE w[1] # s
                <5>1. w \in watched /\ w[1] \in DOMAIN sequences
                    BY <3>1, <4>2 DEF TypeOK
                <5>2. QED
                    BY <1>2, <3>1, <4>2, <5>1 DEF SequencesOK, NotHurried
            <4>3. QED
                BY <4>1, <4>2
        <3>2. QED
            BY <1>1, <3>1 DEF NotHurried
    <2>7. OneStepAtATime'
        <3>1. ASSUME NEW t \in DOMAIN sequences, sequences'[t].active
              PROVE  /\ <<t, sequences'[t].step>> \in steps'
                     /\ \A j \in Steps : <<t, j>> \in steps' =>
                           j = sequences'[t].step \/ (j < sequences'[t].step /\ <<t, j>> \in inBlocks')
            <4>1. CASE t = s
                <5>1. n # COMPLETE /\ <<s, n>> \in steps'
                    BY <2>2, <3>1, <4>1
                <5>2. ASSUME NEW j \in Steps, <<s, j>> \in steps', j # n
                      PROVE  j < n /\ <<s, j>> \in inBlocks'
                    <6>1. <<s, j>> \in outstanding
                        BY <2>2, <5>2
                    <6>2. CASE j = k
                        BY <2>2, <2>5, <6>1, <6>2
                    <6>3. CASE j # k
                        <7>1. j < k /\ <<s, j>> \in inBlocks
                            BY <2>4, <2>5, <6>1, <6>3
                        <7>2. QED
                            BY <1>3, <2>2, <2>5, <6>3, <7>1
                    <6>4. QED
                        BY <6>2, <6>3
                <5>3. QED
                    BY <2>2, <4>1, <5>1, <5>2
            <4>2. CASE t # s
                <5>1. sequences'[t] = sequences[t]
                    BY <1>2, <4>2
                <5>2. \A j \in Steps : <<t, j>> \in steps' <=> <<t, j>> \in steps
                    BY <2>2, <2>5, <4>2
                <5>3. \A j \in Steps : <<t, j>> \in inBlocks' <=> <<t, j>> \in inBlocks
                    BY <2>5, <4>2
                <5>4. <<t, sequences[t].step>> \in steps
                    BY <3>1, <5>1 DEF SequencesOK, OneStepAtATime
                <5>5. <<t, sequences[t].step>> \in steps'
                    BY <2>2, <2>5, <4>2, <5>4
                <5>6. QED
                    BY <3>1, <5>1, <5>2, <5>3, <5>5 DEF SequencesOK, OneStepAtATime
            <4>3. QED
                BY <4>1, <4>2
        <3>2. QED
            BY <1>2, <3>1 DEF OneStepAtATime
    <2>8. OnlyTheRegistered'
        <3>1. \A t \in DOMAIN sequences :
                  /\ sequences'[t].client = sequences[t].client
                  /\ sequences'[t].device = sequences[t].device
                  /\ sequences'[t].active => sequences[t].active
            BY <1>2, <2>1
        <3>2. QED
            BY <1>1, <1>2, <3>1 DEF SequencesOK, OnlyTheRegistered
    <2>9. commercial
        BY <1>1 DEF SequencesOK, OnlyCommercial
    <2>10. QED
        BY <1>1, <2>6, <2>7, <2>8, <2>9 DEF SequencesOK, OnlyCommercial
<1>7. QED
    BY <1>5, <1>6

LEMMA NextSequences ==
    ASSUME TypeOK, SequencesOK, [Next]_vars
    PROVE  SequencesOK'
<1>1. CASE UNCHANGED <<commercial, client, sequencing>>
    BY <1>1 DEF sequencing, SequencesOK, OnlyCommercial, NotHurried, OneStepAtATime, OnlyTheRegistered
<1>2. CASE \E d \in Devices : Register(d) \/ Download(d)
    BY <1>1, <1>2, RegisterSequences DEF Download
<1>3. CASE \E i \in Ids : Leave(i) \/ ReadClient(i)
    BY <1>1, <1>3, LeaveSequences DEF ReadClient
<1>4. CASE \E i \in Ids, writes \in BOOLEAN : DfotaClient(i, writes)
    BY <1>1, <1>4 DEF DfotaClient
<1>5. CASE \E s \in 1..MaxRegistrations, k \in Steps : Ends(s, k) \/ FirstBlock(s, k) \/ Notified(s, k)
    BY <1>5, EndsSequences
<1>6. CASE \E op \in operations : Handle(op)
    BY <1>1, <1>6 DEF Handle
<1>7. CASE \E op \in operations, answered, sends \in BOOLEAN : OperationEnds(op, answered, sends)
    BY <1>1, <1>7 DEF OperationEnds
<1>8. CASE \E note \in notes, sends \in BOOLEAN : HandleNotify(note, sends)
    BY <1>1, <1>8 DEF HandleNotify
<1>9. CASE UNCHANGED vars
    BY <1>1, <1>9 DEF vars, sequencing
<1>10. QED
    BY <1>2, <1>3, <1>4, <1>5, <1>6, <1>7, <1>8, <1>9 DEF Next

-----------------------------------------------------------------------------
(* The firmware update *)

\* An update that goes to another state is otherwise as it was.
LEMMA StateRecord ==
    ASSUME NEW x \in Dfota, NEW s
    PROVE  /\ [x EXCEPT !.state = s].state = s
           /\ [x EXCEPT !.state = s].client = x.client
           /\ [x EXCEPT !.state = s].device = x.device
           /\ [x EXCEPT !.state = s].command = x.command
           /\ [x EXCEPT !.state = s].reused = x.reused
BY DEF Dfota

\* The callback of an observation: the update waits for the result only when
\* a device has downloaded.
LEMMA NotifyUpdates ==
    ASSUME TypeOK, UpdatesOK, NEW i \in Ids, client[i] # Nobody, NEW value, NEW sends \in BOOLEAN,
           NEW ops \in SUBSET operations, NotifyCallback(i, value, sends, ops),
           value = "downloaded" => downloaded # {},
           \A j \in Ids : stored'[j] # 0 => client[j] # Nobody,
           notes' \subseteq notes, UNCHANGED <<client, commands, executed, devices>>
    PROVE  UpdatesOK'
<1>1. CASE dfota.state = "WAIT_DOWNLOAD" /\ dfota.client = i /\ value = "downloaded"
    <2> DEFINE s == IF sends THEN "WAIT_RESULT" ELSE "IDLE"
               new == Request("read", i, dfota.command)
    <2>1. /\ dfota' = [dfota EXCEPT !.state = s]
          /\ operations' \subseteq ops \cup {new}
        BY <1>1 DEF NotifyCallback
    <2>2. /\ dfota'.state = s /\ dfota'.client = dfota.client /\ dfota'.device = dfota.device
          /\ dfota'.command = dfota.command /\ dfota'.reused = dfota.reused
        BY <2>1, StateRecord DEF TypeOK
    <2>3. new.kind = "read" /\ new.command = dfota.command /\ new.answer = "none"
        BY DEF Request
    <2>4. s \in {"WAIT_RESULT", "IDLE"} /\ downloaded # {}
        BY <1>1
    <2>. HIDE DEF s, new
    <2>5. CommandsKnown'
        BY <1>1, <2>1, <2>2, <2>3 DEF UpdatesOK, CommandsKnown, devices
    <2>6. ExecutedOK'
        BY <1>1, <2>2 DEF UpdatesOK, ExecutedOK, devices
    <2>7. ClientAsked'
        BY <2>2 DEF UpdatesOK, ClientAsked
    <2>8. DownloadsKnown'
        BY <2>1, <2>2, <2>3, <2>4 DEF UpdatesOK, DownloadsKnown, devices
    <2>9. ExecutesWhereAsked'
        BY <2>1, <2>2, <2>3 DEF UpdatesOK, ExecutesWhereAsked
    <2>10. OneExecution' /\ DownloadedFirst'
        BY DEF UpdatesOK, OneExecution, DownloadedFirst, devices
    <2>11. QED
        BY <2>5, <2>6, <2>7, <2>8, <2>9, <2>10 DEF UpdatesOK
<1>2. CASE ~(dfota.state = "WAIT_DOWNLOAD" /\ dfota.client = i /\ value = "downloaded")
    <2>1. dfota' = dfota /\ operations' \subseteq operations
        BY <1>2 DEF NotifyCallback
    <2>2. QED
        BY <2>1 DEF UpdatesOK, CommandsKnown, ExecutedOK, ClientAsked, DownloadsKnown,
                    OneExecution, ExecutesWhereAsked, DownloadedFirst, devices
<1>3. QED
    BY <1>1, <1>2

\* The callback of a read: what it executes has not been executed before, on the
\* device that was asked for.
LEMMA ResultUpdates ==
    ASSUME TypeOK, UpdatesOK, NEW i \in Ids, NEW value, NEW sends \in BOOLEAN,
           NEW ops \in SUBSET operations, ResultCallback(i, value, sends, ops),
           UNCHANGED <<client, commands, stored, notes, devices>>
    PROVE  UpdatesOK'
<1> DEFINE executes == Awaits(i, value) /\ value = "zero" /\ sends /\ client[i] # Nobody
           c == dfota.command
           new == Request("execute", i, c)
<1>1. /\ dfota' = IF Awaits(i, value) THEN [dfota EXCEPT !.state = After(executes)] ELSE dfota
      /\ operations' = ops \cup (IF executes THEN {new} ELSE {})
      /\ executed' = IF executes THEN [executed EXCEPT ![c] = Append(@, client[i])] ELSE executed
    BY DEF ResultCallback
<1>2. /\ new.kind = "execute" /\ new.command = c /\ new.answer = "none" /\ new.device = client[i]
    BY DEF Request
<1>3. /\ dfota'.client = dfota.client /\ dfota'.device = dfota.device
      /\ dfota'.command = c /\ dfota'.reused = dfota.reused
    BY <1>1, StateRecord DEF TypeOK
<1>4. /\ Awaits(i, value) => dfota'.state = After(executes) /\ dfota.state = "WAIT_RESULT" /\ dfota.client = i
      /\ ~Awaits(i, value) => dfota'.state = dfota.state
      /\ After(executes) \in {"WAIT_EXECUTE", "IDLE"}
    BY <1>1, StateRecord DEF TypeOK, Awaits, After
<1>5. ASSUME executes
      PROVE  /\ Awaits(i, value) /\ client[i] # Nobody /\ c \in Commands /\ executed[c] = <<>>
             /\ client[i] = dfota.device \/ dfota.reused
             /\ \E b \in downloaded : b <= c
    <2>1. dfota.state = "WAIT_RESULT" /\ dfota.client = i /\ client[i] # Nobody
        BY <1>4, <1>5
    <2>2. c \in Commands
        BY <2>1 DEF TypeOK, Dfota, UpdatesOK, CommandsKnown
    <2>3. executed[c] = <<>>
        BY <2>1, <2>2 DEF UpdatesOK, ExecutedOK
    <2>4. client[i] = dfota.device \/ dfota.reused
        BY <2>1, <2>2 DEF UpdatesOK, ClientAsked, Commands
    <2>5. \E b \in downloaded : b <= c
        BY <2>1 DEF UpdatesOK, DownloadsKnown
    <2>6. QED
        BY <1>5, <2>1, <2>2, <2>3, <2>4, <2>5
<1>6. \A b \in Commands : executed'[b] # executed[b] => executes /\ b = c
    BY <1>1 DEF TypeOK
<1>7. executes => Len(executed'[c]) = 1
    <2>1. ASSUME executes PROVE Len(executed'[c]) = 1
        <3>1. executed'[c] = Append(<<>>, client[i])
            BY <1>1, <1>5, <2>1 DEF TypeOK
        <3>2. <<>> \in Seq(Devices \cup {Nobody}) /\ client[i] \in Devices \cup {Nobody} /\ Len(<<>>) = 0
            BY EmptySeq DEF TypeOK
        <3>3. QED
            BY <3>1, <3>2, AppendProperties
    <2>2. QED
        BY <2>1
<1>. HIDE DEF new, executes
<1>8. CommandsKnown'
    BY <1>1, <1>2, <1>3, <1>4 DEF UpdatesOK, CommandsKnown, devices
<1>9. ExecutedOK'
    <2>1. ASSUME NEW b \in Commands, executed'[b] # <<>>
          PROVE  b <= c /\ (b = c => dfota'.state \notin {"WAIT_DOWNLOAD", "WAIT_RESULT"})
        <3>1. CASE executed'[b] # executed[b]
            BY <1>4, <1>5, <1>6, <3>1 DEF Commands
        <3>2. CASE executed'[b] = executed[b]
            BY <1>4, <2>1, <3>2 DEF UpdatesOK, ExecutedOK
        <3>3. QED
            BY <3>1, <3>2
    <2>2. QED
        BY <1>3, <2>1 DEF ExecutedOK
<1>10. ClientAsked'
    BY <1>3 DEF UpdatesOK, ClientAsked
<1>11. DownloadsKnown'
    BY <1>1, <1>2, <1>3, <1>4 DEF UpdatesOK, DownloadsKnown, devices
<1>12. OneExecution'
    <2>1. ASSUME NEW b \in Commands PROVE Len(executed'[b]) <= 1
        <3>1. CASE executed'[b] = executed[b]
            BY <3>1 DEF UpdatesOK, OneExecution
        <3>2. CASE executed'[b] # executed[b]
            <4>1. Len(executed'[b]) = 1
                BY <1>6, <1>7, <3>2
            <4>2. QED
                BY <4>1
        <3>3. QED
            BY <3>1, <3>2
    <2>2. QED
        BY <2>1 DEF OneExecution
<1>13. ExecutesWhereAsked'
    BY <1>1, <1>2, <1>3, <1>5 DEF UpdatesOK, ExecutesWhereAsked
<1>14. DownloadedFirst'
    BY <1>5, <1>6 DEF UpdatesOK, DownloadedFirst, devices
<1>15. QED
    BY <1>8, <1>9, <1>10, <1>11, <1>12, <1>13, <1>14 DEF UpdatesOK

LEMMA RegisterUpdates ==
    ASSUME TypeOK, UpdatesOK, NEW d \in Devices, Register(d)
    PROVE  UpdatesOK'
<1>1. PICK i \in Ids :
          /\ client' = [client EXCEPT ![i] = d]
          /\ dfota' = [dfota EXCEPT !.reused = @ \/ (dfota.client = i /\ client[i] # d)]
    BY DEF Register
<1>2. UNCHANGED <<commands, operations, stored, notes, executed, devices>>
    BY DEF Register
<1>3. /\ dfota'.state = dfota.state /\ dfota'.client = dfota.client /\ dfota'.device = dfota.device
      /\ dfota'.command = dfota.command
      /\ dfota'.reused <=> dfota.reused \/ (dfota.client = i /\ client[i] # d)
    BY <1>1 DEF TypeOK, Dfota
<1>4. CommandsKnown'
    BY <1>1, <1>2, <1>3, NobodyAssumption DEF UpdatesOK, CommandsKnown, TypeOK, devices, NobodyAssumption
<1>5. ClientAsked'
    <2>1. dfota.client \in Ids
        BY DEF TypeOK, Dfota
    <2>2. CASE dfota.client = i
        BY <1>1, <1>3, <2>1, <2>2 DEF UpdatesOK, ClientAsked, TypeOK
    <2>3. CASE dfota.client # i
        BY <1>1, <1>3, <2>1, <2>3 DEF UpdatesOK, ClientAsked, TypeOK
    <2>4. QED
        BY <2>2, <2>3
<1>6. ExecutedOK' /\ DownloadsKnown'
    BY <1>2, <1>3 DEF UpdatesOK, ExecutedOK, DownloadsKnown, devices
<1>7. ExecutesWhereAsked'
    BY <1>2, <1>3 DEF UpdatesOK, ExecutesWhereAsked
<1>8. OneExecution' /\ DownloadedFirst'
    BY <1>2 DEF UpdatesOK, OneExecution, DownloadedFirst, devices
<1>9. QED
    BY <1>4, <1>5, <1>6, <1>7, <1>8 DEF UpdatesOK

LEMMA LeaveUpdates ==
    ASSUME TypeOK, UpdatesOK, NEW i \in Ids, Leave(i)
    PROVE  UpdatesOK'
<1>1. /\ client' = [client EXCEPT ![i] = Nobody]
      /\ stored' = [stored EXCEPT ![i] = 0]
      /\ UNCHANGED <<commands, dfota, operations, notes, executed, devices>>
    BY DEF Leave
<1>2. CommandsKnown'
    BY <1>1 DEF UpdatesOK, CommandsKnown, TypeOK, devices
<1>3. ClientAsked'
    BY <1>1 DEF UpdatesOK, ClientAsked, TypeOK, Dfota
<1>4. QED
    BY <1>1, <1>2, <1>3 DEF UpdatesOK, ExecutedOK, DownloadsKnown, OneExecution, ExecutesWhereAsked,
                            DownloadedFirst, devices

\* A new command is newer than any before: nothing is executed for it yet.
LEMMA DfotaUpdates ==
    ASSUME TypeOK, UpdatesOK, NEW i \in Ids, NEW writes \in BOOLEAN, DfotaClient(i, writes)
    PROVE  UpdatesOK'
<1> DEFINE c == commands + 1
           asks == Request("observe", i, c)
           gives == Request("write", i, c)
<1>1. /\ dfota' = [state |-> "WAIT_DOWNLOAD", client |-> i, device |-> client[i],
                   command |-> c, reused |-> FALSE]
      /\ operations' \subseteq operations \cup {asks, gives}
      /\ commands' = c
      /\ UNCHANGED <<client, stored, notes, executed, devices>>
    BY DEF DfotaClient, Command
<1>2. /\ dfota'.state = "WAIT_DOWNLOAD" /\ dfota'.client = i /\ dfota'.device = client[i]
      /\ dfota'.command = c
    BY <1>1
<1>3. /\ asks.kind = "observe" /\ asks.command = c /\ asks.answer = "none"
      /\ gives.kind = "write" /\ gives.command = c /\ gives.answer = "none"
    BY DEF Request
<1>4. /\ dfota.command \in Nat /\ commands \in Nat /\ dfota.command <= commands
      /\ \A op \in operations : op.command \in Nat /\ op.command <= commands
    BY BoundsAssumption DEF TypeOK, Dfota, Operation, Commands, BoundsAssumption, UpdatesOK, CommandsKnown
<1>. HIDE DEF asks, gives
<1>5. CommandsKnown'
    BY <1>1, <1>2, <1>3, <1>4 DEF UpdatesOK, CommandsKnown, devices
<1>6. ExecutedOK'
    BY <1>1, <1>2, <1>4 DEF UpdatesOK, ExecutedOK, Commands
<1>7. ClientAsked'
    BY <1>1, <1>2 DEF ClientAsked
<1>8. DownloadsKnown'
    <2>1. /\ \A op \in operations : op.kind = "write" => op.command <= c
          /\ \A b \in downloaded : b <= c
          /\ \A d \in Devices : firmware[d].package <= c
        <3>1. \A b \in downloaded : b \in Nat /\ b <= dfota.command
            BY DEF TypeOK, Commands, UpdatesOK, DownloadsKnown
        <3>2. \A d \in Devices : firmware[d].package \in Nat /\ firmware[d].package <= dfota.command
            BY DEF TypeOK, Firmware, Commands, UpdatesOK, DownloadsKnown
        <3>3. QED
            BY <1>4, <3>1, <3>2
    <2>2. QED
        BY <1>1, <1>2, <1>3, <1>4, <2>1 DEF UpdatesOK, DownloadsKnown, devices
<1>9. ExecutesWhereAsked'
    BY <1>1, <1>2, <1>3, <1>4 DEF ExecutesWhereAsked
<1>10. QED
    BY <1>1, <1>5, <1>6, <1>7, <1>8, <1>9 DEF UpdatesOK, OneExecution, DownloadedFirst, devices

LEMMA ReadUpdates ==
    ASSUME TypeOK, UpdatesOK, NEW i \in Ids, ReadClient(i)
    PROVE  UpdatesOK'
<1> DEFINE new == Request("read", i, commands + 1)
<1>1. /\ operations' = operations \cup {new}
      /\ commands' = commands + 1
      /\ UNCHANGED <<client, dfota, stored, notes, executed, devices>>
    BY DEF ReadClient, Command
<1>2. new.kind = "read" /\ new.command = commands + 1 /\ new.answer = "none"
    BY DEF Request
<1>3. /\ dfota.command \in Nat /\ commands \in Nat
      /\ \A op \in operations : op.command \in Nat
    BY BoundsAssumption DEF TypeOK, Dfota, Operation, Commands, BoundsAssumption
<1>. HIDE DEF new
<1>4. CommandsKnown'
    BY <1>1, <1>2, <1>3 DEF UpdatesOK, CommandsKnown, devices
<1>5. QED
    BY <1>1, <1>2, <1>4 DEF UpdatesOK, ExecutedOK, ClientAsked, DownloadsKnown, OneExecution,
                            ExecutesWhereAsked, DownloadedFirst, devices

LEMMA DownloadUpdates ==
    ASSUME TypeOK, UpdatesOK, NEW d \in Devices, Download(d)
    PROVE  UpdatesOK'
<1>1. /\ firmware[d].state = "downloading"
      /\ firmware' = [firmware EXCEPT ![d].state = "downloaded"]
      /\ downloaded' = downloaded \cup {firmware[d].package}
      /\ UNCHANGED <<client, commands, dfota, operations, stored, executed>>
    BY DEF Download
<1>2. \A e \in Devices : /\ firmware'[e].package = firmware[e].package
                         /\ firmware'[e].state = IF e = d THEN "downloaded" ELSE firmware[e].state
    BY <1>1 DEF TypeOK, Firmware
<1>3. CommandsKnown'
    BY <1>1, <1>2 DEF UpdatesOK, CommandsKnown
<1>4. DownloadsKnown'
    BY <1>1, <1>2 DEF UpdatesOK, DownloadsKnown
<1>5. QED
    BY <1>1, <1>3, <1>4 DEF UpdatesOK, ExecutedOK, ClientAsked, OneExecution, ExecutesWhereAsked, DownloadedFirst

LEMMA HandleUpdates ==
    ASSUME TypeOK, UpdatesOK, NEW op \in operations, Handle(op)
    PROVE  UpdatesOK'
<1>1. UNCHANGED <<client, commands, dfota, stored, notes, executed, downloaded>>
    BY DEF Handle
<1>2. op \in Operation /\ op.device \in Devices /\ op.command \in Commands
    BY DEF TypeOK, Operation
<1>3. PICK a : /\ operations' = (operations \ {op}) \cup {[op EXCEPT !.answer = a]}
               /\ a = "downloaded" => firmware[op.device].state = "downloaded"
    BY DEF Handle
<1>4. /\ [op EXCEPT !.answer = a].answer = a
      /\ [op EXCEPT !.answer = a].kind = op.kind
      /\ [op EXCEPT !.answer = a].command = op.command
      /\ [op EXCEPT !.answer = a].device = op.device
    BY <1>2 DEF Operation
<1>5. \A d \in Devices :
          /\ \/ firmware'[d].state = firmware[d].state /\ firmware'[d].package = firmware[d].package
             \/ /\ op.kind = "write" /\ firmware'[d].state = "downloading"
                /\ firmware'[d].package = op.command
             \/ firmware'[d].state = "idle" /\ firmware'[d].package = firmware[d].package
    <2>1. firmware[op.device] \in Firmware
        BY <1>2 DEF TypeOK
    <2>2. CASE UNCHANGED firmware
        BY <2>2
    <2>3. CASE firmware' = [firmware EXCEPT ![op.device].watchers = {[client |-> op.client, command |-> op.command]}]
        BY <1>2, <2>1, <2>3 DEF TypeOK, Firmware
    <2>4. CASE /\ op.kind = "write"
               /\ firmware' = [firmware EXCEPT ![op.device].state = "downloading", ![op.device].package = op.command]
        BY <1>2, <2>1, <2>4 DEF TypeOK, Firmware
    <2>5. CASE firmware' = [firmware EXCEPT ![op.device].state = "idle"]
        BY <1>2, <2>1, <2>5 DEF TypeOK, Firmware
    <2>6. QED
        BY <2>2, <2>3, <2>4, <2>5 DEF Handle
<1>6. CommandsKnown'
    <2>1. \A o \in operations' : o.command <= commands'
        BY <1>1, <1>3, <1>4 DEF UpdatesOK, CommandsKnown
    <2>2. \A d \in Devices : firmware'[d].state = "downloading" => firmware'[d].package # 0
        BY <1>2, <1>5 DEF UpdatesOK, CommandsKnown, Commands
    <2>3. QED
        BY <1>1, <2>1, <2>2 DEF UpdatesOK, CommandsKnown
<1>7. DownloadsKnown'
    BY <1>1, <1>2, <1>3, <1>4, <1>5 DEF UpdatesOK, DownloadsKnown
<1>8. ExecutesWhereAsked'
    BY <1>1, <1>3, <1>4 DEF UpdatesOK, ExecutesWhereAsked
<1>9. QED
    BY <1>1, <1>6, <1>7, <1>8 DEF UpdatesOK, ExecutedOK, ClientAsked, OneExecution, DownloadedFirst

LEMMA OperationUpdates ==
    ASSUME TypeOK, UpdatesOK, NEW op \in operations, NEW answered \in BOOLEAN, NEW sends \in BOOLEAN,
           OperationEnds(op, answered, sends)
    PROVE  UpdatesOK'
<1> DEFINE i == op.client
           value == IF answered THEN op.answer ELSE "failed"
           ops == operations \ {op}
<1>1. UNCHANGED <<client, commands, notes, devices>>
    BY DEF OperationEnds
<1>2. i \in Ids /\ op.command \in Commands
    BY DEF TypeOK, Operation
<1>3. CASE /\ op.kind = "observe" /\ answered /\ client[i] # Nobody
           /\ stored' = [stored EXCEPT ![i] = op.command]
           /\ NotifyCallback(i, value, sends, ops)
           /\ UNCHANGED executed
    <2>1. \A j \in Ids : stored'[j] # 0 => client[j] # Nobody
        BY <1>2, <1>3 DEF TypeOK, UpdatesOK, CommandsKnown
    <2>2. value = "downloaded" => downloaded # {}
        BY DEF UpdatesOK, DownloadsKnown
    <2>3. QED
        BY <1>1, <1>2, <1>3, <2>1, <2>2, NotifyUpdates
<1>4. CASE operations' = ops /\ UNCHANGED <<dfota, stored, executed>>
    BY <1>1, <1>4 DEF UpdatesOK, CommandsKnown, ExecutedOK, ClientAsked, DownloadsKnown, OneExecution,
                      ExecutesWhereAsked, DownloadedFirst, devices
<1>5. CASE ResultCallback(i, value, sends, ops) /\ UNCHANGED stored
    BY <1>1, <1>2, <1>5, ResultUpdates
<1>6. CASE /\ operations' = ops
           /\ dfota' = IF dfota.state = "WAIT_EXECUTE" /\ dfota.client = i
                       THEN [dfota EXCEPT !.state = "IDLE"] ELSE dfota
           /\ UNCHANGED <<stored, executed>>
    <2>1. /\ dfota'.client = dfota.client /\ dfota'.device = dfota.device
          /\ dfota'.command = dfota.command /\ dfota'.reused = dfota.reused
          /\ dfota'.state \in {dfota.state, "IDLE"}
        BY <1>6, StateRecord DEF TypeOK
    <2>2. QED
        BY <1>1, <1>6, <2>1 DEF UpdatesOK, CommandsKnown, ExecutedOK, ClientAsked, DownloadsKnown, OneExecution,
                                ExecutesWhereAsked, DownloadedFirst, devices
<1>7. QED
    BY <1>3, <1>4, <1>5, <1>6 DEF OperationEnds

LEMMA NotedUpdates ==
    ASSUME TypeOK, UpdatesOK, NEW note \in notes, NEW sends \in BOOLEAN, HandleNotify(note, sends)
    PROVE  UpdatesOK'
<1>1. /\ UNCHANGED <<client, commands, stored, executed, devices>>
      /\ notes' \subseteq notes
    BY DEF HandleNotify
<1>2. note.client \in Ids /\ note.command \in Commands
    BY DEF TypeOK, Note
<1>3. CASE stored[note.client] = note.command
    <2>1. client[note.client] # Nobody /\ \A j \in Ids : stored'[j] # 0 => client[j] # Nobody
        BY <1>1, <1>2, <1>3 DEF UpdatesOK, CommandsKnown, Commands
    <2>2. NotifyCallback(note.client, "downloaded", sends, operations) /\ downloaded # {}
        BY <1>3 DEF HandleNotify, UpdatesOK, DownloadsKnown
    <2>3. QED
        BY <1>1, <1>2, <2>1, <2>2, NotifyUpdates
<1>4. CASE stored[note.client] # note.command
    <2>1. UNCHANGED <<dfota, operations>>
        BY <1>4 DEF HandleNotify
    <2>2. QED
        BY <1>1, <2>1 DEF UpdatesOK, CommandsKnown, ExecutedOK, ClientAsked, DownloadsKnown, OneExecution,
                          ExecutesWhereAsked, DownloadedFirst, devices
<1>5. QED
    BY <1>3, <1>4

LEMMA NextUpdates ==
    ASSUME TypeOK, UpdatesOK, [Next]_vars
    PROVE  UpdatesOK'
<1>1. CASE UNCHANGED <<client, commands, updating, devices>>
    BY <1>1 DEF updating, devices, UpdatesOK, CommandsKnown, ExecutedOK, ClientAsked, DownloadsKnown,
                OneExecution, ExecutesWhereAsked, DownloadedFirst
<1>2. CASE \E d \in Devices : Register(d) \/ Download(d)
    BY <1>2, RegisterUpdates, DownloadUpdates
<1>3. CASE \E i \in Ids : Leave(i) \/ ReadClient(i)
    BY <1>3, LeaveUpdates, ReadUpdates
<1>4. CASE \E i \in Ids, writes \in BOOLEAN : DfotaClient(i, writes)
    BY <1>4, DfotaUpdates
<1>5. CASE \E s \in 1..MaxRegistrations, k \in Steps : Ends(s, k) \/ FirstBlock(s, k) \/ Notified(s, k)
    BY <1>1, <1>5 DEF Ends, StepEnds, FirstBlock, Notified
<1>6. CASE \E op \in operations : Handle(op)
    BY <1>6, HandleUpdates
<1>7. CASE \E op \in operations, answered, sends \in BOOLEAN : OperationEnds(op, answered, sends)
    BY <1>7, OperationUpdates
<1>8. CASE \E note \in notes, sends \in BOOLEAN : HandleNotify(note, sends)
    BY <1>8, NotedUpdates
<1>9. CASE UNCHANGED vars
    BY <1>1, <1>9 DEF vars
<1>10. QED
    BY <1>2, <1>3, <1>4, <1>5, <1>6, <1>7, <1>8, <1>9 DEF Next

-----------------------------------------------------------------------------
(* The theorems *)

LEMMA InitOK == Init => TypeOK /\ SequencesOK /\ UpdatesOK
<1> SUFFICES ASSUME Init PROVE TypeOK /\ SequencesOK /\ UpdatesOK
    OBVIOUS
<1>1. sequences = <<>> /\ <<>> \in Seq(Sequence) /\ DOMAIN sequences = {}
    BY EmptySeq DEF Init
<1>2. executed \in [Commands -> Seq(Devices)] /\ \A c \in Commands : executed[c] = <<>> /\ Len(executed[c]) = 0
    BY EmptySeq DEF Init
<1>3. dfota \in Dfota
    BY BoundsAssumption DEF Init, Dfota, Ids, BoundsAssumption
<1>4. TypeOK
    BY <1>1, <1>2, <1>3, BoundsAssumption DEF Init, TypeOK, Firmware, BoundsAssumption
<1>5. SequencesOK
    BY <1>1 DEF Init, SequencesOK, OnlyCommercial, NotHurried, OneStepAtATime, OnlyTheRegistered
<1>6. UpdatesOK
    BY <1>2 DEF Init, UpdatesOK, CommandsKnown, ExecutedOK, ClientAsked, DownloadsKnown, OneExecution,
                ExecutesWhereAsked, DownloadedFirst
<1>7. QED
    BY <1>4, <1>5, <1>6

LEMMA AllInvariant == Spec => [](TypeOK /\ SequencesOK /\ UpdatesOK)
<1>1. TypeOK /\ SequencesOK /\ UpdatesOK /\ [Next]_vars => (TypeOK /\ SequencesOK /\ UpdatesOK)'
    BY NextType, NextSequences, NextUpdates DEF UpdatesOK
<1>2. QED
    BY <1>1, InitOK, PTL DEF Spec

\* Every variable keeps its type, for any number of devices, internalIDs,
\* registrations and commands.
THEOREM TypeCorrect == Spec => []TypeOK
BY AllInvariant, PTL

\* The commercial sequence waits for the answer to its step before it asks the
\* next (prv_advance_commercial_step): late answers of earlier steps, first
\* blocks and notifications of what it observes do not hurry it.
THEOREM StepsOneAtATime == Spec => []OneStepAtATime
<1>1. SequencesOK => OneStepAtATime
    BY DEF SequencesOK
<1>2. QED
    BY <1>1, AllInvariant, PTL

\* Whoever registers and leaves, only the newest sequence of an internalID is
\* active, and for the device registered under it (the monitor's 201 and 202).
THEOREM RegisteredGoOn == Spec => []OnlyTheRegistered
<1>1. SequencesOK => OnlyTheRegistered
    BY DEF SequencesOK
<1>2. QED
    BY <1>1, AllInvariant, PTL

\* A command of "dfota" executes at most once, whatever order answers and
\* notifications come in (prv_notify_callback, prv_result_callback).
THEOREM ExecutedOnce == Spec => []OneExecution
<1>1. UpdatesOK => OneExecution
    BY DEF UpdatesOK
<1>2. QED
    BY <1>1, AllInvariant, PTL

\* What it executes, it executes on the device that the operator chose, unless
\* the internalID has passed to another (prv_result_callback sends to an id).
THEOREM ExecutedWhereAsked == Spec => []ExecutesWhereAsked
<1>1. UpdatesOK => ExecutesWhereAsked
    BY DEF UpdatesOK
<1>2. QED
    BY <1>1, AllInvariant, PTL

\* It executes nothing before a device has downloaded a package for that command
\* or for an earlier one.
THEOREM ExecutedAfterDownload == Spec => []DownloadedFirst
<1>1. UpdatesOK => DownloadedFirst
    BY DEF UpdatesOK
<1>2. QED
    BY <1>1, AllInvariant, PTL
=============================================================================
