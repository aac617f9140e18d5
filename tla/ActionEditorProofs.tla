-------------------------- MODULE ActionEditorProofs --------------------------
(***************************************************************************)
(* Proofs, for every set of joints and every family of files, about what   *)
(* gets into a page of op3_action_editor, what is lost of it, and what     *)
(* commands do to it.                                                      *)
(***************************************************************************)
EXTENDS ActionEditor, SequenceTheorems, TLAPS

\* What a step may hold, and what it does hold while no mark of a joint without torque
\* gets into a page.
Values == Poses \cup {Invalid, TorqueOff, Wild}
Proper == Poses \cup {Invalid}

PagesOver(V) ==
  [step : [Slots -> [Joints -> V]], count : 0 .. MaxStep, repeat : 0 .. 1]

\* The page, the file and STP7 hold values in V, but for the joints STP7 marks.
Over(V) ==
  /\ page \in PagesOver(V) /\ file \in [Pages -> PagesOver(V)]
  /\ stp7 \in [Joints -> V \cup {TorqueOff}]

Flags ==
  /\ running \in BOOLEAN /\ edited \in BOOLEAN /\ agreed \in BOOLEAN /\ timer \in BOOLEAN
  /\ idx \in Pages /\ torque \in [Joints -> BOOLEAN] /\ gone \subseteq Joints
  /\ commands \in 0 .. MaxCommands

LEMMA FlagsNext == ASSUME Flags, [Next]_vars PROVE Flags'
<1> USE DEF Flags, pageVars, servoVars
<1>1. ASSUME Command PROVE commands' \in 0 .. MaxCommands
  BY <1>1, SizesAssumption DEF Command
<1>2. ASSUME NEW new, Edit(new) PROVE Flags'
  BY <1>1, <1>2 DEF Edit, Command
<1>3. CASE EditSteps
  BY <1>2, <1>3 DEF EditSteps, SetPosition, WriteStep, InsertStep,
       DeleteStep, Interpolate, MoveStep, MirrorStep
<1>4. CASE EditPage
  BY <1>2, <1>4 DEF EditPage, SetRepeat, SetCount, CopyPage,
       NewPage
<1>5. CASE UseFile
  BY <1>5 DEF UseFile, Save, GoToPage, Exit
<1>6. ASSUME NEW j \in Joints, ToggleTorque(j) PROVE Flags'
  BY <1>1, <1>6 DEF ToggleTorque, Command
<1>7. ASSUME NEW j \in Joints, NEW v, SetTaught(j, v) PROVE Flags'
  BY <1>1, <1>7 DEF SetTaught, Command
<1>8. ASSUME NEW named, NEW on \in BOOLEAN, TurnOnOff(on, named) PROVE Flags'
  BY <1>1, <1>8 DEF TurnOnOff, ReadStep, Command
<1>9. CASE Play
  BY <1>1, <1>9 DEF Play, ReadStep, Command
<1>10. ASSUME NEW k, Go(k) PROVE Flags'
  BY <1>1, <1>10 DEF Go, Command
<1>11. CASE UNCHANGED vars
  BY <1>11 DEF vars
<1> QED
  BY <1>3, <1>4, <1>5, <1>6, <1>7, <1>8, <1>9, <1>10, <1>11 DEF Next, UseServos

LEMMA OpenedOver ==
  ASSUME NEW V, page \in PagesOver(V), NEW k \in Slots, NEW added \in [Joints -> V]
  PROVE  [page EXCEPT !.step = Opened(k, added), !.count = Grown(k)] \in PagesOver(V)
<1>1. MaxStep \in Nat \ {0} /\ page.count \in 0 .. MaxStep
  BY SizesAssumption DEF PagesOver
<1>2. Grown(k) \in 0 .. MaxStep
  BY <1>1 DEF Grown
<1>3. Opened(k, added) \in [Slots -> [Joints -> V]]
  <2>1. ASSUME NEW i \in Slots, i > k PROVE i - 1 \in Slots
    BY <1>1, <2>1 DEF Slots
  <2>2. page.step \in [Slots -> [Joints -> V]] /\ Slots \subseteq Nat /\ k \in Nat
    BY DEF PagesOver, Slots
  <2>3. ASSUME NEW i \in Slots
        PROVE  (IF i < k THEN page.step[i] ELSE IF i = k THEN added ELSE page.step[i - 1])
                 \in [Joints -> V]
    BY <2>1, <2>2
  <2> HIDE DEF Slots
  <2> QED
    BY <2>3 DEF Opened
<1> HIDE DEF Slots, Opened, Grown
<1> QED
  BY <1>2, <1>3 DEF PagesOver

LEMMA DeletedOver ==
  ASSUME NEW V, Proper \subseteq V, page \in PagesOver(V), NEW k \in Slots
  PROVE  [page EXCEPT
            !.step = [i \in Slots |->
              IF i < k THEN page.step[i]
              ELSE IF i = MaxStep THEN Unset ELSE page.step[i + 1]],
            !.count = IF k <= page.count THEN page.count - 1 ELSE page.count] \in PagesOver(V)
<1>1. MaxStep \in Nat \ {0} /\ page.count \in 0 .. MaxStep
  BY SizesAssumption DEF PagesOver
<1>2. Unset \in [Joints -> V]
  BY DEF Unset, Proper, Invalid
<1>3. (IF k <= page.count THEN page.count - 1 ELSE page.count) \in 0 .. MaxStep
  BY <1>1 DEF Slots
<1>4. ASSUME NEW i \in Slots
      PROVE  (IF i < k THEN page.step[i]
              ELSE IF i = MaxStep THEN Unset ELSE page.step[i + 1]) \in [Joints -> V]
  <2>1. i # MaxStep => i + 1 \in Slots
    BY <1>1 DEF Slots
  <2> HIDE DEF Slots
  <2> QED
    BY <1>2, <2>1 DEF PagesOver
<1> HIDE DEF Slots
<1> QED
  BY <1>3, <1>4 DEF PagesOver

LEMMA MovedOver ==
  ASSUME NEW V, page \in PagesOver(V), NEW from \in Slots, NEW to \in Slots
  PROVE  [page EXCEPT !.step = [i \in Slots |->
            CASE i = to                 -> page.step[from]
              [] from <= i /\ i < to    -> page.step[i + 1]
              [] to < i /\ i <= from    -> page.step[i - 1]
              [] OTHER                  -> page.step[i]]] \in PagesOver(V)
<1>1. MaxStep \in Nat \ {0} /\ page.step \in [Slots -> [Joints -> V]]
  BY SizesAssumption DEF PagesOver
<1>2. ASSUME NEW i \in Slots
      PROVE  (CASE i = to                 -> page.step[from]
                [] from <= i /\ i < to    -> page.step[i + 1]
                [] to < i /\ i <= from    -> page.step[i - 1]
                [] OTHER                  -> page.step[i]) \in [Joints -> V]
  <2>0. {i, from, to} \subseteq Nat
    BY <1>1 DEF Slots
  <2>1. /\ from <= i /\ i < to => i + 1 \in Slots
        /\ to < i /\ i <= from => i - 1 \in Slots
    BY <1>1 DEF Slots
  <2> HIDE DEF Slots
  <2>2. CASE i = to
    BY <1>1, <2>0, <2>2
  <2>3. CASE i # to /\ from <= i /\ i < to
    BY <1>1, <2>1, <2>3
  <2>4. CASE i # to /\ ~(from <= i /\ i < to) /\ to < i /\ i <= from
    BY <1>1, <2>1, <2>4
  <2>5. CASE i # to /\ ~(from <= i /\ i < to) /\ ~(to < i /\ i <= from)
    BY <1>1, <2>5
  <2> QED
    BY <2>2, <2>3, <2>4, <2>5
<1> HIDE DEF Slots
<1> QED
  BY <1>2 DEF PagesOver

LEMMA MirroredOver ==
  ASSUME NEW V, Proper \subseteq V, NEW added \in [Joints -> V], NEW sides
  PROVE  Mirrored(added, sides) \in [Joints -> V]
<1>1. \A v : Mirror(v) \in Proper
  BY SizesAssumption DEF Mirror, Proper, Poses
<1> QED
  BY <1>1 DEF Mirrored

LEMMA BetweenTyped ==
  ASSUME NEW a \in Values, NEW b \in Values, NEW ratio
  PROVE  /\ Between(a, b, ratio) \subseteq Values
         /\ {a, b} \subseteq Poses => Between(a, b, ratio) \subseteq Poses
<1>1. CASE ratio \in {0, 10} \/ {a, b} \subseteq Poses
  BY <1>1 DEF Values, Between
<1>2. CASE ratio \notin {0, 10} /\ ~({a, b} \subseteq Poses)
  BY <1>2 DEF Values, Between
<1> QED
  BY <1>1, <1>2

\* Every command of the editor keeps to the values of V: to all, or, if the operator
\* interpolates between steps without marks only, to positions and invalid marks.
LEMMA OverNext ==
  ASSUME NEW V, Proper \subseteq V, V = Values \/ (V = Proper /\ Clean),
         Flags, Over(V), [Next]_vars
  PROVE  Over(V)'
<1> USE DEF Over
<1>0. V \subseteq Values /\ Poses \subseteq V /\ idx \in Pages
  BY DEF Values, Proper, Flags
<1>1. ASSUME NEW new \in PagesOver(V), Edit(new) PROVE Over(V)'
  BY <1>1 DEF Edit, servoVars
<1>2. ASSUME NEW k \in Slots, NEW j \in Joints, NEW v \in Poses,
             SetPosition(k, j, v)
      PROVE  Over(V)'
  <2>1. [page EXCEPT !.step[k][j] = v] \in PagesOver(V)
    BY <1>0 DEF PagesOver
  <2> QED
    BY <1>1, <1>2, <2>1 DEF SetPosition
<1>3. ASSUME ~Marked(stp7, TorqueOff) PROVE stp7 \in [Joints -> V]
  BY <1>3 DEF Marked
<1>4. ASSUME NEW k \in Slots, WriteStep(k) PROVE Over(V)'
  <2>1. [page EXCEPT !.step[k] = stp7] \in PagesOver(V)
    BY <1>3, <1>4 DEF WriteStep, PagesOver
  <2> QED
    BY <1>1, <1>4, <2>1 DEF WriteStep
<1>5. ASSUME NEW k \in Slots, InsertStep(k) PROVE Over(V)'
  <2>1. stp7 \in [Joints -> V]
    BY <1>3, <1>5 DEF InsertStep
  <2> QED
    BY <1>1, <1>5, <2>1, OpenedOver DEF InsertStep
<1>6. ASSUME NEW k \in Slots, DeleteStep(k) PROVE Over(V)'
  BY <1>1, <1>6, DeletedOver DEF DeleteStep
<1>7. ASSUME NEW k \in Slots, NEW ratio \in Ratios, Interpolate(k, ratio)
      PROVE  Over(V)'
  <2>1. k + 1 \in Slots /\ page.step \in [Slots -> [Joints -> V]]
    BY <1>7, SizesAssumption DEF Interpolate, Slots, PagesOver
  <2>2. ASSUME NEW j \in Joints
        PROVE  Between(page.step[k][j], page.step[k + 1][j], ratio) \subseteq V
    <3>1. page.step[k][j] \in Values /\ page.step[k + 1][j] \in Values
      BY <1>0, <2>1
    <3>2. CASE V = Values
      BY <3>1, <3>2, BetweenTyped
    <3>3. CASE V = Proper /\ Clean
      <4>1. {page.step[k][j], page.step[k + 1][j]} \subseteq Poses
        BY <1>7, <3>3 DEF Interpolate, Posed
      <4> QED
        BY <1>0, <3>1, <4>1, BetweenTyped
    <3> QED
      BY <3>2, <3>3
  <2>3. PICK added \in [Joints -> UNION {
                         Between(page.step[k][j], page.step[k + 1][j], ratio) :
                           j \in Joints}] :
          /\ \A j \in Joints :
               added[j] \in Between(page.step[k][j], page.step[k + 1][j], ratio)
          /\ Edit([page EXCEPT !.step = Opened(k + 1, added),
                                      !.count = Grown(k)])
    BY <1>7 DEF Interpolate
  <2>4. added \in [Joints -> V]
    BY <2>2, <2>3
  <2>5. /\ Grown(k) \in 0 .. MaxStep
        /\ Opened(k + 1, added) \in [Slots -> [Joints -> V]]
    <3>1. [page EXCEPT !.step = Opened(k + 1, added), !.count = Grown(k + 1)]
            \in PagesOver(V)
      BY <2>1, <2>4, OpenedOver
    <3>2. [page EXCEPT !.step = Opened(k, added), !.count = Grown(k)]
            \in PagesOver(V)
      BY <2>4, OpenedOver
    <3> HIDE DEF Slots, Opened, Grown
    <3> QED
      BY <3>1, <3>2 DEF PagesOver
  <2>6. [page EXCEPT !.step = Opened(k + 1, added), !.count = Grown(k)]
          \in PagesOver(V)
    <3> HIDE DEF Slots, Opened, Grown
    <3> QED
      BY <2>5 DEF PagesOver
  <2> QED
    BY <1>1, <2>3, <2>6
<1>8. ASSUME NEW k \in Slots, NEW to \in Slots, MoveStep(k, to)
      PROVE  Over(V)'
  BY <1>1, <1>8, MovedOver DEF MoveStep
<1>9. ASSUME NEW k \in Slots, NEW sides, MirrorStep(k, sides) PROVE Over(V)'
  <2>1. Mirrored(page.step[k], sides) \in [Joints -> V]
    BY MirroredOver DEF PagesOver
  <2>2. [page EXCEPT !.step[k] = Mirrored(page.step[k], sides)] \in PagesOver(V)
    BY <2>1 DEF PagesOver
  <2> QED
    BY <1>1, <1>9, <2>2 DEF MirrorStep
<1>10. CASE EditSteps
  BY <1>2, <1>4, <1>5, <1>6, <1>7, <1>8, <1>9, <1>10 DEF EditSteps
<1>11. CASE EditPage
  <2>1. ASSUME NEW n \in 0 .. 1, SetRepeat(n) PROVE Over(V)'
    <3>1. [page EXCEPT !.repeat = n] \in PagesOver(V)
      BY DEF PagesOver
    <3> QED
      BY <1>1, <2>1, <3>1 DEF SetRepeat
  <2>2. ASSUME NEW n \in 0 .. MaxStep, SetCount(n) PROVE Over(V)'
    <3>1. [page EXCEPT !.count = n] \in PagesOver(V)
      BY DEF PagesOver
    <3> QED
      BY <1>1, <2>2, <3>1 DEF SetCount
  <2>3. ASSUME NEW n \in Pages, CopyPage(n) PROVE Over(V)'
    BY <1>1, <2>3 DEF CopyPage
  <2>4. ASSUME NewPage PROVE Over(V)'
    <3>1. Unset \in [Joints -> V]
      BY DEF Unset, Proper
    <3>2. Reset \in PagesOver(V)
      BY <3>1, SizesAssumption DEF Reset, PagesOver
    <3> QED
      BY <1>1, <2>4, <3>2 DEF NewPage
  <2> QED
    BY <1>11, <2>1, <2>2, <2>3, <2>4 DEF EditPage
<1>12. CASE UseFile
  BY <1>0, <1>12 DEF UseFile, Save, GoToPage, Exit, servoVars,
       pageVars
<1>13. ASSUME NEW on, NEW busy, ReadStep(on, busy)
       PROVE  stp7' \in [Joints -> V \cup {TorqueOff}]
  BY <1>13 DEF ReadStep, Proper
<1>14. CASE UseServos
  <2>1. ASSUME NEW j \in Joints, ToggleTorque(j) PROVE Over(V)'
    BY <1>0, <2>1 DEF ToggleTorque, pageVars
  <2>2. ASSUME NEW j \in Joints, NEW v \in Poses, SetTaught(j, v) PROVE Over(V)'
    BY <1>0, <2>2 DEF SetTaught
  <2>3. ASSUME NEW named, NEW on, TurnOnOff(on, named) PROVE Over(V)'
    BY <1>13, <2>3 DEF TurnOnOff, pageVars
  <2>4. ASSUME Play PROVE Over(V)'
    BY <1>13, <2>4 DEF Play, pageVars
  <2>5. ASSUME NEW k \in Slots, Go(k) PROVE Over(V)'
    <3>1. page.step[k] \in [Joints -> V \cup {TorqueOff}]
      BY DEF PagesOver
    <3> QED
      BY <2>5, <3>1 DEF Go, pageVars
  <2> QED
    BY <1>14, <2>1, <2>2, <2>3, <2>4, <2>5 DEF UseServos
<1>15. CASE UNCHANGED vars
  BY <1>15 DEF vars, pageVars, servoVars
<1> QED
  BY <1>10, <1>11, <1>12, <1>14, <1>15 DEF Next

LEMMA EditorInit ==
  ASSUME NEW V, Proper \subseteq V, Files \subseteq [Pages -> PagesOver(V)], Init
  PROVE  Flags /\ Over(V)
<1>1. Flags
  <2>1. torque \in [Joints -> BOOLEAN]
    BY DEF Init
  <2>2. idx \in Pages /\ commands \in 0 .. MaxCommands
    BY SizesAssumption DEF Init
  <2> QED
    BY <2>1, <2>2 DEF Flags, Init
<1>2. Over(V)
  BY SizesAssumption DEF Over, Init, Proper
<1> QED
  BY <1>1, <1>2

\* Pages, positions and marks keep to their types, whatever the operator does.
THEOREM TypeCorrect == Spec => []TypeOK
<1>1. Proper \subseteq Values
  BY DEF Proper, Values
<1>2. PagesOver(Values) = Page
  BY DEF PagesOver, Values, Page, Steps
<1>3. Init => Flags /\ Over(Values)
  BY <1>1, <1>2, EditorInit, FilesAssumption
<1>4. Flags /\ Over(Values) /\ [Next]_vars => Flags' /\ Over(Values)'
  BY <1>1, FlagsNext, OverNext
<1>5. Flags /\ Over(Values) => TypeOK
  <2>1. [Joints -> Values \cup {TorqueOff}] = Steps
    BY DEF Values, Steps
  <2> QED
    BY <1>2, <2>1 DEF Flags, Over, TypeOK
<1> QED
  BY <1>3, <1>4, <1>5, PTL DEF Spec

\* The mark of a joint without torque, which playing a page does not look for, never gets
\* into a page of a file that holds none at first, nor does a number that is no position.
THEOREM PagesHoldPoses ==
  ASSUME Clean, Files \subseteq [Pages -> PagesOver(Proper)]
  PROVE  Spec => []PosesOnly
<1>1. Init => Flags /\ Over(Proper)
  BY EditorInit
<1>2. Flags /\ Over(Proper) /\ [Next]_vars => Flags' /\ Over(Proper)'
  BY FlagsNext, OverNext
<1>3. Over(Proper) /\ TypeOK => PosesOnly
  BY DEF Over, PagesOver, Proper, PosesOnly
<1> QED
  BY <1>1, <1>2, <1>3, TypeCorrect, PTL DEF Spec

\* Whenever memory and file differ the page is marked as edited, but for one case: the operator
\* has let this very page go for a number that is no page. Every command that changes the page
\* afterwards marks it again.
THEOREM UnsavedAsked == Spec => []UnsavedIsAskedFor
<1> USE DEF UnsavedIsAskedFor, pageVars, servoVars
<1>1. Init => UnsavedIsAskedFor
  BY DEF Init
<1>2. ASSUME TypeOK, UnsavedIsAskedFor, [Next]_vars
      PROVE  UnsavedIsAskedFor'
  <2>1. CASE \E new : Edit(new)
    BY <2>1 DEF Edit
  <2>2. CASE UseFile
    BY <1>2, <2>2 DEF UseFile, Save, GoToPage, Exit, TypeOK
  <2>3. CASE UseServos
    BY <1>2, <2>3 DEF UseServos, ToggleTorque, SetTaught, TurnOnOff,
         Play, Go
  <2>4. CASE UNCHANGED vars
    BY <1>2, <2>4 DEF vars
  <2>5. EditSteps \/ EditPage => \E new : Edit(new)
    BY DEF EditSteps, SetPosition, WriteStep, InsertStep,
         DeleteStep, Interpolate, MoveStep, MirrorStep,
         EditPage, SetRepeat, SetCount, CopyPage, NewPage
  <2> QED
    BY <1>2, <2>1, <2>2, <2>3, <2>4, <2>5 DEF Next
<1> QED
  BY <1>1, <1>2, TypeCorrect, PTL DEF Spec

\* What STP7 shows is read from a servo with its torque on; a number that it could not
\* have read neither leads to one.
ShownIsOn ==
  running => \A j \in Joints :
    stp7[j] \notin {Invalid, TorqueOff} => torque[j] \/ j \in gone

\* A position that STP7 shows, and that the operator is about to teach, is of a joint with
\* its torque on, by whatever way servos have been turned off: unless the last "go" was to
\* bring the joint there while its torque was off.
THEOREM ShownHeld == Spec => []ShownIsHeld
<1> USE DEF ShownIsOn, pageVars, servoVars
<1>1. Init => ShownIsOn
  BY DEF Init
<1>2. ASSUME TypeOK, ShownIsOn, [Next]_vars
      PROVE  ShownIsOn'
  <2>0. stp7 \in Steps /\ torque \in [Joints -> BOOLEAN]
    BY <1>2 DEF TypeOK
  <2>1. CASE \E new : Edit(new)
    BY <1>2, <2>1 DEF Edit
  <2>2. CASE UseFile
    BY <1>2, <2>2 DEF UseFile, Save, GoToPage, Exit
  <2>3. ASSUME NEW j \in Joints, ToggleTorque(j) PROVE ShownIsOn'
    BY <1>2, <2>0, <2>3 DEF ToggleTorque, Steps
  <2>4. ASSUME NEW j \in Joints, NEW v \in Poses, SetTaught(j, v) PROVE ShownIsOn'
    BY <1>2, <2>0, <2>4 DEF SetTaught, Steps, Command
  <2>5. ASSUME NEW named, NEW on, TurnOnOff(on, named) PROVE ShownIsOn'
    BY <2>5 DEF TurnOnOff, ReadStep
  <2>6. CASE Play
    BY <1>2, <2>6 DEF Play, ReadStep, Command
  <2>7. ASSUME NEW k, Go(k) PROVE ShownIsOn'
    BY <1>2, <2>7 DEF Go, Command
  <2>8. CASE UNCHANGED vars
    BY <1>2, <2>8 DEF vars
  <2>9. EditSteps \/ EditPage => \E new : Edit(new)
    BY DEF EditSteps, SetPosition, WriteStep, InsertStep,
         DeleteStep, Interpolate, MoveStep, MirrorStep,
         EditPage, SetRepeat, SetCount, CopyPage, NewPage
  <2> QED
    BY <1>2, <2>1, <2>2, <2>3, <2>4, <2>5, <2>6, <2>7, <2>8, <2>9
    DEF Next, UseServos
<1>3. ShownIsOn => ShownIsHeld
  <2>1. \A v \in Poses : v \notin {Invalid, TorqueOff}
    BY DEF Poses, Invalid, TorqueOff
  <2> QED
    BY <2>1 DEF ShownIsHeld
<1> QED
  BY <1>1, <1>2, <1>3, TypeCorrect, PTL DEF Spec

(* Commands on the steps a page plays, in terms of sequences.              *)

LEMMA Inserted ==
  ASSUME NEW S, NEW s \in Seq(S), NEW k \in 1 .. Len(s) + 1, NEW e \in S
  PROVE  /\ InsertAt(s, k, e) \in Seq(S)
         /\ Len(InsertAt(s, k, e)) = Len(s) + 1
         /\ \A i \in 1 .. Len(s) + 1 : InsertAt(s, k, e)[i] =
              IF i < k THEN s[i] ELSE IF i = k THEN e ELSE s[i - 1]
<1> DEFINE before == SubSeq(s, 1, k - 1)
           after  == SubSeq(s, k, Len(s))
<1>1. Len(s) \in Nat /\ \A i \in 1 .. Len(s) : s[i] \in S
  BY ElementOfSeq, LenProperties
<1>2. /\ before \in Seq(S) /\ Len(before) = k - 1
      /\ \A i \in 1 .. k - 1 : before[i] = s[i]
  BY <1>1, SubSeqProperties
<1>3. /\ after \in Seq(S) /\ Len(after) = Len(s) - k + 1
      /\ \A i \in 1 .. Len(s) - k + 1 : after[i] = s[k + i - 1]
  BY <1>1, SubSeqProperties
<1> HIDE DEF before, after
<1>4. <<e>> \in Seq(S) /\ Len(<<e>>) = 1 /\ <<e>>[1] = e
  OBVIOUS
<1> DEFINE upTo == before \o <<e>>
<1>5. /\ upTo \in Seq(S) /\ Len(upTo) = k
      /\ \A i \in 1 .. k : upTo[i] = IF i < k THEN s[i] ELSE e
  <2>1. /\ upTo \in Seq(S) /\ Len(upTo) = Len(before) + 1
        /\ \A i \in 1 .. Len(before) + 1 :
             upTo[i] = IF i <= Len(before) THEN before[i] ELSE <<e>>[i - Len(before)]
    BY <1>2, <1>4, ConcatProperties
  <2> HIDE DEF upTo
  <2> QED
    BY <1>1, <1>2, <1>4, <2>1
<1> HIDE DEF upTo
<1>6. /\ upTo \o after \in Seq(S) /\ Len(upTo \o after) = Len(upTo) + Len(after)
      /\ \A i \in 1 .. Len(upTo) + Len(after) : (upTo \o after)[i] =
           IF i <= Len(upTo) THEN upTo[i] ELSE after[i - Len(upTo)]
  BY <1>3, <1>5, ConcatProperties
<1>7. InsertAt(s, k, e) = upTo \o after
  BY DEF InsertAt, upTo, before, after
<1>8. Len(upTo) + Len(after) = Len(s) + 1
  BY <1>1, <1>3, <1>5
<1>9. ASSUME NEW i \in 1 .. Len(s) + 1
      PROVE  (upTo \o after)[i] = IF i < k THEN s[i] ELSE IF i = k THEN e ELSE s[i - 1]
  <2>0. i \in Int /\ k \in Int
    BY <1>1
  <2>1. CASE i <= k
    BY <1>1, <1>5, <1>6, <1>8, <2>1
  <2>2. CASE i > k
    <3>1. i - k \in 1 .. Len(s) - k + 1 /\ k + (i - k) - 1 = i - 1
      BY <1>1, <2>2
    <3> QED
      BY <1>1, <1>3, <1>5, <1>6, <1>8, <2>2, <3>1
  <2>3. i <= k \/ i > k
    BY <2>0
  <2> QED
    BY <2>1, <2>2, <2>3, Zenon
<1> QED
  BY <1>6, <1>7, <1>8, <1>9

LEMMA Removed ==
  ASSUME NEW S, NEW s \in Seq(S), NEW k \in 1 .. Len(s)
  PROVE  /\ RemoveAt(s, k) \in Seq(S)
         /\ Len(RemoveAt(s, k)) = Len(s) - 1
         /\ \A i \in 1 .. Len(s) - 1 : RemoveAt(s, k)[i] = IF i < k THEN s[i] ELSE s[i + 1]
<1> DEFINE before == SubSeq(s, 1, k - 1)
           after  == SubSeq(s, k + 1, Len(s))
<1>1. Len(s) \in Nat /\ \A i \in 1 .. Len(s) : s[i] \in S
  BY ElementOfSeq, LenProperties
<1>2. /\ before \in Seq(S) /\ Len(before) = k - 1
      /\ \A i \in 1 .. k - 1 : before[i] = s[i]
  BY <1>1, SubSeqProperties
<1>3. /\ after \in Seq(S) /\ Len(after) = Len(s) - k
      /\ \A i \in 1 .. Len(s) - k : after[i] = s[k + i]
  <2>1. \A i \in k + 1 .. Len(s) : s[i] \in S
    BY <1>1
  <2>2. /\ after \in Seq(S)
        /\ Len(after) = IF k + 1 <= Len(s) THEN Len(s) - (k + 1) + 1 ELSE 0
        /\ \A i \in 1 .. Len(s) - (k + 1) + 1 : after[i] = s[(k + 1) + i - 1]
    BY <1>1, <2>1, SubSeqProperties
  <2> HIDE DEF after
  <2> QED
    BY <1>1, <2>2
<1> HIDE DEF before, after
<1>4. /\ before \o after \in Seq(S) /\ Len(before \o after) = Len(before) + Len(after)
      /\ \A i \in 1 .. Len(before) + Len(after) : (before \o after)[i] =
           IF i <= Len(before) THEN before[i] ELSE after[i - Len(before)]
  BY <1>2, <1>3, ConcatProperties
<1>5. RemoveAt(s, k) = before \o after
  BY DEF RemoveAt, before, after
<1>6. Len(before) + Len(after) = Len(s) - 1
  BY <1>1, <1>2, <1>3
<1>7. ASSUME NEW i \in 1 .. Len(s) - 1
      PROVE  (before \o after)[i] = IF i < k THEN s[i] ELSE s[i + 1]
  <2>0. i \in Int /\ k \in Int
    BY <1>1
  <2>1. CASE i < k
    BY <1>1, <1>2, <1>4, <1>6, <2>1
  <2>2. CASE i >= k
    <3>1. i - (k - 1) \in 1 .. Len(s) - k /\ k + (i - (k - 1)) = i + 1 /\ ~(i <= k - 1)
      BY <1>1, <2>2
    <3>2. (before \o after)[i] = after[i - (k - 1)]
      BY <1>2, <1>4, <1>6, <3>1
    <3>3. after[i - (k - 1)] = s[i + 1]
      BY <1>3, <3>1
    <3> QED
      BY <2>0, <2>2, <3>2, <3>3
  <2>3. i < k \/ i >= k
    BY <2>0
  <2> QED
    BY <2>1, <2>2, <2>3, Zenon
<1> QED
  BY <1>4, <1>5, <1>6, <1>7

LEMMA KeptIs ==
  ASSUME NEW S, NEW s \in Seq(S), MaxStep \in Nat
  PROVE  /\ Kept(s) \in Seq(S)
         /\ Len(Kept(s)) = IF Len(s) < MaxStep THEN Len(s) ELSE MaxStep
         /\ \A i \in 1 .. Len(Kept(s)) : Kept(s)[i] = s[i]
<1> DEFINE n == IF Len(s) < MaxStep THEN Len(s) ELSE MaxStep
<1>1. n \in 0 .. Len(s) /\ \A i \in 1 .. Len(s) : s[i] \in S
  BY ElementOfSeq, LenProperties
<1>2. Kept(s) = SubSeq(s, 1, n)
  BY DEF Kept
<1> HIDE DEF n
<1>3. /\ SubSeq(s, 1, n) \in Seq(S) /\ Len(SubSeq(s, 1, n)) = n
      /\ \A i \in 1 .. n : SubSeq(s, 1, n)[i] = s[i]
  <2>1. \A i \in 1 .. n : s[i] \in S
    BY <1>1
  <2> QED
    BY <1>1, <2>1, SubSeqProperties
<1> QED
  BY <1>2, <1>3 DEF n

LEMMA PlayedIs ==
  ASSUME MaxStep \in Nat, NEW V, NEW p \in PagesOver(V)
  PROVE  /\ Played(p) \in Seq([Joints -> V])
         /\ Len(Played(p)) = p.count /\ p.count \in 0 .. MaxStep
         /\ \A i \in 1 .. p.count : Played(p)[i] = p.step[i]
<1>1. p.count \in 0 .. MaxStep /\ \A i \in 1 .. p.count : p.step[i] \in [Joints -> V]
  BY DEF PagesOver, Slots
<1> QED
  BY <1>1, SubSeqProperties DEF Played

\* A step that finds room, or pushes the last one off, is inserted among those played.
LEMMA OpenedPlayed ==
  ASSUME NEW V, page \in PagesOver(V), NEW k \in Slots, k <= page.count + 1,
         NEW added \in [Joints -> V], NEW q \in PagesOver(V),
         q.step = Opened(k, added),
         q.count = IF page.count < MaxStep THEN page.count + 1 ELSE page.count
  PROVE  Played(q) = Kept(InsertAt(Played(page), k, added))
<1> DEFINE S == [Joints -> V]
           s == Played(page)
           t == InsertAt(s, k, added)
           n == page.count
<1>0. MaxStep \in Nat
  BY SizesAssumption
<1>1. /\ s \in Seq(S) /\ Len(s) = n /\ n \in 0 .. MaxStep /\ k \in 1 .. MaxStep
      /\ \A i \in 1 .. n : s[i] = page.step[i]
  BY <1>0, PlayedIs DEF Slots
<1>2. /\ Played(q) \in Seq(S) /\ Len(Played(q)) = q.count /\ q.count \in 0 .. MaxStep
      /\ \A i \in 1 .. q.count : Played(q)[i] = q.step[i]
  BY <1>0, PlayedIs
<1>3. \A i \in 1 .. MaxStep :
        q.step[i] = IF i < k THEN page.step[i] ELSE IF i = k THEN added ELSE page.step[i - 1]
  BY DEF Opened, Slots
<1> HIDE DEF S, s
<1>4. /\ t \in Seq(S) /\ Len(t) = n + 1
      /\ \A i \in 1 .. n + 1 : t[i] = IF i < k THEN s[i] ELSE IF i = k THEN added ELSE s[i - 1]
  <2>1. k \in 1 .. Len(s) + 1 /\ added \in S
    BY <1>0, <1>1 DEF S
  <2>2. /\ t \in Seq(S) /\ Len(t) = Len(s) + 1
        /\ \A i \in 1 .. Len(s) + 1 :
             t[i] = IF i < k THEN s[i] ELSE IF i = k THEN added ELSE s[i - 1]
    <3>1. s \in Seq(S)
      BY <1>1
    <3>2. t \in Seq(S)
      BY <2>1, <3>1, Inserted
    <3>3. Len(t) = Len(s) + 1
      BY <2>1, <3>1, Inserted
    <3>4. ASSUME NEW i \in 1 .. Len(s) + 1
          PROVE  t[i] = IF i < k THEN s[i] ELSE IF i = k THEN added ELSE s[i - 1]
      BY <2>1, <3>1, Inserted
    <3> HIDE DEF t
    <3> QED
      BY <3>2, <3>3, <3>4
  <2> HIDE DEF t
  <2> QED
    BY <1>1, <2>2
<1> HIDE DEF t, n
<1>5. /\ Kept(t) \in Seq(S)
      /\ Len(Kept(t)) = IF n + 1 < MaxStep THEN n + 1 ELSE MaxStep
      /\ \A i \in 1 .. Len(Kept(t)) : Kept(t)[i] = t[i]
  BY <1>0, <1>4, KeptIs
<1>6. Len(Kept(t)) = q.count /\ q.count <= n + 1
  <2>1. q.count = IF n < MaxStep THEN n + 1 ELSE n
    BY DEF n
  <2>2. n \in 0 .. MaxStep
    BY <1>1 DEF n
  <2> QED
    BY <1>0, <1>5, <2>1, <2>2
<1>7. ASSUME NEW i \in 1 .. q.count PROVE Played(q)[i] = Kept(t)[i]
  <2>1. i \in 1 .. MaxStep /\ i \in 1 .. n + 1
    BY <1>0, <1>1, <1>2, <1>6
  <2>2. Kept(t)[i] = IF i < k THEN s[i] ELSE IF i = k THEN added ELSE s[i - 1]
    BY <1>4, <1>5, <1>6, <2>1
  <2>3. Played(q)[i] =
          IF i < k THEN page.step[i] ELSE IF i = k THEN added ELSE page.step[i - 1]
    BY <1>2, <1>3, <2>1
  <2>4. i < k => s[i] = page.step[i]
    <3>1. i < k => i \in 1 .. n
      BY <1>0, <1>1, <2>1 DEF n
    <3> QED
      BY <1>1, <3>1 DEF n
  <2>5. i > k => s[i - 1] = page.step[i - 1]
    <3>1. i > k => i - 1 \in 1 .. n
      BY <1>0, <1>1, <2>1 DEF n
    <3> QED
      BY <1>1, <3>1 DEF n
  <2>6. i < k \/ i = k \/ i > k
    BY <1>0, <1>1, <2>1
  <2> QED
    BY <2>2, <2>3, <2>4, <2>5, <2>6
<1>8. Played(q) = Kept(t)
  BY <1>2, <1>5, <1>6, <1>7, SeqEqual
<1> QED
  BY <1>8 DEF t, s

LEMMA InsertAsAsked ==
  ASSUME Over(Values), NEW k \in Slots, InsertStep(k)
  PROVE  Played(page') =
           IF k > Len(Played(page)) /\ k > 1 THEN Played(page)
           ELSE Kept(InsertAt(Played(page), k, stp7))
<1>0. MaxStep \in Nat /\ page \in PagesOver(Values) /\ stp7 \in [Joints -> Values]
  BY SizesAssumption DEF Over, Values
<1>1. page' = [page EXCEPT !.step = Opened(k, stp7), !.count = Grown(k)]
  BY DEF InsertStep, Edit
<1>2. page' \in PagesOver(Values)
  BY <1>0, <1>1, OpenedOver
<1>3. page'.step = Opened(k, stp7) /\ page'.count = Grown(k)
  BY <1>0, <1>1 DEF PagesOver
<1>4. /\ Played(page) \in Seq([Joints -> Values]) /\ Len(Played(page)) = page.count
      /\ page.count \in 0 .. MaxStep /\ k \in 1 .. MaxStep
      /\ \A i \in 1 .. page.count : Played(page)[i] = page.step[i]
  BY <1>0, PlayedIs DEF Slots
<1>5. CASE k > page.count /\ k > 1
  <2>1. page'.count = page.count
    BY <1>0, <1>3, <1>4, <1>5 DEF Grown
  <2>2. /\ Played(page') \in Seq([Joints -> Values])
        /\ Len(Played(page')) = page'.count
        /\ \A i \in 1 .. page'.count : Played(page')[i] = page'.step[i]
    BY <1>0, <1>2, PlayedIs
  <2>3. \A i \in 1 .. page.count : page'.step[i] = page.step[i]
    BY <1>0, <1>3, <1>4, <1>5 DEF Opened, Slots
  <2>4. Played(page') = Played(page)
    BY <1>4, <2>1, <2>2, <2>3, SeqEqual
  <2> QED
    BY <1>4, <1>5, <2>4
<1>6. CASE ~(k > page.count /\ k > 1)
  <2>1. k <= page.count + 1
        /\ Grown(k) = IF page.count < MaxStep THEN page.count + 1 ELSE page.count
    BY <1>0, <1>4, <1>6 DEF Grown
  <2>2. Played(page') = Kept(InsertAt(Played(page), k, stp7))
    BY <1>0, <1>2, <1>3, <2>1, OpenedPlayed
  <2> QED
    BY <1>4, <1>6, <2>2
<1> QED
  BY <1>5, <1>6

LEMMA DeleteAsAsked ==
  ASSUME Over(Values), NEW k \in Slots, DeleteStep(k)
  PROVE  Played(page') =
           IF k > Len(Played(page)) THEN Played(page)
           ELSE RemoveAt(Played(page), k)
<1> DEFINE S == [Joints -> Values]
           s == Played(page)
           n == page.count
<1>0. MaxStep \in Nat /\ page \in PagesOver(Values) /\ Proper \subseteq Values
  BY SizesAssumption DEF Over, Values, Proper
<1>1. /\ s \in Seq(S) /\ Len(s) = n /\ n \in 0 .. MaxStep /\ k \in 1 .. MaxStep
      /\ \A i \in 1 .. n : s[i] = page.step[i]
  BY <1>0, PlayedIs DEF Slots
<1>2. page' \in PagesOver(Values)
  BY <1>0, DeletedOver DEF DeleteStep, Edit
<1>3. /\ page'.count = IF k <= n THEN n - 1 ELSE n
      /\ \A i \in 1 .. MaxStep : page'.step[i] =
           IF i < k THEN page.step[i] ELSE IF i = MaxStep THEN Unset ELSE page.step[i + 1]
  BY <1>0 DEF DeleteStep, Edit, PagesOver, Slots
<1>4. /\ Played(page') \in Seq(S) /\ Len(Played(page')) = page'.count
      /\ \A i \in 1 .. page'.count : Played(page')[i] = page'.step[i]
  BY <1>0, <1>2, PlayedIs
<1> HIDE DEF S, s, n
<1>5. CASE k > n
  <2>1. \A i \in 1 .. n : page'.step[i] = page.step[i]
    BY <1>0, <1>1, <1>3, <1>5
  <2>2. page'.count = n
    BY <1>0, <1>1, <1>3, <1>5
  <2>3. Played(page') = s
    BY <1>1, <1>4, <2>1, <2>2, SeqEqual
  <2> QED
    BY <1>1, <1>5, <2>3 DEF s
<1>6. CASE k <= n
  <2> DEFINE t == RemoveAt(s, k)
  <2>1. k \in 1 .. Len(s)
    BY <1>0, <1>1, <1>6
  <2>2. t \in Seq(S) /\ Len(t) = Len(s) - 1
    BY <1>1, <2>1, Removed
  <2>3. ASSUME NEW i \in 1 .. Len(s) - 1 PROVE t[i] = IF i < k THEN s[i] ELSE s[i + 1]
    BY <1>1, <2>1, Removed
  <2> HIDE DEF t
  <2>4. page'.count = n - 1
    BY <1>0, <1>1, <1>3, <1>6
  <2>5. ASSUME NEW i \in 1 .. n - 1 PROVE Played(page')[i] = t[i]
    <3>1. i \in 1 .. MaxStep /\ i # MaxStep /\ i \in 1 .. n /\ i + 1 \in 1 .. n
      BY <1>0, <1>1
    <3>2. Played(page')[i] = IF i < k THEN page.step[i] ELSE page.step[i + 1]
      BY <1>3, <1>4, <2>4, <3>1
    <3>3. t[i] = IF i < k THEN s[i] ELSE s[i + 1]
      BY <1>1, <2>3
    <3> QED
      BY <1>1, <3>1, <3>2, <3>3
  <2>6. Played(page') = t
    BY <1>1, <1>4, <2>2, <2>4, <2>5, SeqEqual
  <2> QED
    BY <1>1, <1>6, <2>6 DEF s, t
<1> QED
  BY <1>0, <1>1, <1>5, <1>6

LEMMA InterpolateAsAsked ==
  ASSUME Over(Values), NEW k \in Slots, NEW ratio \in Ratios,
         Interpolate(k, ratio), Over(Values)'
  PROVE  Played(page') =
           Kept(InsertAt(Played(page), k + 1, page'.step[k + 1]))
<1>0. MaxStep \in Nat /\ page \in PagesOver(Values) /\ page' \in PagesOver(Values)
  BY SizesAssumption DEF Over
<1>1. k \in 1 .. MaxStep /\ page.count \in 0 .. MaxStep /\ k + 1 <= page.count
  BY <1>0 DEF PagesOver, Slots, Interpolate
<1>2. k + 1 \in Slots /\ k + 1 <= page.count + 1
  BY <1>0, <1>1 DEF Slots
<1>3. PICK added : page' = [page EXCEPT !.step = Opened(k + 1, added),
                                        !.count = Grown(k)]
  BY DEF Interpolate, Edit
<1>4. page'.step = Opened(k + 1, added) /\ page'.count = Grown(k)
  BY <1>0, <1>3 DEF PagesOver
<1>5. page'.count = IF page.count < MaxStep THEN page.count + 1 ELSE page.count
  BY <1>0, <1>1, <1>4 DEF Grown
<1>6. page'.step[k + 1] = added /\ added \in [Joints -> Values]
  <2>1. page'.step[k + 1] = added
    BY <1>0, <1>1, <1>2, <1>4 DEF Opened
  <2>2. page'.step[k + 1] \in [Joints -> Values]
    BY <1>0, <1>2 DEF PagesOver
  <2> QED
    BY <2>1, <2>2
<1> QED
  BY <1>0, <1>2, <1>4, <1>5, <1>6, OpenedPlayed

LEMMA MoveAsAsked ==
  ASSUME Over(Values), NEW k \in Slots, NEW to \in 1 .. Len(Played(page)),
         k <= Len(Played(page)), MoveStep(k, to)
  PROVE  Played(page') =
           InsertAt(RemoveAt(Played(page), k), to, Played(page)[k])
<1> DEFINE S == [Joints -> Values]
           s == Played(page)
           n == page.count
           r == RemoveAt(s, k)
           t == InsertAt(r, to, s[k])
<1>0. MaxStep \in Nat /\ page \in PagesOver(Values)
  BY SizesAssumption DEF Over
<1>1. /\ s \in Seq(S) /\ Len(s) = n /\ n \in 0 .. MaxStep /\ k \in 1 .. MaxStep
      /\ \A i \in 1 .. n : s[i] = page.step[i]
  BY <1>0, PlayedIs DEF Slots
<1>2. to \in 1 .. n /\ k \in 1 .. n /\ to \in Slots
  BY <1>0, <1>1 DEF Slots
<1>3. page' \in PagesOver(Values)
  BY <1>0, <1>2, MovedOver DEF MoveStep, Edit
<1>4. /\ page'.count = n
      /\ page'.step = [i \in Slots |->
           CASE i = to               -> page.step[k]
             [] k <= i /\ i < to     -> page.step[i + 1]
             [] to < i /\ i <= k     -> page.step[i - 1]
             [] OTHER                -> page.step[i]]
  BY <1>0 DEF MoveStep, Edit, PagesOver
<1>5. /\ Played(page') \in Seq(S) /\ Len(Played(page')) = page'.count
      /\ \A i \in 1 .. page'.count : Played(page')[i] = page'.step[i]
  BY <1>0, <1>3, PlayedIs
<1> HIDE DEF S, s, n
<1>6. r \in Seq(S) /\ Len(r) = n - 1
  BY <1>1, <1>2, Removed
<1>7. ASSUME NEW i \in 1 .. n - 1 PROVE r[i] = IF i < k THEN s[i] ELSE s[i + 1]
  <2>1. k \in 1 .. Len(s) /\ i \in 1 .. Len(s) - 1
    BY <1>1, <1>2
  <2> QED
    BY <1>1, <2>1, Removed
<1> HIDE DEF r
<1>8. s[k] \in S /\ to \in 1 .. Len(r) + 1
  BY <1>0, <1>1, <1>2, <1>6, ElementOfSeq
<1>9. t \in Seq(S) /\ Len(t) = n
  <2>1. t \in Seq(S) /\ Len(t) = Len(r) + 1
    BY <1>6, <1>8, Inserted
  <2> HIDE DEF t
  <2> QED
    BY <1>1, <1>6, <2>1
<1>10. ASSUME NEW i \in 1 .. n
       PROVE  t[i] = IF i < to THEN r[i] ELSE IF i = to THEN s[k] ELSE r[i - 1]
  <2>1. i \in 1 .. Len(r) + 1
    BY <1>1, <1>6
  <2> QED
    BY <1>6, <1>8, <2>1, Inserted
<1> HIDE DEF t
<1>11. ASSUME NEW i \in 1 .. n PROVE Played(page')[i] = t[i]
  <2>0. i \in Slots /\ {i, k, to, n} \subseteq Int
    BY <1>0, <1>1, <1>2 DEF Slots
  <2>1. Played(page')[i] = page'.step[i]
    BY <1>4, <1>5
  <2> HIDE DEF Slots
  <2>2. CASE i = to
    <3>1. page'.step[i] = page.step[k]
      BY <1>4, <2>0, <2>2
    <3>2. t[i] = s[k]
      BY <1>10, <2>0, <2>2
    <3> QED
      BY <1>1, <1>2, <2>1, <3>1, <3>2
  <2>3. CASE i < to /\ i < k
    <3>1. page'.step[i] = page.step[i]
      BY <1>4, <2>0, <2>3
    <3>2. t[i] = r[i] /\ i \in 1 .. n - 1
      BY <1>2, <1>10, <2>0, <2>3
    <3> QED
      BY <1>1, <1>7, <2>1, <2>3, <3>1, <3>2
  <2>4. CASE i < to /\ i >= k
    <3>1. page'.step[i] = page.step[i + 1]
      BY <1>4, <2>0, <2>4
    <3>2. t[i] = r[i] /\ i \in 1 .. n - 1 /\ i + 1 \in 1 .. n /\ ~(i < k)
      BY <1>2, <1>10, <2>0, <2>4
    <3> QED
      BY <1>1, <1>7, <2>1, <3>1, <3>2
  <2>5. CASE i > to /\ i <= k
    <3>1. page'.step[i] = page.step[i - 1]
      BY <1>4, <2>0, <2>5
    <3>2. t[i] = r[i - 1] /\ i - 1 \in 1 .. n - 1 /\ i - 1 \in 1 .. n /\ i - 1 < k
      BY <1>2, <1>10, <2>0, <2>5
    <3> QED
      BY <1>1, <1>7, <2>1, <3>1, <3>2
  <2>6. CASE i > to /\ i > k
    <3>1. page'.step[i] = page.step[i]
      BY <1>4, <2>0, <2>6
    <3>2. t[i] = r[i - 1] /\ i - 1 \in 1 .. n - 1 /\ ~(i - 1 < k) /\ (i - 1) + 1 = i
      BY <1>2, <1>10, <2>0, <2>6
    <3> QED
      BY <1>1, <1>7, <2>1, <3>1, <3>2
  <2>7. i = to \/ (i < to /\ i < k) \/ (i < to /\ i >= k) \/ (i > to /\ i <= k) \/ (i > to /\ i > k)
    BY <2>0
  <2> QED
    BY <2>2, <2>3, <2>4, <2>5, <2>6, <2>7
<1>12. Played(page') = t
  BY <1>4, <1>5, <1>9, <1>11, SeqEqual
<1> QED
  BY <1>12 DEF t, r, s

LEMMA MirrorTwice ==
  ASSUME Over(Values), NEW k \in Slots, MirrorStep(k, Joints),
         Posed(page.step[k])
  PROVE  Mirrored(page'.step[k], Joints) = page.step[k]
<1>1. /\ page.step[k] \in [Joints -> Values] /\ Top \in Nat
      /\ \A j \in Joints : Opposite[j] \in Joints /\ Opposite[Opposite[j]] = j
  BY SizesAssumption, JointsAssumption DEF Over, PagesOver
<1>2. page'.step[k] = Mirrored(page.step[k], Joints)
  BY DEF MirrorStep, Edit, Over, PagesOver
<1>3. ASSUME NEW j \in Joints
      PROVE  Mirror(Mirrored(page.step[k], Joints)[Opposite[j]]) = page.step[k][j]
  <2>1. Mirrored(page.step[k], Joints)[Opposite[j]] = Mirror(page.step[k][j])
    BY <1>1 DEF Mirrored
  <2>2. \A v \in Poses : Mirror(Mirror(v)) = v
    BY <1>1 DEF Mirror, Poses
  <2> QED
    BY <2>1, <2>2 DEF Posed
<1> QED
  BY <1>1, <1>2, <1>3 DEF Mirrored

\* Inserting, deleting, interpolating and moving a step leave the others in their order,
\* the last one falls off when there is no room, and a body mirrored twice is as it was.
THEOREM CommandsDoAsAsked == Spec => StepsAsAsked
<1>1. TypeOK => Over(Values)
  <2>1. PagesOver(Values) = Page
    BY DEF PagesOver, Values, Page, Steps
  <2>2. Steps = [Joints -> Values \cup {TorqueOff}]
    BY DEF Values, Steps
  <2> QED
    BY <2>1, <2>2 DEF Over, TypeOK
<1>2. ASSUME TypeOK, TypeOK', NEW k \in Slots
      PROVE  AsAsked(k, Played(page))
  <2>1. Over(Values) /\ Over(Values)'
    BY <1>1, <1>2, PTL
  <2> QED
    BY <2>1, InsertAsAsked, DeleteAsAsked, InterpolateAsAsked, MoveAsAsked, MirrorTwice
    DEF AsAsked
<1>3. TypeOK /\ TypeOK'
        => [\A k \in Slots : AsAsked(k, Played(page))]_vars
  BY <1>2
<1> QED
  BY <1>3, TypeCorrect, PTL DEF StepsAsAsked
=============================================================================
