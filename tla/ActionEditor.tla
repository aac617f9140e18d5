---------------------------- MODULE ActionEditor ----------------------------
(***************************************************************************)
(* op3_action_editor: an operator's terminal editor for the file of action *)
(* pages. It holds one page of the file (page_), commands its steps, teaches  *)
(* new ones in STP7 (step_), which shows what the servos hold, and plays   *)
(* the page or goes to a step with the controller's timer, which is        *)
(* otherwise stopped, so that servos can be read and written directly.     *)
(*                                                                         *)
(* The loop of main() handles one key or command at a time: each command   *)
(* is one action, the playing of a page included (ActionModule has that    *)
(* in detail). A position is a number up to Top or carries a mark. Steps   *)
(* are numbered from 0 on the screen and from 1 here.                      *)
(***************************************************************************)
EXTENDS Integers, Sequences, SequencesExt

CONSTANTS
  Joints,    \* the joints of a step
  Opposite,  \* the joint on the other side of each
  Right,     \* the joints on the right
  Top,       \* the highest position, 4095 in the code
  MaxStep,   \* MAXNUM_STEP
  Pages,     \* the numbers of pages
  Ratios,    \* interpolation ratios the operator uses, in tenths
  MaxCommands, \* bound: commands, those on the file aside
  Files,     \* what the file may hold at first
  Clean      \* the operator interpolates between steps without marks only

ASSUME JointsAssumption ==
  /\ Opposite \in [Joints -> Joints] /\ Right \subseteq Joints
  /\ \A j \in Joints : Opposite[Opposite[j]] = j
ASSUME SizesAssumption ==
  /\ Top \in Nat \ {0} /\ MaxStep \in Nat \ {0} /\ MaxCommands \in Nat
  /\ Pages \subseteq Nat /\ 1 \in Pages
ASSUME OperatorAssumption ==
  Ratios \subseteq 0 .. 10 /\ Clean \in BOOLEAN

VARIABLES
  running,  \* the editor has not been left
  file,     \* the pages in the file
  page,     \* page_
  idx,      \* page_idx_
  edited,   \* edited_
  stp7,     \* step_
  torque,   \* which servos have their torque on
  timer,    \* is_timer_running_ of the controller
  agreed,   \* history: asked about the page as it is, the operator let it go, and it stayed
  gone,     \* history: the joints that a "go" was to bring to what STP7 shows without torque
  commands  \* commands so far, those on the file aside

pageVars  == <<page, idx, edited, agreed>>
servoVars == <<stp7, torque, timer, gone>>
vars == <<running, file, pageVars, servoVars, commands>>

Poses     == 0 .. Top
Invalid   == -1         \* INVALID_BIT_MASK
TorqueOff == -2         \* TORQUE_OFF_BIT_MASK
Wild      == Top + 1    \* neither mark, and no position of a servo

Slots == 1 .. MaxStep
Steps == [Joints -> Poses \cup {Invalid, TorqueOff, Wild}]
Page  == [step : [Slots -> Steps], count : 0 .. MaxStep, repeat : 0 .. 1]

ASSUME FilesAssumption == Files \subseteq [Pages -> Page]

Unset == [j \in Joints |-> Invalid]

\* resetPage(); a repeat count is 0 or not.
Reset == [step |-> [k \in Slots |-> Unset], count |-> 0, repeat |-> 1]

\* The steps a page plays.
Played(p) == SubSeq(p.step, 1, p.count)

Marked(step, mark) == \E j \in Joints : step[j] = mark
Posed(step) == \A j \in Joints : step[j] \in Poses

\* initializeActionEditor() has turned the servos on, drawIntro() loaded the first page and
\* read the servos.
Init ==
  /\ running = TRUE
  /\ file \in Files
  /\ idx = 1 /\ page = file[1] /\ edited = FALSE /\ agreed = FALSE
  /\ torque = [j \in Joints |-> TRUE]
  /\ stp7 \in [Joints -> Poses \cup {Invalid}]
  /\ timer = FALSE /\ gone = {} /\ commands = 0

----------------------------------------------------------------------------
(* The page.                                                               *)

Command == running /\ commands < MaxCommands /\ commands' = commands + 1

\* What every command that changes the page does.
Edit(new) ==
  /\ Command
  /\ page' = new /\ edited' = TRUE /\ agreed' = FALSE
  /\ UNCHANGED <<running, file, idx, servoVars>>

\* setValue() on a step of the page and on its parameters.
SetPosition(k, j, v) == Edit([page EXCEPT !.step[k][j] = v])
SetRepeat(n)         == Edit([page EXCEPT !.repeat = n])
SetCount(n)          == n # page.count /\ Edit([page EXCEPT !.count = n])

\* One more step, unless there is no room: it is on the page only if it comes
\* before one that is.
Grown(k) ==
  IF (k = 1 \/ k - 1 < page.count) /\ page.count < MaxStep THEN page.count + 1 ELSE page.count

\* From step k on each step moves up, the last one off the page.
\* Mutant: a step is overwritten before it has moved.
OpenedUpwards(k, step) ==
  [i \in Slots |-> IF i < k THEN page.step[i] ELSE IF i = k THEN step ELSE page.step[k]]
Opened(k, step) ==
  [i \in Slots |-> IF i < k THEN page.step[i] ELSE IF i = k THEN step ELSE page.step[i - 1]]

\* writeStepCmd()
WriteStep(k) ==
  /\ ~Marked(stp7, TorqueOff)
  /\ Edit([page EXCEPT !.step[k] = stp7])

\* insertStepCmd()
\* Mutant: it does not look for joints whose torque is off.
InsertStepOff(k) ==
  Edit([page EXCEPT !.step = Opened(k, stp7), !.count = Grown(k)])
\* Mutant: the page is not marked as edited.
InsertStepUnmarked(k) ==
  /\ Command /\ ~Marked(stp7, TorqueOff)
  /\ page' = [page EXCEPT !.step = Opened(k, stp7), !.count = Grown(k)] /\ agreed' = FALSE
  /\ UNCHANGED <<running, file, idx, edited, servoVars>>
InsertStep(k) ==
  /\ ~Marked(stp7, TorqueOff)
  /\ Edit([page EXCEPT !.step = Opened(k, stp7), !.count = Grown(k)])

\* deleteStepCmd()
DeleteStep(k) ==
  Edit([page EXCEPT
    !.step = [i \in Slots |->
      IF i < k THEN page.step[i] ELSE IF i = MaxStep THEN Unset ELSE page.step[i + 1]],
    !.count = IF k <= page.count THEN page.count - 1 ELSE page.count])

\* What a position is a part of the way to another. It is worked out in doubles and cut
\* off: one less where it should come out even. A mark is a bit of the number and may be
\* lost on the way, become the other mark, or a number that is no position.
Between(a, b, ratio) ==
  LET tenths == a * (10 - ratio) + b * ratio
  IN CASE ratio = 0               -> {a}
       [] ratio = 10              -> {b}
       [] {a, b} \subseteq Poses -> Poses \cap
            ({tenths \div 10} \cup IF tenths % 10 = 0 THEN {tenths \div 10 - 1} ELSE {})
       [] a = b                   -> {a}
       [] OTHER                   -> Poses \cup {Invalid, TorqueOff, Wild}

\* insertInterpolationStepCmd(): between two steps of the page.
Interpolate(k, ratio) ==
  /\ k + 1 <= page.count
  /\ Clean => Posed(page.step[k]) /\ Posed(page.step[k + 1])
  /\ \E step \in [Joints -> UNION {Between(page.step[k][j], page.step[k + 1][j], ratio) :
                                     j \in Joints}] :
       /\ \A j \in Joints : step[j] \in Between(page.step[k][j], page.step[k + 1][j], ratio)
       /\ Edit([page EXCEPT !.step = Opened(k + 1, step), !.count = Grown(k)])

\* moveStepCmd(): the steps between close the gap.
MoveStep(from, to) ==
  /\ from # to
  /\ Edit([page EXCEPT !.step = [i \in Slots |->
       CASE i = to                 -> page.step[from]
         [] from <= i /\ i < to    -> page.step[i + 1]
         [] to < i /\ i <= from    -> page.step[i - 1]
         [] OTHER                  -> page.step[i]]])

\* convert4095ToMirror(). A number above 4095 turns negative, which the word it is
\* kept in reads as marked.
Mirror(v) == IF v \in Poses THEN Top - v ELSE Invalid

\* mirrorStepCmd() of all body parts: both sides are read before either is written.
\* Mutant: the right side is read after the left side has been written.
MirroredInPlace(step, sides) ==
  LET left == [j \in Joints |-> IF j \in sides \ Right THEN Mirror(step[Opposite[j]]) ELSE step[j]]
  IN [j \in Joints |-> IF j \in sides \cap Right THEN Mirror(left[Opposite[j]]) ELSE left[j]]
Mirrored(step, sides) ==
  [j \in Joints |-> IF j \in sides THEN Mirror(step[Opposite[j]]) ELSE step[j]]

MirrorStep(k, sides) == Edit([page EXCEPT !.step[k] = Mirrored(page.step[k], sides)])

\* copyCmd() and newCmd(), which overwrite the page without a question.
CopyPage(n) == n \in Pages \ {idx} /\ Edit(file[n])
NewPage     == Edit(Reset)

\* saveCmd(): nothing if the page is not marked; the file may refuse.
Save ==
  /\ running /\ edited
  /\ file' = [file EXCEPT ![idx] = page]
  /\ edited' = FALSE
  /\ UNCHANGED <<running, page, idx, agreed, servoVars, commands>>

\* pageCmd(), n and b: the operator is asked if the page is marked, and has said yes. A
\* number that is no page leaves the page, unmarked.
GoToPage(n) ==
  /\ running
  /\ edited' = FALSE
  /\ IF n \in Pages
       THEN idx' = n /\ page' = file[n] /\ agreed' = FALSE
       ELSE agreed' = (agreed \/ edited) /\ UNCHANGED <<idx, page>>
  /\ UNCHANGED <<running, file, servoVars, commands>>

Exit ==
  /\ running
  /\ running' = FALSE
  /\ UNCHANGED <<file, pageVars, servoVars, commands>>

----------------------------------------------------------------------------
(* The servos.                                                             *)

\* readStep(): every read is refused while the timer has the port, any read may fail,
\* and a servo without torque is not read.
ReadStep(on, busy) ==
  /\ stp7' \in [Joints -> Poses \cup {Invalid}]
  /\ \A j \in Joints : stp7'[j] \in Poses => on[j] /\ ~busy
  /\ gone' = {}

\* setValue() on STP7 moves the servo, and marks the page as edited.
SetTaught(j, v) ==
  /\ Command /\ stp7[j] \notin {Invalid, TorqueOff} /\ ~timer
  /\ stp7' = [stp7 EXCEPT ![j] = v] /\ edited' = TRUE
  /\ UNCHANGED <<running, file, page, idx, agreed, torque, timer, gone>>

\* toggleTorque()
ToggleTorque(j) ==
  /\ Command /\ ~timer
  /\ IF stp7[j] = TorqueOff
       THEN /\ torque' = [torque EXCEPT ![j] = TRUE]
            /\ \E v \in Poses \cup {TorqueOff} : stp7' = [stp7 EXCEPT ![j] = v]
       ELSE /\ torque' = [torque EXCEPT ![j] = FALSE]
            /\ stp7' = [stp7 EXCEPT ![j] = TorqueOff]
  /\ gone' = gone \ {j}
  /\ UNCHANGED <<running, file, pageVars, timer>>

\* turnOnOffCmd(): the servos named that take the write, none while the timer runs.
\* Mutant: the servos are not read again.
TurnOnOffUnread(on, named) ==
  /\ Command
  /\ torque' = [j \in Joints |-> IF j \in named /\ ~timer THEN on ELSE torque[j]]
  /\ UNCHANGED <<running, file, pageVars, stp7, timer, gone>>
TurnOnOff(on, named) ==
  /\ Command
  /\ torque' = [j \in Joints |-> IF j \in named /\ ~timer THEN on ELSE torque[j]]
  /\ ReadStep(torque', timer)
  /\ UNCHANGED <<running, file, pageVars, timer>>

\* playCmd(), from startTimer() to stopTimer(). start() refuses a page without an action, and
\* every page while the module is not enabled yet: STP7 is not read then.
Play ==
  /\ Command /\ \A k \in 1 .. page.count : ~Marked(page.step[k], Invalid)
  /\ timer' = FALSE
  /\ \/ UNCHANGED <<stp7, gone>>
     \/ page.count # 0 /\ page.repeat # 0 /\ ReadStep(torque, timer')
  /\ UNCHANGED <<running, file, pageVars, torque>>

\* goCmd_2(): the base module takes the robot to a step, which STP7 shows then, whatever has
\* become of the joints without torque. It gives up over an invalid joint only after
\* startTimer().
Go(k) ==
  /\ Command
  /\ IF Marked(page.step[k], Invalid)
       THEN timer' = TRUE /\ UNCHANGED <<stp7, gone>>
       ELSE timer' = FALSE /\ stp7' = page.step[k] /\ gone' = {j \in Joints : ~torque[j]}
  /\ UNCHANGED <<running, file, pageVars, torque>>

----------------------------------------------------------------------------

EditSteps ==
  \E k \in Slots :
    \/ \E j \in Joints, v \in Poses : SetPosition(k, j, v)
    \/ WriteStep(k) \/ InsertStep(k) \/ DeleteStep(k)
    \/ \E ratio \in Ratios : Interpolate(k, ratio)
    \/ \E to \in Slots : MoveStep(k, to)
    \/ \E sides \in {Right, Joints \ Right, Joints} : MirrorStep(k, sides)

EditPage ==
  \/ \E n \in 0 .. 1 : SetRepeat(n)
  \/ \E n \in 0 .. MaxStep : SetCount(n)
  \/ \E n \in Pages : CopyPage(n)
  \/ NewPage

UseFile == Save \/ (\E n \in Pages \cup {0} : GoToPage(n)) \/ Exit

UseServos ==
  \/ \E j \in Joints : ToggleTorque(j) \/ \E v \in Poses : SetTaught(j, v)
  \/ \E named \in SUBSET Joints, on \in BOOLEAN : TurnOnOff(on, named)
  \/ Play
  \/ \E k \in Slots : Go(k)

Next == EditSteps \/ EditPage \/ UseFile \/ UseServos

Spec == Init /\ [][Next]_vars

----------------------------------------------------------------------------

TypeOK ==
  /\ running \in BOOLEAN /\ edited \in BOOLEAN /\ agreed \in BOOLEAN /\ timer \in BOOLEAN
  /\ file \in [Pages -> Page] /\ page \in Page /\ idx \in Pages
  /\ stp7 \in Steps /\ torque \in [Joints -> BOOLEAN] /\ gone \subseteq Joints
  /\ commands \in 0 .. MaxCommands

\* A page that is not as it is in the file is marked as edited, so that the operator is asked
\* before it is left. One way past it is in the code: the operator has let the page go
\* (askSave()) for a number that is no page, and it is still there, unmarked.
UnsavedIsAskedFor == running /\ page # file[idx] => edited \/ agreed

\* Pages, in the file and in the editor, hold positions and invalid marks: the mark of a
\* joint without torque, which playCmd() does not look for, never gets into a page, nor does
\* a number that is neither (insertStepCmd(), writeStepCmd(), mirrorStepCmd()). Clean.
PosesOnly ==
  /\ TypeOK
  /\ \A p \in {page} \cup {file[n] : n \in Pages}, k \in Slots, j \in Joints :
       p.step[k][j] \in Poses \cup {Invalid}

\* A position STP7 shows, which the operator is about to teach, is of a joint with its torque
\* on: turning servos off by any way marks them (toggleTorque(), turnOnOffCmd()). Only a "go"
\* without torque makes STP7 show where a joint has not been brought.
ShownIsHeld == running => \A j \in Joints : stp7[j] \in Poses => torque[j] \/ j \in gone

Kept(steps) == SubSeq(steps, 1, IF Len(steps) < MaxStep THEN Len(steps) ELSE MaxStep)

\* What helpCmd() promises of the steps a page plays, in terms of sequences.
AsAsked(k, played) ==
  /\ InsertStep(k) => Played(page') =
       IF k > Len(played) /\ k > 1 THEN played ELSE Kept(InsertAt(played, k, stp7))
  /\ DeleteStep(k) => Played(page') =
       IF k > Len(played) THEN played ELSE RemoveAt(played, k)
  /\ \A ratio \in Ratios : Interpolate(k, ratio) => Played(page') =
       Kept(InsertAt(played, k + 1, page'.step[k + 1]))
  /\ \A to \in 1 .. Len(played) : k <= Len(played) /\ MoveStep(k, to) =>
       Played(page') = InsertAt(RemoveAt(played, k), to, played[k])
  /\ MirrorStep(k, Joints) /\ Posed(page.step[k]) =>
       Mirrored(page'.step[k], Joints) = page.step[k]

\* A command leaves the steps a page plays as helpCmd() says: the others keep their order, the
\* last falls off when there is no room, and mirroring twice undoes it.
StepsAsAsked == [][\A k \in Slots : AsAsked(k, Played(page))]_vars
=============================================================================
