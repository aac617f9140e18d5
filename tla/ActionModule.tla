---------------------------- MODULE ActionModule ----------------------------
(***************************************************************************)
(* op3_action_module: the player of the action file's pages.               *)
(*                                                                         *)
(* The timer thread calls process() every control cycle; the module's ROS  *)
(* thread takes start, stop and brake commands; the set-module thread      *)
(* enables and disables the module. They share playing_, stop_playing_,    *)
(* first_driving_start_, play_page_ and one FILE*, without a lock: fseek   *)
(* and fread of one thread can fall between those of the other.            *)
(***************************************************************************)
EXTENDS Naturals, Sequences

CONSTANTS
  Page,      \* the action file: a page is [repeat, next, exit, accel, step],
             \* a step [time, pause], both in control cycles
  Impatient  \* whether a client may command a start at any moment

ASSUME PageAssumption ==
  \A p \in DOMAIN Page :
    /\ p \in Nat \ {0}
    /\ Page[p].repeat \in 0 .. 255 /\ Page[p].accel \in Nat
    /\ Page[p].step \in Seq([time : Nat, pause : Nat])
    /\ {Page[p].next, Page[p].exit} \subseteq DOMAIN Page \cup {0}
ASSUME ImpatientAssumption == Impatient \in BOOLEAN

VARIABLES
  enabled,           \* enable_
  playing,           \* playing_
  first,             \* first_driving_start_
  stop,              \* stop_playing_
  finished,          \* playing_finished_
  page,              \* play_page_: the page whose content it holds
  number,            \* play_page_idx_
  nextPage,          \* next_play_page_
  nextNumber,        \* next_play_page
  repeat,            \* play_repeat_count
  step,              \* page_step_count_
  section,           \* section
  count, num,        \* unit_time_count, unit_time_num
  total, accel,      \* unit_time_total_num, accel_step
  pause,             \* pause_time
  cursor,            \* the position of action_file_, in pages
  pc,                \* where the timer thread is in actionPlayProcess()
  ros,               \* where the ROS thread is in start()
  asked, buffer,     \* its page_number and page
  passes             \* history: times the page has been played to its last step

flagVars  == <<enabled, playing, first, stop>>
pageVars  == <<page, number, nextPage, nextNumber, repeat, step, finished, passes>>
timeVars  == <<section, count, num, total, accel, pause>>
rosVars   == <<ros, asked, buffer>>
vars == <<flagVars, pageVars, timeVars, rosVars, cursor, pc>>

Pages    == DOMAIN Page
Steps(p) == Len(Page[p].step)
Empty(p) == Page[p].repeat = 0 \/ Steps(p) = 0   \* "has no action"

Init ==
  /\ enabled = FALSE /\ playing = FALSE /\ first = FALSE /\ stop = FALSE
  /\ finished = FALSE
  /\ page \in Pages /\ number = 0 /\ nextPage = page /\ nextNumber = 0
  /\ repeat = 0 /\ step = 0 /\ passes = 0
  /\ section = "PAUSE" /\ count = 0 /\ num = 0 /\ total = 0 /\ accel = 0 /\ pause = 0
  /\ cursor = 0 /\ pc = "idle"
  /\ ros = "idle" /\ asked = page /\ buffer = page

----------------------------------------------------------------------------
(* The timer thread: process() and actionPlayProcess().                    *)

Begin ==
  /\ pc = "idle" /\ enabled /\ playing
  /\ pc' = "first"
  /\ UNCHANGED <<flagVars, pageVars, timeVars, rosVars, cursor>>

\* The first call after a start resets the player, and forgets any stop.
FirstDriving ==
  /\ pc = "first"
  /\ pc' = "section"
  /\ IF first
     THEN /\ first' = FALSE /\ finished' = FALSE /\ stop' = FALSE
          /\ count' = 0 /\ num' = 0 /\ pause' = 0 /\ section' = "PAUSE"
          /\ step' = 0 /\ repeat' = Page[page].repeat /\ nextNumber' = 0 /\ passes' = 0
          /\ UNCHANGED <<enabled, playing, page, number, nextPage, total, accel>>
     ELSE UNCHANGED <<flagVars, pageVars, timeVars>>
  /\ UNCHANGED <<rosVars, cursor>>

Ongoing ==
  /\ pc = "section" /\ count < num
  /\ count' = count + 1
  /\ pc' = "idle"
  /\ UNCHANGED <<flagVars, pageVars, section, num, total, accel, pause, rosVars, cursor>>

SectionAfter ==
  CASE section = "PRE"   -> "MAIN"
    [] section = "MAIN"  -> "POST"
    [] section = "POST"  -> IF pause > 0 THEN "PAUSE" ELSE "PRE"
    [] section = "PAUSE" -> "PRE"

ChangeSection ==
  /\ pc = "section" /\ count >= num
  /\ count' = 0
  /\ section' = SectionAfter
  /\ num' = CASE SectionAfter = "MAIN"  -> total - 2 * accel
              [] SectionAfter = "POST"  -> accel
              [] SectionAfter = "PAUSE" -> pause
              [] SectionAfter = "PRE"   -> num
  /\ pc' = IF SectionAfter = "PRE" THEN "pre" ELSE "idle"
  /\ UNCHANGED <<flagVars, pageVars, total, accel, pause, rosVars, cursor>>

Finish ==
  /\ pc = "pre" /\ finished
  /\ playing' = FALSE
  /\ pc' = "idle"
  /\ UNCHANGED <<enabled, first, stop, pageVars, timeVars, rosVars, cursor>>

\* play_repeat_count is a byte, decremented before it is compared.
\* Mutants: compared before it is decremented; a stop goes on to the next page.
NextAfterUnending(p, n, r) ==
  IF ~stop /\ (r + 255) % 256 > 0 THEN n ELSE Page[p].next
NextAfterLate(p, n, r) ==
  IF stop THEN Page[p].exit ELSE IF r > 0 THEN n ELSE Page[p].next
NextAfter(p, n, r) ==
  IF stop THEN Page[p].exit ELSE IF (r + 255) % 256 > 0 THEN n ELSE Page[p].next

\* Mutant: a page is turned one step too late.
TurnsLate(s, p) == s > Steps(p) + 1
Turns(s, p)     == s > Steps(p)

\* The next step of the page, or the first of the page loaded before; at the last
\* step of a page the page to follow is chosen, and loaded unless it is the same.
NextStep ==
  /\ pc = "pre" /\ ~finished
  /\ LET turned == Turns(step + 1, page)
         p == IF turned THEN nextPage ELSE page
         n == IF turned THEN nextNumber ELSE number
         s == IF turned THEN 1 ELSE step + 1
         r == IF turned /\ number # nextNumber THEN Page[p].repeat ELSE repeat
         last == s = Steps(p)
         follow == NextAfter(p, n, r)
     IN  /\ page' = p /\ number' = n /\ step' = s
         /\ repeat' = IF last /\ ~stop THEN (r + 255) % 256 ELSE r
         /\ passes' = (IF turned /\ number # nextNumber THEN 0 ELSE passes)
                        + (IF last THEN 1 ELSE 0)
         /\ nextNumber' = IF last THEN follow ELSE nextNumber
         /\ nextPage' = IF last /\ follow = n THEN p ELSE nextPage
         /\ finished' = (last /\ (follow = 0 \/ (follow = n /\ Empty(p))))
         /\ pc' = IF last /\ follow \notin {0, n} THEN "seek" ELSE "prepare"
  /\ UNCHANGED <<flagVars, timeVars, rosVars, cursor>>

\* loadPage(): fseek, then fread, which leaves the file at the page after.
\* Mutants: the page that is being played is sought, or none.
SeekCurrent ==
  /\ pc = "seek"
  /\ cursor' = number
  /\ pc' = "read"
  /\ UNCHANGED <<flagVars, pageVars, timeVars, rosVars>>
SeekNothing ==
  /\ pc = "seek"
  /\ pc' = "read"
  /\ UNCHANGED <<flagVars, pageVars, timeVars, rosVars, cursor>>
Seek ==
  /\ pc = "seek"
  /\ cursor' = nextNumber
  /\ pc' = "read"
  /\ UNCHANGED <<flagVars, pageVars, timeVars, rosVars>>

\* A read past the end fails, and its result is not looked at. A page that does
\* not pass its checksum is reset: it is an empty page of the file.
Read ==
  /\ pc = "read"
  /\ nextPage' = IF cursor \in Pages THEN cursor ELSE nextPage
  /\ cursor' = IF cursor \in Pages THEN cursor + 1 ELSE cursor
  /\ finished' = Empty(nextPage')
  /\ pc' = "prepare"
  /\ UNCHANGED <<flagVars, page, number, nextNumber, repeat, step, passes, timeVars, rosVars>>

\* unit_time_total_num and accel_step of a step that lasts t cycles: a step
\* needs acceleration and constant velocity, and is skipped when too short.
Total(t, a) == IF t <= 2 * a /\ (t - 1) \div 2 = 0 THEN 0 ELSE t
AccelUp(t, a) == IF t <= 2 * a THEN (t + 1) \div 2 ELSE a   \* mutant: rounded up
Accel(t, a) == IF t <= 2 * a THEN (t - 1) \div 2 ELSE a

Prepare ==
  /\ pc = "prepare"
  /\ LET t == IF Page[page].step[step].time = 0 THEN 1 ELSE Page[page].step[step].time
     IN  /\ total' = Total(t, Page[page].accel)
         /\ accel' = Accel(t, Page[page].accel)
         /\ num' = Accel(t, Page[page].accel)
  /\ pause' = Page[page].step[step].pause
  /\ pc' = "idle"
  /\ UNCHANGED <<flagVars, pageVars, section, count, rosVars, cursor>>

Timer ==
  \/ Begin \/ FirstDriving \/ Ongoing \/ ChangeSection
  \/ Finish \/ NextStep \/ Seek \/ Read \/ Prepare

----------------------------------------------------------------------------
(* The ROS thread: start_action and page_num.                              *)

\* A start is read from the file before it is refused for playing. A patient
\* client commands a start only when nothing is played and no process() runs.
StartRequest(p) ==
  /\ ros = "idle" /\ enabled
  /\ Impatient \/ (~playing /\ pc = "idle")
  /\ ros' = "seek" /\ asked' = p
  /\ UNCHANGED <<flagVars, pageVars, timeVars, cursor, pc, buffer>>

RosSeek ==
  /\ ros = "seek"
  /\ cursor' = asked
  /\ ros' = "read"
  /\ UNCHANGED <<flagVars, pageVars, timeVars, pc, asked, buffer>>

\* loadPage() fails, and with it start(), when the read is past the end.
RosRead ==
  /\ ros = "read"
  /\ IF cursor \in Pages
     THEN buffer' = cursor /\ cursor' = cursor + 1 /\ ros' = "check"
     ELSE ros' = "idle" /\ UNCHANGED <<buffer, cursor>>
  /\ UNCHANGED <<flagVars, pageVars, timeVars, pc, asked>>

\* start(int, Page*) looks at enable_ and playing_ once, at its head.
RosCheck ==
  /\ ros = "check"
  /\ ros' = IF ~enabled \/ playing THEN "idle" ELSE "load"
  /\ UNCHANGED <<flagVars, pageVars, timeVars, cursor, pc, asked, buffer>>

\* play_page_ is overwritten before an empty page is refused.
RosLoad ==
  /\ ros = "load"
  /\ page' = buffer
  /\ ros' = IF Empty(buffer) THEN "idle" ELSE "begin"
  /\ UNCHANGED <<flagVars, number, nextPage, nextNumber, repeat, step, finished, passes,
                 timeVars, cursor, pc, asked, buffer>>

\* The module may have been disabled since the check: it is then in motion all
\* the same, and plays the page as soon as it is enabled again.
RosBegin ==
  /\ ros = "begin" /\ ros' = "idle"
  /\ number' = asked /\ first' = TRUE /\ playing' = TRUE
  /\ UNCHANGED <<enabled, stop, page, nextPage, nextNumber, repeat, step, finished, passes,
                 timeVars, cursor, pc, asked, buffer>>

\* page_num -1, or stop() called by the set-module thread.
Stop ==
  /\ enabled
  /\ stop' = TRUE
  /\ UNCHANGED <<enabled, playing, first, pageVars, timeVars, rosVars, cursor, pc>>

\* page_num -2.
Brake ==
  /\ enabled /\ ros = "idle"
  /\ playing' = FALSE
  /\ UNCHANGED <<enabled, first, stop, pageVars, timeVars, rosVars, cursor, pc>>

----------------------------------------------------------------------------
(* The set-module thread.                                                  *)

Enable ==
  /\ ~enabled
  /\ enabled' = TRUE
  /\ UNCHANGED <<playing, first, stop, pageVars, timeVars, rosVars, cursor, pc>>

Disable ==
  /\ enabled
  /\ enabled' = FALSE /\ playing' = FALSE
  /\ UNCHANGED <<first, stop, pageVars, timeVars, rosVars, cursor, pc>>

Client ==
  \/ \E p \in Pages : StartRequest(p)
  \/ RosSeek \/ RosRead \/ RosCheck \/ RosLoad \/ RosBegin
  \/ Stop \/ Brake \/ Enable \/ Disable

Next == Timer \/ Client

Spec == Init /\ [][Next]_vars

\* The control cycle keeps running; nobody has to command anything.
FairSpec == Spec /\ WF_vars(Timer)

----------------------------------------------------------------------------
(* Properties.                                                             *)

\* Each variable ranges over the values the code can give it: the counters are
\* unsigned, and a section that lasted less than no cycles would wrap around.
TypeOK ==
  /\ {enabled, playing, first, stop, finished} \subseteq BOOLEAN
  /\ {page, nextPage, asked, buffer} \subseteq Pages
  /\ {number, nextNumber} \subseteq Pages \cup {0}
  /\ repeat \in 0 .. 255 /\ {step, count, num, total, accel, pause, cursor, passes} \subseteq Nat
  /\ section \in {"PRE", "MAIN", "POST", "PAUSE"}
  /\ pc \in {"idle", "first", "section", "pre", "seek", "read", "prepare"}
  /\ ros \in {"idle", "seek", "read", "check", "load", "begin"}

\* While a page is played the step whose parameters are computed is one of its
\* steps: step[page_step_count_ - 1] is never read outside the page, through
\* every turn to a page of another length.
StepInPage == pc = "prepare" => step \in 1 .. Steps(page)

\* No count leaves its range, and no step is read outside its page (TypeOK, StepInPage).
InBounds == TypeOK /\ StepInPage

\* "load next page": when the step parameters are computed, the page that has been
\* loaded to follow is the one that was chosen.
NextPageLoaded ==
  pc = "prepare" /\ step = Steps(page) /\ nextNumber # 0 => nextPage = nextNumber

\* A page that is not stopped is left for another exactly when it has been played
\* as often as its header says (pages that follow themselves excepted).
RepeatHonoured ==
  [][pc = "pre" /\ pc' \in {"seek", "prepare"} /\ step' = Steps(page')
       /\ ~stop /\ Page[page'].next # number'
     => (nextNumber' # number' <=> passes' = Page[page'].repeat)]_vars

\* A stop that arrives after the player has begun ends the play: the exit pages
\* are played out and playing_ becomes false.
StopEnds == (playing /\ stop /\ ~first) ~> ~playing

Player == INSTANCE PagePlayer WITH
  number <- IF playing THEN number ELSE 0,
  shown  <- IF playing THEN page ELSE 0

\* The pages that are played, one after the other, are what PagePlayer promises:
\* the number that is played and the content that is played change together.
PlaysPages == Player!Spec
=============================================================================
