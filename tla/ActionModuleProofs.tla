-------------------------- MODULE ActionModuleProofs --------------------------
(***************************************************************************)
(* Proofs, for every action file, about op3_action_module under clients    *)
(* that ask for a page when none is played: no step is read outside its    *)
(* page, and pages are repeated as often as their headers say.             *)
(***************************************************************************)
EXTENDS ActionModule, SequenceTheorems, TLAPS

\* The player is past its first call: what it knows of the page is of this page.
On == pc \notin {"idle", "first"} \/ (~first /\ (playing \/ pc = "first"))

\* The section lengths never wrap around.
SectionsFit == total >= 2 * accel

\* A patient client's start has the file and the player to itself.
Alone ==
  /\ ros # "idle" => ~playing /\ pc = "idle"
  /\ ros = "read" => cursor = asked
  /\ ros \in {"check", "load", "begin"} => buffer = asked
  /\ ros = "begin" => page = buffer /\ ~Empty(page)
  /\ first => pc \in {"idle", "first"}

\* What is played has steps, and is the page of the number.
Shown == playing \/ pc # "idle" => page = number /\ number \in Pages /\ ~Empty(page)

\* At the last step of the page the page to follow is chosen, and loaded unless none is.
Chosen == nextNumber \in {number, Page[number].next, Page[number].exit}
Following ==
  On =>
    /\ step \in 0 .. Steps(page)
    /\ pc = "prepare" => step > 0
    /\ pc \in {"seek", "read"} => step = Steps(page) /\ nextNumber \in Pages /\ Chosen
    /\ pc = "read" => cursor = nextNumber
    /\ step = Steps(page) /\ ~finished /\ pc \notin {"seek", "read"} =>
         nextPage = nextNumber /\ ~Empty(nextPage) /\ Chosen

\* A page that does not follow itself is played as often as is left to play it.
Counted ==
  On /\ ~stop /\ Page[number].next # number =>
    /\ passes + repeat = Page[page].repeat
    /\ step < Steps(page) \/ nextNumber = number => repeat > 0

IInv == TypeOK /\ SectionsFit /\ Alone /\ Shown /\ Following /\ Counted

----------------------------------------------------------------------------
(* Types.                                                                  *)

\* What the file says of a page.
LEMMA PageTyped ==
  ASSUME NEW p \in Pages
  PROVE  /\ p \in Nat \ {0}
         /\ Page[p].repeat \in 0 .. 255 /\ Page[p].accel \in Nat
         /\ Page[p].next \in Pages \cup {0} /\ Page[p].exit \in Pages \cup {0}
         /\ Steps(p) \in Nat /\ Empty(p) \in BOOLEAN
         /\ ~Empty(p) => Page[p].repeat > 0 /\ Steps(p) > 0
         /\ \A k \in 1 .. Steps(p) :
              Page[p].step[k].time \in Nat /\ Page[p].step[k].pause \in Nat
<1>1. Page[p].step \in Seq([time : Nat, pause : Nat])
  BY PageAssumption DEF Pages
<1>2. Steps(p) \in Nat
  BY <1>1 DEF Steps
<1>3. \A k \in 1 .. Steps(p) : Page[p].step[k] \in [time : Nat, pause : Nat]
  BY <1>1, ElementOfSeq DEF Steps
<1>4. \A k \in 1 .. Steps(p) : Page[p].step[k].time \in Nat /\ Page[p].step[k].pause \in Nat
  BY <1>3
<1>5. /\ p \in Nat \ {0}
      /\ Page[p].repeat \in 0 .. 255 /\ Page[p].accel \in Nat
      /\ Page[p].next \in Pages \cup {0} /\ Page[p].exit \in Pages \cup {0}
  BY PageAssumption DEF Pages
<1>6. Empty(p) \in BOOLEAN
  BY Zenon DEF Empty
<1>7. ~Empty(p) => Page[p].repeat > 0 /\ Steps(p) > 0
  BY <1>2, <1>5 DEF Empty
<1> QED
  BY <1>2, <1>4, <1>5, <1>6, <1>7

\* The acceleration at both ends of a step fits into it.
LEMMA SectionLengths ==
  ASSUME NEW t \in Nat \ {0}, NEW a \in Nat
  PROVE  /\ Total(t, a) \in Nat /\ Accel(t, a) \in Nat
         /\ Total(t, a) >= 2 * Accel(t, a)
BY DEF Total, Accel

\* The byte that is counted down.
LEMMA OneLess ==
  ASSUME NEW r \in 0 .. 255
  PROVE  (r + 255) % 256 \in 0 .. 255 /\ (r > 0 => (r + 255) % 256 = r - 1)
OBVIOUS

LEMMA InvInit == Init => IInv
<1> SUFFICES ASSUME Init PROVE IInv
  OBVIOUS
<1>1. TypeOK
  <2>1. {enabled, playing, first, stop, finished} \subseteq BOOLEAN
    BY DEF Init
  <2>2. {page, nextPage, asked, buffer} \subseteq Pages
        /\ {number, nextNumber} \subseteq Pages \cup {0}
    BY DEF Init
  <2>3. {step, count, num, total, accel, pause, cursor, passes} \subseteq Nat
    BY DEF Init
  <2> QED
    BY <2>1, <2>2, <2>3 DEF Init, TypeOK
<1> QED
  BY <1>1 DEF Init, IInv, SectionsFit, Alone, Shown, On, Following, Counted

----------------------------------------------------------------------------
(* Every step keeps the invariant.                                         *)

LEMMA TimerSteps == IInv /\ Timer => IInv'
<1> SUFFICES ASSUME IInv, Timer PROVE IInv'
  OBVIOUS
<1> USE DEF IInv, TypeOK, SectionsFit, Alone, Shown, On, Following, Chosen, Counted
<1>1. CASE Begin
  BY <1>1 DEF Begin, flagVars, pageVars, timeVars, rosVars
<1>2. CASE FirstDriving
  <2>1. CASE first
    <3>1. page = number /\ number \in Pages /\ ~Empty(page)
      BY <1>2 DEF FirstDriving
    <3>2. Page[page].repeat \in 0 .. 255 /\ Page[page].repeat > 0 /\ Steps(page) \in Nat \ {0}
      BY <3>1, PageTyped
    <3>3. /\ first' = FALSE /\ finished' = FALSE /\ stop' = FALSE
          /\ count' = 0 /\ num' = 0 /\ pause' = 0 /\ section' = "PAUSE" /\ pc' = "section"
          /\ step' = 0 /\ repeat' = Page[page].repeat /\ nextNumber' = 0 /\ passes' = 0
          /\ UNCHANGED <<enabled, playing, page, number, nextPage, total, accel,
                         ros, asked, buffer, cursor>>
      BY <1>2, <2>1 DEF FirstDriving, rosVars
    <3>4. TypeOK'
      <4>1. {enabled', playing', first', stop', finished'} \subseteq BOOLEAN
        BY <3>3
      <4>2. {page', nextPage', asked', buffer'} \subseteq Pages
        BY <3>3
      <4>3. {number', nextNumber'} \subseteq Pages \cup {0} /\ repeat' \in 0 .. 255
        BY <3>2, <3>3
      <4>4. {step', count', num', total', accel', pause', cursor', passes'} \subseteq Nat
        BY <3>3
      <4>5. /\ section' \in {"PRE", "MAIN", "POST", "PAUSE"}
            /\ pc' \in {"idle", "first", "section", "pre", "seek", "read", "prepare"}
            /\ ros' \in {"idle", "seek", "read", "check", "load", "begin"}
        BY <3>3
      <4> QED
        BY <4>1, <4>2, <4>3, <4>4, <4>5
    <3>5. Alone'
      BY <1>2, <3>3 DEF FirstDriving
    <3> QED
      BY <3>1, <3>2, <3>3, <3>4, <3>5
  <2>2. CASE ~first
    BY <1>2, <2>2 DEF FirstDriving, flagVars, pageVars, timeVars, rosVars
  <2> QED
    BY <2>1, <2>2
<1>3. CASE Ongoing
  BY <1>3 DEF Ongoing, flagVars, pageVars, rosVars
<1>4. CASE ChangeSection
  BY <1>4 DEF ChangeSection, SectionAfter, flagVars, pageVars, rosVars
<1>5. CASE Finish
  BY <1>5 DEF Finish, pageVars, timeVars, rosVars
<1>6. CASE Seek
  BY <1>6, PageTyped DEF Seek, flagVars, pageVars, timeVars, rosVars
<1>7. CASE Read
  BY <1>7, PageTyped DEF Read, flagVars, timeVars, rosVars
<1>8. CASE Prepare
  <2> DEFINE t == IF Page[page].step[step].time = 0 THEN 1 ELSE Page[page].step[step].time
             a == Page[page].accel
  <2>1. step \in 1 .. Steps(page)
    BY <1>8, PageTyped DEF Prepare
  <2>2. t \in Nat \ {0} /\ a \in Nat /\ Page[page].step[step].pause \in Nat
    BY <2>1, PageTyped
  <2>3. total' = Total(t, a) /\ accel' = Accel(t, a) /\ num' = Accel(t, a)
    BY <1>8 DEF Prepare
  <2>4. total' \in Nat /\ accel' \in Nat /\ num' \in Nat /\ total' >= 2 * accel'
    <3> HIDE DEF t, a
    <3> QED
      BY <2>2, <2>3, SectionLengths
  <2> QED
    BY <1>8, <2>2, <2>4 DEF Prepare, flagVars, pageVars, rosVars
<1>9. CASE NextStep
  <2> DEFINE turned == Turns(step + 1, page)
             p == IF turned THEN nextPage ELSE page
             n == IF turned THEN nextNumber ELSE number
             s == IF turned THEN 1 ELSE step + 1
             r == IF turned /\ number # nextNumber THEN Page[p].repeat ELSE repeat
             passed == IF turned /\ number # nextNumber THEN 0 ELSE passes
             last == s = Steps(p)
             follow == NextAfter(p, n, r)
  <2>1. /\ pc = "pre" /\ ~finished
        /\ page' = p /\ number' = n /\ step' = s
        /\ repeat' = IF last /\ ~stop THEN (r + 255) % 256 ELSE r
        /\ passes' = passed + (IF last THEN 1 ELSE 0)
        /\ nextNumber' = IF last THEN follow ELSE nextNumber
        /\ nextPage' = IF last /\ follow = n THEN p ELSE nextPage
        /\ finished' = (last /\ (follow = 0 \/ (follow = n /\ Empty(p))))
        /\ pc' = IF last /\ follow \notin {0, n} THEN "seek" ELSE "prepare"
        /\ UNCHANGED <<flagVars, timeVars, rosVars, cursor>>
    BY <1>9 DEF NextStep
  <2>2. /\ page = number /\ number \in Pages /\ ~Empty(page)
        /\ Steps(page) \in Nat \ {0} /\ step \in 0 .. Steps(page)
        /\ turned => step = Steps(page) /\ nextPage = nextNumber /\ ~Empty(nextPage)
    <3>1. pc = "pre" /\ ~finished
      BY <2>1
    <3>2. page = number /\ number \in Pages /\ ~Empty(page)
      BY <3>1
    <3>3. Steps(page) \in Nat \ {0} /\ step \in 0 .. Steps(page)
      BY <3>1, <3>2, PageTyped
    <3>4. ASSUME turned
          PROVE  step = Steps(page) /\ nextPage = nextNumber /\ ~Empty(nextPage)
      BY <3>1, <3>3, <3>4 DEF Turns
    <3> QED
      BY <3>2, <3>3, <3>4
  <2>3. p = n /\ p \in Pages /\ ~Empty(p) /\ Steps(p) \in Nat /\ s \in 1 .. Steps(p)
    BY <2>1, <2>2, PageTyped DEF Turns
  <2>4. r \in 0 .. 255 /\ passed \in Nat
    BY <2>3, PageTyped
  <2>5. ~stop /\ Page[n].next # n => passed + r = Page[p].repeat /\ r > 0
    <3>1. CASE turned /\ number # nextNumber
      <4>1. r = Page[p].repeat /\ passed = 0
        BY <3>1
      <4>2. Page[p].repeat \in 0 .. 255 /\ Page[p].repeat > 0
        BY <2>3, PageTyped
      <4> HIDE DEF turned, p, n, s, r, passed, last, follow
      <4> QED
        BY <4>1, <4>2
    <3>2. CASE turned /\ number = nextNumber
      BY <2>1, <2>2, <2>3, <3>2
    <3>3. CASE ~turned
      BY <2>1, <2>2, <2>3, <3>3 DEF Turns
    <3> QED
      BY <3>1, <3>2, <3>3
  <2>6. follow \in Pages \cup {0} /\ follow \in {n, Page[n].next, Page[n].exit}
    BY <2>3, PageTyped DEF NextAfter
  <2>7. ~stop /\ Page[n].next # n => (follow = n <=> r > 1)
    BY <2>3, <2>4, <2>5, OneLess DEF NextAfter
  <2>8. n # 0
    BY <2>3, PageTyped
  <2> HIDE DEF turned, p, n, s, r, passed, follow
  <2>9. UNCHANGED <<enabled, playing, first, stop, section, count, num, total, accel, pause,
                    ros, asked, buffer, cursor>>
    BY <2>1 DEF flagVars, timeVars, rosVars
  <2>10. TypeOK'
    <3>1. repeat' \in 0 .. 255 /\ passes' \in Nat /\ step' \in Nat
      BY <2>1, <2>3, <2>4, OneLess
    <3>2. finished' \in BOOLEAN
      BY <2>1
    <3>3. page' \in Pages /\ nextPage' \in Pages
      BY <2>1, <2>3
    <3>4. number' \in Pages \cup {0} /\ nextNumber' \in Pages \cup {0}
      BY <2>1, <2>3, <2>6
    <3> QED
      BY <2>1, <2>9, <3>1, <3>2, <3>3, <3>4
  <2>11. Following'
    <3>1. step' \in 1 .. Steps(page') /\ pc' \in {"seek", "prepare"}
      BY <2>1, <2>3
    <3>2. CASE last /\ follow \notin {0, n}
      BY <2>1, <2>3, <2>6, <3>1, <3>2
    <3>3. CASE last /\ follow = 0
      <4>1. finished' /\ pc' = "prepare"
        BY <2>1, <2>8, <3>3
      <4> QED
        BY <3>1, <4>1
    <3>4. CASE last /\ follow = n
      <4>1. /\ page' = p /\ number' = n /\ nextPage' = p /\ nextNumber' = n
            /\ pc' = "prepare"
        BY <2>1, <2>8, <3>4
      <4> QED
        BY <2>3, <3>1, <4>1
    <3>5. CASE ~last
      BY <2>1, <2>3, <3>1, <3>5
    <3> QED
      BY <3>2, <3>3, <3>4, <3>5
  <2>12. Counted'
    <3>1. ASSUME ~stop, Page[n].next # n
          PROVE  /\ passes' + repeat' = Page[p].repeat
                 /\ s < Steps(p) \/ nextNumber' = n => repeat' > 0
      <4>1. CASE last
        BY <2>1, <2>3, <2>4, <2>5, <2>7, <3>1, <4>1, OneLess
      <4>2. CASE ~last
        BY <2>1, <2>3, <2>4, <2>5, <3>1, <4>2
      <4> QED
        BY <4>1, <4>2
    <3> QED
      BY <2>1, <2>9, <3>1
  <2> QED
    BY <2>1, <2>3, <2>9, <2>10, <2>11, <2>12
<1> QED
  BY <1>1, <1>2, <1>3, <1>4, <1>5, <1>6, <1>7, <1>8, <1>9 DEF Timer

LEMMA ClientSteps == ASSUME ~Impatient PROVE IInv /\ Client => IInv'
<1> SUFFICES ASSUME IInv, Client PROVE IInv'
  OBVIOUS
<1> USE DEF IInv, TypeOK, SectionsFit, Alone, Shown, On, Following, Chosen, Counted
<1>1. CASE \E p \in Pages : StartRequest(p)
  BY <1>1 DEF StartRequest, flagVars, pageVars, timeVars
<1>2. CASE RosSeek
  <2>1. /\ ros = "seek" /\ cursor' = asked /\ ros' = "read"
        /\ UNCHANGED <<flagVars, pageVars, timeVars, pc, asked, buffer>>
    BY <1>2 DEF RosSeek
  <2>2. cursor' \in Nat
    BY <2>1, PageTyped
  <2> QED
    BY <2>1, <2>2 DEF flagVars, pageVars, timeVars
<1>3. CASE RosRead
  <2>1. cursor \in Pages /\ cursor \in Nat /\ buffer' = cursor /\ cursor' = cursor + 1
        /\ ros = "read" /\ ros' = "check"
    BY <1>3, PageTyped DEF RosRead
  <2>2. UNCHANGED <<flagVars, pageVars, timeVars, pc, asked>>
    BY <1>3 DEF RosRead
  <2>3. TypeOK'
    <3>1. {page', nextPage', asked', buffer'} \subseteq Pages
      BY <2>1, <2>2 DEF pageVars
    <3>2. {step', count', num', total', accel', pause', cursor', passes'} \subseteq Nat
      BY <2>1, <2>2 DEF pageVars, timeVars
    <3> QED
      BY <2>1, <2>2, <3>1, <3>2 DEF flagVars, pageVars, timeVars
  <2>4. SectionsFit' /\ Alone' /\ Shown'
    BY <2>1, <2>2 DEF flagVars, pageVars, timeVars
  <2>5. ~On'
    BY <2>1, <2>2 DEF flagVars
  <2> QED
    BY <2>3, <2>4, <2>5
<1>4. CASE RosCheck \/ RosLoad \/ RosBegin
  <2>1. CASE RosCheck
    BY <2>1 DEF RosCheck, flagVars, pageVars, timeVars
  <2>2. CASE RosLoad
    BY <2>2 DEF RosLoad, flagVars, timeVars
  <2>3. CASE RosBegin
    BY <2>3 DEF RosBegin, timeVars
  <2> QED
    BY <1>4, <2>1, <2>2, <2>3
<1>5. CASE Stop
  <2>1. stop' /\ UNCHANGED <<enabled, playing, first, pageVars, timeVars, rosVars, cursor, pc>>
    BY <1>5 DEF Stop
  <2>2. TypeOK'
    BY <1>5, <2>1 DEF Stop, pageVars, timeVars, rosVars
  <2>3. SectionsFit' /\ Alone' /\ Shown' /\ Following'
    BY <2>1 DEF pageVars, timeVars, rosVars
  <2> QED
    BY <2>1, <2>2, <2>3
<1>6. CASE Brake
  <2>1. playing' = FALSE /\ ros = "idle"
        /\ UNCHANGED <<enabled, first, stop, pageVars, timeVars, rosVars, cursor, pc>>
    BY <1>6 DEF Brake
  <2>2. TypeOK'
    BY <2>1 DEF pageVars, timeVars, rosVars
  <2>3. SectionsFit' /\ Alone' /\ Shown'
    BY <2>1 DEF pageVars, timeVars, rosVars
  <2>4. Following'
    BY <2>1 DEF pageVars, timeVars, rosVars
  <2>5. Counted'
    BY <2>1 DEF pageVars, timeVars, rosVars
  <2> QED
    BY <2>2, <2>3, <2>4, <2>5
<1>7. CASE Enable
  BY <1>7 DEF Enable, pageVars, timeVars, rosVars
<1>8. CASE Disable
  <2>1. playing' = FALSE /\ enabled' = FALSE
        /\ UNCHANGED <<first, stop, pageVars, timeVars, rosVars, cursor, pc>>
    BY <1>8 DEF Disable
  <2>2. TypeOK'
    BY <2>1 DEF pageVars, timeVars, rosVars
  <2>3. SectionsFit' /\ Alone' /\ Shown'
    BY <2>1 DEF pageVars, timeVars, rosVars
  <2>4. Following'
    BY <2>1 DEF pageVars, timeVars, rosVars
  <2>5. Counted'
    BY <2>1 DEF pageVars, timeVars, rosVars
  <2> QED
    BY <2>2, <2>3, <2>4, <2>5
<1> QED
  BY <1>1, <1>2, <1>3, <1>4, <1>5, <1>6, <1>7, <1>8 DEF Client

\* IInv is inductive when no client commands a start while a page is played.
LEMMA InvNext == ASSUME ~Impatient PROVE IInv /\ [Next]_vars => IInv'
<1>1. IInv /\ UNCHANGED vars => IInv'
  BY DEF IInv, TypeOK, SectionsFit, Alone, Shown, On, Following, Chosen, Counted,
         vars, flagVars, pageVars, timeVars, rosVars
<1> QED
  BY <1>1, TimerSteps, ClientSteps DEF Next

LEMMA Invariant == ASSUME ~Impatient PROVE Spec => []IInv
BY InvInit, InvNext, PTL DEF Spec

----------------------------------------------------------------------------
(* What the module promises.                                               *)

\* Every count stays in its range and the step whose parameters are computed is
\* a step of the page that is played, through every turn to another page.
THEOREM StepsInBounds == ASSUME ~Impatient PROVE Spec => []InBounds
<1>1. IInv => InBounds
  BY DEF IInv, InBounds, StepInPage, TypeOK, Following, On
<1> QED
  BY <1>1, Invariant, PTL

\* A page that is not stopped is left for another exactly when it has been played
\* as often as its header says, the byte that counts down included.
THEOREM RepeatsHonoured == ASSUME ~Impatient PROVE Spec => RepeatHonoured
<1> DEFINE Honoured ==
      pc = "pre" /\ pc' \in {"seek", "prepare"} /\ step' = Steps(page')
        /\ ~stop /\ Page[page'].next # number'
      => (nextNumber' # number' <=> passes' = Page[page'].repeat)
<1>1. ASSUME IInv, IInv', Next PROVE Honoured
  <2> SUFFICES ASSUME pc = "pre", pc' \in {"seek", "prepare"}, step' = Steps(page'),
                      ~stop, Page[page'].next # number'
               PROVE  nextNumber' # number' <=> passes' = Page[page'].repeat
    OBVIOUS
  <2>1. NextStep
    BY <1>1 DEF Next, Timer, Client, Begin, FirstDriving, Ongoing, ChangeSection, Finish,
                Seek, Read, Prepare, StartRequest, RosSeek, RosRead, RosCheck, RosLoad,
                RosBegin, Stop, Brake, Enable, Disable
  <2>2. Page[page'].repeat \in Nat /\ passes' \in Nat /\ repeat' \in Nat
    <3>1. page' \in Pages /\ passes' \in Nat /\ repeat' \in 0 .. 255
      BY <1>1 DEF IInv, TypeOK
    <3> QED
      BY <3>1, PageTyped
  <2>3. ~stop' /\ pc' \in {"seek", "prepare"} /\ step' = Steps(page')
    BY <2>1 DEF NextStep, flagVars
  <2>4. /\ passes' + repeat' = Page[page'].repeat
        /\ nextNumber' = number' => repeat' > 0
    BY <1>1, <2>3 DEF IInv, Counted, On, Shown
  <2>5. nextNumber' # number' => repeat' = 0
    <3>1. PICK r : /\ repeat' = (r + 255) % 256
                   /\ nextNumber' = NextAfter(page', number', r)
      <4> DEFINE turned == Turns(step + 1, page)
                 r == IF turned /\ number # nextNumber
                      THEN Page[IF turned THEN nextPage ELSE page].repeat ELSE repeat
      <4> WITNESS r
      <4>1. step' = Steps(page') => /\ repeat' = (r + 255) % 256
                                   /\ nextNumber' = NextAfter(page', number', r)
        BY <2>1 DEF NextStep
      <4> QED
        BY <4>1
    <3>2. (r + 255) % 256 \in Nat
      BY <2>2, <3>1
    <3> QED
      BY <3>1, <3>2 DEF NextAfter
  <2> QED
    BY <2>2, <2>4, <2>5
<1>2. IInv /\ IInv' /\ [Next]_vars => [Honoured]_vars
  BY <1>1
<1> QED
  BY <1>2, Invariant, PTL DEF Spec, RepeatHonoured
==============================================================================
