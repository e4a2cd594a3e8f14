--------------------------- MODULE AesdServerProofs ---------------------------
(***************************************************************************)
(* Proofs about the server built for the data file, for any number of      *)
(* connections, packets and signals.                                       *)
(***************************************************************************)
EXTENDS AesdServerSpec, SequenceTheorems, FiniteSetTheorems, TLAPS

-----------------------------------------------------------------------------
(* Types and the shape of the stacks. *)

MainLabels == {"accept", "accepted", "lock_list", "create", "insert"}
WorkerLabels == {"start", "loop", "recv", "end", "w_lock", "w_open", "w_write", "w_close",
                 "d_lock", "d_open", "d_read"}
HandlerLabels == {"a_lock", "a_open", "a_text", "a_newline", "a_close", "q_quit", "q_join"}

FrameSet == [at : Labels, f : Fd \cup {0}, off : Nat, e : Conn \cup {Free},
             sig : {"ALRM", "TERM", "INT", Free}]

(* A label that fits frame i of n of thread t. *)
Fits(t, i, n, label) ==
  /\ i < n => label \in HandlerLabels
  /\ i = n /\ t = Main => label \in MainLabels
  /\ i = n /\ t # Main => label \in WorkerLabels

(* A thread's own code is at the bottom of its stack, handlers above it,   *)
(* and the main thread always has its own code.                            *)
Stacks ==
  /\ stack \in [Thread -> Seq(FrameSet)]
  /\ stack[Main] # << >>
  /\ \A t \in Thread : \A i \in 1 .. Len(stack[t]) :
       Fits(t, i, Len(stack[t]), stack[t][i].at)

Types ==
  /\ alive \in BOOLEAN /\ should_quit \in BOOLEAN
  /\ linked_list_mutex \in {Main, Free} /\ file_mutex \in Thread \cup {Free}
  /\ list \in Seq(Conn \cup {Free})
  /\ node \in [Conn -> {"none", "live", "freed"}]
  /\ thread \in [Conn -> {"none", "running", "done", "joined"}]
  /\ fdtab \in [Fd -> Conn \cup {Free, "listen", "write", "read"}]
  /\ fd \in [Conn -> Fd \cup {0}]
  /\ client \in [Conn -> {"out", "connected", "gone"}]
  /\ file \in Seq(Thread \X Nat)
  /\ sent \in [Conn -> Nat]
  /\ alarms \in Nat /\ quits \in Nat

-----------------------------------------------------------------------------
(* Stacks as sequences. *)

(* Replacing the first element of a sequence. *)
LEMMA ReplaceFirst ==
  ASSUME NEW S, NEW s \in Seq(S), s # << >>, NEW x \in S
  PROVE  /\ <<x>> \o Tail(s) \in Seq(S)
         /\ Len(<<x>> \o Tail(s)) = Len(s)
         /\ (<<x>> \o Tail(s))[1] = x
         /\ \A i \in 2 .. Len(s) : (<<x>> \o Tail(s))[i] = s[i]
  <1>1. /\ Tail(s) \in Seq(S) /\ Len(Tail(s)) = Len(s) - 1
        /\ \A i \in 1 .. Len(Tail(s)) : Tail(s)[i] = s[i + 1]
        /\ Len(s) \in Nat \ {0}
    BY HeadTailProperties, EmptySeq
  <1>2. <<x>> \in Seq(S) /\ Len(<<x>>) = 1 /\ <<x>>[1] = x
    OBVIOUS
  <1>3. /\ <<x>> \o Tail(s) \in Seq(S)
        /\ Len(<<x>> \o Tail(s)) = 1 + Len(Tail(s))
        /\ \A i \in 1 .. 1 + Len(Tail(s)) :
             (<<x>> \o Tail(s))[i] = IF i <= 1 THEN <<x>>[i] ELSE Tail(s)[i - 1]
    BY <1>1, <1>2, ConcatProperties
  <1>4. \A i \in 2 .. Len(s) : (<<x>> \o Tail(s))[i] = s[i]
    BY <1>1, <1>3
  <1> QED
    BY <1>1, <1>2, <1>3, <1>4

(* Putting an element before a sequence. *)
LEMMA PushFirst ==
  ASSUME NEW S, NEW s \in Seq(S), NEW x \in S
  PROVE  /\ <<x>> \o s \in Seq(S)
         /\ Len(<<x>> \o s) = Len(s) + 1
         /\ (<<x>> \o s)[1] = x
         /\ \A i \in 2 .. Len(s) + 1 : (<<x>> \o s)[i] = s[i - 1]
  <1>1. <<x>> \in Seq(S) /\ Len(<<x>>) = 1 /\ <<x>>[1] = x
    OBVIOUS
  <1>2. Len(s) \in Nat
    BY LenProperties
  <1>3. /\ <<x>> \o s \in Seq(S)
        /\ Len(<<x>> \o s) = 1 + Len(s)
        /\ \A i \in 1 .. 1 + Len(s) : (<<x>> \o s)[i] = IF i <= 1 THEN <<x>>[i] ELSE s[i - 1]
    BY <1>1, ConcatProperties
  <1> QED
    BY <1>1, <1>2, <1>3

(* The first element. *)
LEMMA FirstOf ==
  ASSUME NEW S, NEW s \in Seq(S), s # << >>
  PROVE  Head(s) = s[1] /\ Head(s) \in S /\ Len(s) \in Nat \ {0}
  BY EmptySeq, HeadTailProperties

-----------------------------------------------------------------------------
(* What the operations on stacks do, frame by frame. *)

(* The top frame of t is replaced. *)
Moved(t, fr) ==
  /\ stack' \in [Thread -> Seq(FrameSet)]
  /\ \A u \in Thread \ {t} : stack'[u] = stack[u]
  /\ Len(stack[t]) \in Nat \ {0} /\ Len(stack'[t]) = Len(stack[t])
  /\ stack'[t][1] = fr
  /\ \A i \in 2 .. Len(stack[t]) : stack'[t][i] = stack[t][i]

(* A signal interrupts t. *)
Pushed(t, fr) ==
  /\ stack' \in [Thread -> Seq(FrameSet)]
  /\ \A u \in Thread \ {t} : stack'[u] = stack[u]
  /\ Len(stack[t]) \in Nat \ {0} /\ Len(stack'[t]) = Len(stack[t]) + 1
  /\ stack'[t][1] = fr
  /\ \A i \in 2 .. Len(stack[t]) + 1 : stack'[t][i] = stack[t][i - 1]

(* The top frame of t returns. *)
Popped(t) ==
  /\ stack' \in [Thread -> Seq(FrameSet)]
  /\ \A u \in Thread \ {t} : stack'[u] = stack[u]
  /\ Len(stack[t]) \in Nat \ {0} /\ Len(stack'[t]) = Len(stack[t]) - 1
  /\ \A i \in 1 .. Len(stack[t]) - 1 : stack'[t][i] = stack[t][i + 1]

(* What it means to be somewhere: the top frame, and whose code it can be. *)
LEMMA AtTop ==
  ASSUME Stacks, NEW t \in Thread, NEW label, At(t, label)
  PROVE  /\ alive
         /\ stack[t] \in Seq(FrameSet) /\ stack[t] # << >>
         /\ Len(stack[t]) \in Nat \ {0}
         /\ Top(t) = stack[t][1] /\ Top(t) \in FrameSet /\ Top(t).at = label
         /\ label \in HandlerLabels => Len(stack[t]) > 1
         /\ label \in MainLabels => Len(stack[t]) = 1 /\ t = Main
         /\ label \in WorkerLabels => Len(stack[t]) = 1 /\ t \in Conn
  <1>1. stack[t] \in Seq(FrameSet) /\ stack[t] # << >> /\ alive /\ Top(t).at = label
    BY DEF At, Stacks
  <1>2. Top(t) = stack[t][1] /\ Top(t) \in FrameSet /\ Len(stack[t]) \in Nat \ {0}
    BY <1>1, FirstOf DEF Top
  <1>3. Fits(t, 1, Len(stack[t]), stack[t][1].at)
    BY <1>2 DEF Stacks
  <1>4. /\ HandlerLabels \cap MainLabels = {} /\ HandlerLabels \cap WorkerLabels = {}
        /\ MainLabels \cap WorkerLabels = {}
    BY DEF HandlerLabels, MainLabels, WorkerLabels
  <1>5. Len(stack[t]) = 1 \/ 1 < Len(stack[t])
    <2>1. \A n \in Nat \ {0} : n = 1 \/ 1 < n
      OBVIOUS
    <2> QED
      BY <1>2, <2>1
  <1>6. t = Main \/ t \in Conn
    BY DEF Thread
  <1>7. label \in HandlerLabels => Len(stack[t]) > 1
    BY <1>1, <1>2, <1>3, <1>4, <1>5 DEF Fits
  <1>8. label \in MainLabels => Len(stack[t]) = 1 /\ t = Main
    BY <1>1, <1>2, <1>3, <1>4, <1>5 DEF Fits
  <1>9. label \in WorkerLabels => Len(stack[t]) = 1 /\ t \in Conn
    BY <1>1, <1>2, <1>3, <1>4, <1>5, <1>6 DEF Fits
  <1> QED
    BY <1>1, <1>2, <1>7, <1>8, <1>9

(* Replacing the top frame leaves the frames below it. *)
LEMMA BecomesMoves ==
  ASSUME Stacks, NEW t \in Thread, stack[t] # << >>, NEW fr \in FrameSet, Becomes(t, fr)
  PROVE  Moved(t, fr)
  <1>1. stack[t] \in Seq(FrameSet) /\ Len(stack[t]) \in Nat \ {0}
    BY FirstOf DEF Stacks
  <1>2. /\ stack' = [stack EXCEPT ![t] = <<fr>> \o Tail(stack[t])]
        /\ stack \in [Thread -> Seq(FrameSet)]
    BY DEF Becomes, Stacks
  <1> DEFINE new == <<fr>> \o Tail(stack[t])
  <1>3. /\ new \in Seq(FrameSet)
        /\ Len(new) = Len(stack[t]) /\ new[1] = fr
        /\ \A i \in 2 .. Len(stack[t]) : new[i] = stack[t][i]
    BY <1>1, ReplaceFirst
  <1> HIDE DEF new
  <1>4. stack' = [stack EXCEPT ![t] = new]
    BY <1>2 DEF new
  <1> QED
    BY <1>1, <1>2, <1>3, <1>4 DEF Moved

(* Going to another place keeps the other fields of the frame. *)
LEMMA GoMoves ==
  ASSUME Stacks, NEW t \in Thread, NEW here, At(t, here), NEW label \in Labels, Go(t, label)
  PROVE  Moved(t, [stack[t][1] EXCEPT !.at = label])
  <1>1. stack[t] # << >> /\ Top(t) = stack[t][1] /\ Top(t) \in FrameSet
    BY AtTop
  <1>2. [Top(t) EXCEPT !.at = label] \in FrameSet
    BY <1>1 DEF FrameSet
  <1> QED
    BY <1>1, <1>2, BecomesMoves DEF Go

(* A return takes the top frame away and nothing else. *)
LEMMA ReturnPops ==
  ASSUME Stacks, NEW t \in Thread, stack[t] # << >>, Return(t)
  PROVE  Popped(t)
  <1>1. /\ stack[t] \in Seq(FrameSet) /\ stack \in [Thread -> Seq(FrameSet)]
        /\ stack' = [stack EXCEPT ![t] = Tail(stack[t])]
    BY DEF Return, Stacks
  <1>2. /\ Len(stack[t]) \in Nat \ {0}
        /\ Tail(stack[t]) \in Seq(FrameSet) /\ Len(Tail(stack[t])) = Len(stack[t]) - 1
        /\ \A i \in 1 .. Len(stack[t]) - 1 : Tail(stack[t])[i] = stack[t][i + 1]
    BY <1>1, FirstOf, HeadTailProperties
  <1> DEFINE new == Tail(stack[t])
  <1>3. stack' = [stack EXCEPT ![t] = new] /\ new \in Seq(FrameSet)
        /\ Len(new) = Len(stack[t]) - 1 /\ \A i \in 1 .. Len(stack[t]) - 1 : new[i] = stack[t][i + 1]
    BY <1>1, <1>2
  <1> HIDE DEF new
  <1> QED
    BY <1>1, <1>2, <1>3 DEF Popped

(* A handler comes on top of the frames that are there. *)
LEMMA PushPushes ==
  ASSUME Stacks, NEW t \in Thread, stack[t] # << >>, NEW fr \in FrameSet,
         stack' = [stack EXCEPT ![t] = <<fr>> \o @]
  PROVE  Pushed(t, fr)
  <1>1. /\ stack[t] \in Seq(FrameSet) /\ stack \in [Thread -> Seq(FrameSet)]
        /\ Len(stack[t]) \in Nat \ {0}
    BY FirstOf DEF Stacks
  <1> DEFINE new == <<fr>> \o stack[t]
  <1>2. /\ stack' = [stack EXCEPT ![t] = new] /\ new \in Seq(FrameSet)
        /\ Len(new) = Len(stack[t]) + 1 /\ new[1] = fr
        /\ \A i \in 2 .. Len(stack[t]) + 1 : new[i] = stack[t][i - 1]
    BY <1>1, PushFirst
  <1> HIDE DEF new
  <1> QED
    BY <1>1, <1>2 DEF Pushed

(* The main thread goes on to insert the node c; thread c starts. *)
Created(c) ==
  /\ stack' \in [Thread -> Seq(FrameSet)]
  /\ \A u \in Thread \ {Main, c} : stack'[u] = stack[u]
  /\ Len(stack'[Main]) = 1 /\ Len(stack[Main]) = 1
  /\ stack'[Main][1] = [stack[Main][1] EXCEPT !.at = "insert"]
  /\ Len(stack'[c]) = 1 /\ stack'[c][1] = Frame("start", c, Free)

(* pthread_create moves the accept loop on and gives the new thread its     *)
(* first frame.                                                             *)
LEMMA CreateCreates ==
  ASSUME Stacks, At(Main, "create"), Top(Main).e \in Conn,
         stack' = [stack EXCEPT ![Main] = <<[Top(Main) EXCEPT !.at = "insert"]>> \o Tail(@),
                                ![Top(Main).e] = <<Frame("start", Top(Main).e, Free)>>]
  PROVE  Created(Top(Main).e)
  <1> DEFINE c == Top(Main).e
             fr == [Top(Main) EXCEPT !.at = "insert"]
             new == <<fr>> \o Tail(stack[Main])
             start == <<Frame("start", c, Free)>>
  <1>1. /\ stack[Main] \in Seq(FrameSet) /\ stack[Main] # << >> /\ Len(stack[Main]) = 1
        /\ Top(Main) = stack[Main][1] /\ Top(Main) \in FrameSet
    BY AtTop DEF Thread, MainLabels
  <1>2. fr \in FrameSet
    BY <1>1 DEF FrameSet, Labels
  <1>3. new \in Seq(FrameSet) /\ Len(new) = Len(stack[Main]) /\ new[1] = fr
    BY <1>1, <1>2, ReplaceFirst
  <1>4. Frame("start", c, Free) \in FrameSet
    BY DEF Frame, FrameSet, Labels
  <1>5. start \in Seq(FrameSet) /\ Len(start) = 1 /\ start[1] = Frame("start", c, Free)
    BY <1>4
  <1>6. /\ c \in Conn /\ c # Main /\ Main \in Thread /\ c \in Thread
        /\ stack \in [Thread -> Seq(FrameSet)]
        /\ stack' = [stack EXCEPT ![Main] = new, ![c] = start]
    BY ServerAssumption DEF Thread, Stacks
  <1>7. fr = [stack[Main][1] EXCEPT !.at = "insert"]
    BY <1>1
  <1> HIDE DEF new, start, c, fr
  <1>8. /\ stack' \in [Thread -> Seq(FrameSet)]
        /\ \A u \in Thread \ {Main, c} : stack'[u] = stack[u]
        /\ stack'[Main] = new /\ stack'[c] = start
    BY <1>3, <1>5, <1>6
  <1>9. Created(c)
    BY <1>1, <1>3, <1>5, <1>7, <1>8 DEF Created
  <1> QED
    BY <1>9 DEF c

(* Each keeps the shape of the stacks, if the labels fit. *)
LEMMA CreatedStacks ==
  ASSUME Stacks, NEW c \in Conn, Created(c)
  PROVE  Stacks'
  <1>1. Main \in Thread /\ Main \notin Conn
    BY ServerAssumption DEF Thread
  <1>2. stack'[Main] # << >>
    BY <1>1 DEF Created
  <1>3. stack'[Main][1].at = "insert" /\ stack'[c][1].at = "start"
    <2>1. stack[Main][1] \in FrameSet
      BY <1>1, FirstOf DEF Stacks
    <2> QED
      BY <2>1 DEF Created, FrameSet, Frame
  <1>4. Fits(Main, 1, 1, "insert") /\ Fits(c, 1, 1, "start")
    BY <1>1 DEF Fits, MainLabels, WorkerLabels
  <1>5. ASSUME NEW u \in Thread, NEW i \in 1 .. Len(stack'[u])
        PROVE  Fits(u, i, Len(stack'[u]), stack'[u][i].at)
    <2>1. CASE u \notin {Main, c}
      BY <2>1 DEF Created, Stacks
    <2>2. CASE u \in {Main, c}
      <3> DEFINE n == Len(stack'[u])
      <3>1. i \in 1 .. n /\ n = 1
        BY <2>2 DEF Created
      <3> HIDE DEF n
      <3>2. i = 1
        BY <3>1
      <3> QED
        BY <1>3, <1>4, <2>2, <3>1, <3>2 DEF n
    <2> QED
      BY <2>1, <2>2
  <1> QED
    BY <1>2, <1>5 DEF Stacks, Created

(* A move keeps every frame in code of its own thread. *)
LEMMA MovedStacks ==
  ASSUME Stacks, NEW t \in Thread, NEW fr, Moved(t, fr),
         Fits(t, 1, Len(stack[t]), fr.at)
  PROVE  Stacks'
  <1>1. Main \in Thread
    BY DEF Thread
  <1>2. stack'[Main] # << >>
    BY <1>1 DEF Moved, Stacks
  <1>3. ASSUME NEW u \in Thread, NEW i \in 1 .. Len(stack'[u])
        PROVE  Fits(u, i, Len(stack'[u]), stack'[u][i].at)
    <2>1. CASE u # t
      BY <2>1 DEF Moved, Stacks
    <2>2. CASE u = t /\ i = 1
      BY <2>2 DEF Moved
    <2>3. CASE u = t /\ i # 1
      <3>1. stack'[t][i] = stack[t][i] /\ i \in 1 .. Len(stack[t]) /\ Len(stack'[t]) = Len(stack[t])
        BY <2>3 DEF Moved
      <3> QED
        BY <2>3, <3>1 DEF Stacks
    <2> QED
      BY <2>1, <2>2, <2>3
  <1> QED
    BY <1>2, <1>3 DEF Stacks, Moved

(* A handler on top keeps every frame in code of its own thread. *)
LEMMA PushedStacks ==
  ASSUME Stacks, NEW t \in Thread, NEW fr, Pushed(t, fr), fr.at \in HandlerLabels
  PROVE  Stacks'
  <1>1. Main \in Thread
    BY DEF Thread
  <1>2. stack'[Main] # << >>
    BY <1>1 DEF Pushed, Stacks
  <1>3. ASSUME NEW u \in Thread, NEW i \in 1 .. Len(stack'[u])
        PROVE  Fits(u, i, Len(stack'[u]), stack'[u][i].at)
    <2>1. CASE u # t
      BY <2>1 DEF Pushed, Stacks
    <2>2. CASE u = t
      <3> DEFINE s == stack[t]
                 n == stack'[t]
      <3>1. /\ Len(s) \in Nat \ {0} /\ Len(n) = Len(s) + 1 /\ n[1].at \in HandlerLabels
            /\ \A k \in 2 .. Len(s) + 1 : n[k] = s[k - 1]
            /\ \A k \in 1 .. Len(s) : Fits(t, k, Len(s), s[k].at)
            /\ i \in 1 .. Len(n)
        BY <2>2 DEF Pushed, Stacks
      <3> HIDE DEF s, n
      <3>2. CASE i = 1
        BY <3>1, <3>2, <2>2 DEF n, Fits
      <3>3. CASE i > 1
        <4>1. n[i] = s[i - 1] /\ i - 1 \in 1 .. Len(s) /\ Fits(t, i - 1, Len(s), s[i - 1].at)
          BY <3>1, <3>3
        <4>2. Fits(t, i, Len(n), n[i].at)
          BY <3>1, <4>1 DEF Fits
        <4> QED
          BY <4>2, <2>2 DEF n
      <3> QED
        BY <3>1, <3>2, <3>3
    <2> QED
      BY <2>1, <2>2
  <1> QED
    BY <1>2, <1>3 DEF Stacks, Pushed

(* So does a return, other than that of the accept loop. *)
LEMMA PoppedStacks ==
  ASSUME Stacks, NEW t \in Thread, Popped(t), t # Main \/ Len(stack[t]) > 1
  PROVE  Stacks'
  <1>1. Main \in Thread
    BY DEF Thread
  <1>2. stack'[Main] # << >>
    BY <1>1 DEF Popped, Stacks
  <1>3. ASSUME NEW u \in Thread, NEW i \in 1 .. Len(stack'[u])
        PROVE  Fits(u, i, Len(stack'[u]), stack'[u][i].at)
    <2>1. CASE u # t
      BY <2>1 DEF Popped, Stacks
    <2>2. CASE u = t
      <3> DEFINE s == stack[t]
                 n == stack'[t]
      <3>1. /\ Len(s) \in Nat \ {0} /\ Len(n) = Len(s) - 1
            /\ \A k \in 1 .. Len(s) - 1 : n[k] = s[k + 1]
            /\ \A k \in 1 .. Len(s) : Fits(t, k, Len(s), s[k].at)
            /\ i \in 1 .. Len(n)
        BY <2>2 DEF Popped, Stacks
      <3> HIDE DEF s, n
      <3>2. n[i] = s[i + 1] /\ i + 1 \in 1 .. Len(s) /\ Fits(t, i + 1, Len(s), s[i + 1].at)
        BY <3>1
      <3>3. Fits(t, i, Len(n), n[i].at)
        BY <3>1, <3>2 DEF Fits
      <3> QED
        BY <3>3, <2>2 DEF n
    <2> QED
      BY <2>1, <2>2
  <1> QED
    BY <1>2, <1>3 DEF Stacks, Popped

(* Where the frames come from when a frame is pushed or popped. *)
LEMMA PushedFrom ==
  ASSUME NEW t \in Thread, NEW fr, Pushed(t, fr), NEW u \in Thread, NEW i \in 1 .. Len(stack'[u])
  PROVE  \/ u = t /\ i = 1 /\ stack'[u][i] = fr
         \/ u = t /\ i - 1 \in 1 .. Len(stack[u]) /\ stack'[u][i] = stack[u][i - 1]
         \/ u # t /\ i \in 1 .. Len(stack[u]) /\ stack'[u][i] = stack[u][i]
  <1>1. CASE u # t
    BY <1>1 DEF Pushed
  <1>2. CASE u = t
    <2> DEFINE n == Len(stack[t])
               m == Len(stack'[t])
    <2>1. /\ n \in Nat \ {0} /\ m = n + 1 /\ i \in 1 .. m
          /\ stack'[t][1] = fr /\ \A x \in 2 .. n + 1 : stack'[t][x] = stack[t][x - 1]
      BY <1>2 DEF Pushed
    <2> HIDE DEF n, m
    <2>2. i = 1 \/ (i \in 2 .. n + 1 /\ i - 1 \in 1 .. n)
      BY <2>1
    <2> QED
      BY <1>2, <2>1, <2>2 DEF n
  <1> QED
    BY <1>1, <1>2

(* Where a frame was before a return. *)
LEMMA PoppedFrom ==
  ASSUME NEW t \in Thread, Popped(t), NEW u \in Thread, NEW i \in 1 .. Len(stack'[u])
  PROVE  /\ 1 \in 1 .. Len(stack[t])
         /\ \/ u = t /\ i + 1 \in 1 .. Len(stack[u]) /\ stack'[u][i] = stack[u][i + 1] /\ i + 1 # 1
            \/ u # t /\ i \in 1 .. Len(stack[u]) /\ stack'[u][i] = stack[u][i]
  <1>0. 1 \in 1 .. Len(stack[t])
    BY DEF Popped
  <1>1. CASE u # t
    BY <1>0, <1>1 DEF Popped
  <1>2. CASE u = t
    <2> DEFINE n == Len(stack[t])
               m == Len(stack'[t])
    <2>1. /\ n \in Nat \ {0} /\ m = n - 1 /\ i \in 1 .. m
          /\ \A x \in 1 .. n - 1 : stack'[t][x] = stack[t][x + 1]
      BY <1>2 DEF Popped
    <2> HIDE DEF n, m
    <2>2. i \in 1 .. n - 1 /\ i + 1 \in 1 .. n /\ i + 1 # 1
      BY <2>1
    <2> QED
      BY <1>0, <1>2, <2>1, <2>2 DEF n
  <1> QED
    BY <1>1, <1>2

-----------------------------------------------------------------------------
(* Type correctness. *)

TypeInv == Types /\ Stacks

(* Descriptors are numbers; 0 stands for none. *)
LEMMA FdFacts == Fd \subseteq Nat /\ parent_fd \in Fd /\ 0 \notin Fd
  <1>1. Cardinality(Conn) \in Nat
    BY FS_CardinalityType, ServerAssumption
  <1> QED
    BY <1>1, ServerAssumption DEF Fd, parent_fd

(* A new frame is a frame. *)
LEMMA FrameType ==
  ASSUME NEW at \in Labels, NEW e \in Conn \cup {Free}, NEW sig \in {"ALRM", "TERM", "INT", Free}
  PROVE  Frame(at, e, sig) \in FrameSet
  BY DEF Frame, FrameSet

(* Which labels fit the top of a stack. *)
LEMMA FitsTop ==
  ASSUME NEW t \in Thread, NEW n \in Nat \ {0}, NEW label,
         \/ label \in MainLabels /\ n = 1 /\ t = Main
         \/ label \in WorkerLabels /\ n = 1 /\ t \in Conn
         \/ label \in HandlerLabels /\ n > 1
  PROVE  Fits(t, 1, n, label)
  BY ServerAssumption DEF Fits

(* The types hold when the server starts. *)
LEMMA InitTypes == Init => TypeInv
  <1> SUFFICES ASSUME Init PROVE TypeInv
    OBVIOUS
  <1>1. Types
    <2>1. fdtab \in [Fd -> Conn \cup {Free, "listen", "write", "read"}]
      BY DEF Init, Listening
    <2>2. list \in Seq(Conn \cup {Free}) /\ file \in Seq(Thread \X Nat)
      BY DEF Init
    <2>3. /\ fd \in [Conn -> Fd \cup {0}] /\ sent \in [Conn -> Nat]
          /\ node \in [Conn -> {"none", "live", "freed"}]
          /\ thread \in [Conn -> {"none", "running", "done", "joined"}]
          /\ client \in [Conn -> {"out", "connected", "gone"}]
      BY DEF Init
    <2> QED
      BY <2>1, <2>2, <2>3 DEF Init, Types
  <1>2. Frame("accept", Free, Free) \in FrameSet /\ Frame("accept", Free, Free).at = "accept"
    BY FrameType DEF Labels, Frame
  <1> DEFINE main == <<Frame("accept", Free, Free)>>
  <1>3. main \in Seq(FrameSet) /\ Len(main) = 1 /\ main[1].at = "accept" /\ main # << >>
    BY <1>2
  <1>4. /\ stack = [t \in Thread |-> IF t = Main THEN main ELSE << >>]
        /\ Len(<< >>) = 0 /\ << >> \in Seq(FrameSet)
    BY EmptySeq DEF Init
  <1> HIDE DEF main
  <1>5. stack \in [Thread -> Seq(FrameSet)] /\ stack[Main] # << >>
    BY <1>3, <1>4 DEF Thread
  <1>6. ASSUME NEW t \in Thread, NEW i \in 1 .. Len(stack[t])
        PROVE  Fits(t, i, Len(stack[t]), stack[t][i].at)
    <2>1. CASE t # Main
      <3>1. stack[t] = << >>
        BY <1>4, <2>1
      <3> QED
        BY <1>4, <3>1
    <2>2. CASE t = Main
      <3>1. stack[t] = main
        BY <1>4, <2>2
      <3>2. Fits(t, 1, 1, "accept")
        BY <2>2, FitsTop DEF MainLabels
      <3> DEFINE n == Len(stack[t])
      <3>3. i \in 1 .. n /\ n = 1
        BY <1>3, <3>1
      <3> HIDE DEF n
      <3>4. i = 1
        BY <3>3
      <3> QED
        BY <1>3, <3>1, <3>2, <3>4
    <2> QED
      BY <2>1, <2>2
  <1> QED
    BY <1>1, <1>5, <1>6 DEF TypeInv, Stacks

(* A step of t from one place of its code to another. *)
LEMMA GoTypes ==
  ASSUME Stacks, NEW t \in Thread, NEW here, At(t, here), NEW label \in Labels, Go(t, label),
         \/ here \in MainLabels /\ label \in MainLabels
         \/ here \in WorkerLabels /\ label \in WorkerLabels
         \/ here \in HandlerLabels /\ label \in HandlerLabels
  PROVE  Stacks'
  <1>1. Moved(t, [stack[t][1] EXCEPT !.at = label]) /\ [stack[t][1] EXCEPT !.at = label].at = label
    BY GoMoves, AtTop DEF FrameSet
  <1>2. Fits(t, 1, Len(stack[t]), label)
    BY AtTop, FitsTop
  <1> QED
    BY <1>1, <1>2, MovedStacks

(* A move inside the accept loop, a worker or a handler keeps the stacks in *)
(* order.                                                                   *)
LEMMA BecomesTypes ==
  ASSUME Stacks, NEW t \in Thread, NEW here, At(t, here), NEW fr \in FrameSet, Becomes(t, fr),
         \/ here \in MainLabels /\ fr.at \in MainLabels
         \/ here \in WorkerLabels /\ fr.at \in WorkerLabels
         \/ here \in HandlerLabels /\ fr.at \in HandlerLabels
  PROVE  Stacks'
  <1>1. Moved(t, fr)
    BY BecomesMoves, AtTop
  <1>2. Fits(t, 1, Len(stack[t]), fr.at)
    BY AtTop, FitsTop
  <1> QED
    BY <1>1, <1>2, MovedStacks

(* A step that leaves the stacks alone keeps them in order. *)
LEMMA SameTypes ==
  ASSUME Stacks, UNCHANGED stack
  PROVE  Stacks'
  BY DEF Stacks

USE DEF MainLabels, WorkerLabels, HandlerLabels, Labels

(* Creating a thread for no node creates none. *)
LEMMA CreateNothing ==
  ASSUME TypeInv, Top(Main).e = Free,
         thread' = [thread EXCEPT ![Top(Main).e] = "running"],
         stack' = [stack EXCEPT ![Main] = <<[Top(Main) EXCEPT !.at = "insert"]>> \o Tail(@),
                                ![Top(Main).e] = <<Frame("start", Top(Main).e, Free)>>]
  PROVE  Go(Main, "insert") /\ UNCHANGED thread
  <1>1. Free \notin Thread /\ Free \notin Conn
    BY ServerAssumption DEF Thread
  <1> DEFINE new == <<[Top(Main) EXCEPT !.at = "insert"]>> \o Tail(stack[Main])
             start == <<Frame("start", Top(Main).e, Free)>>
  <1>2. stack' = [stack EXCEPT ![Main] = new, ![Top(Main).e] = start] /\ DOMAIN stack = Thread
    BY DEF Stacks, TypeInv
  <1> HIDE DEF new, start
  <1>3. stack' = [stack EXCEPT ![Main] = new]
    BY <1>1, <1>2
  <1>4. UNCHANGED thread
    BY <1>1 DEF TypeInv, Types
  <1> QED
    BY <1>3, <1>4 DEF Go, Becomes, new

(* The accept loop. *)
LEMMA MainTypes ==
  ASSUME TypeInv, MainStep \/ \E c \in Conn : accept(c)
  PROVE  TypeInv'
  <1> USE DEF TypeInv
  <1>0. Main \in Thread /\ Stacks /\ Types
    BY DEF Thread
  <1>1. ASSUME NEW c \in Conn, accept(c) PROVE TypeInv'
    <2>1. Frame("accepted", c, Free) \in FrameSet /\ Frame("accepted", c, Free).at = "accepted"
      BY FrameType DEF Frame
    <2>2. Stacks'
      BY <1>0, <1>1, <2>1, BecomesTypes DEF accept
    <2>3. /\ client' \in [Conn -> {"out", "connected", "gone"}]
          /\ fd' \in [Conn -> Fd \cup {0}]
          /\ fdtab' \in [Fd -> Conn \cup {Free, "listen", "write", "read"}]
      <3>1. CASE UNCHANGED <<client, fd, fdtab>>
        BY <3>1, <1>0 DEF Types
      <3>2. CASE ~UNCHANGED <<client, fd, fdtab>>
        <4>1. PICK d \in Fd : fd' = [fd EXCEPT ![c] = d] /\ fdtab' = [fdtab EXCEPT ![d] = c]
          BY <1>1, <3>2 DEF accept
        <4>2. client' = [client EXCEPT ![c] = "connected"]
          BY <1>1, <3>2 DEF accept
        <4> QED
          BY <1>0, <4>1, <4>2 DEF Types
      <3> QED
        BY <3>1, <3>2
    <2>4. Types'
      BY <1>0, <1>1, <2>3 DEF accept, Types, control, nodes
    <2> QED
      BY <2>2, <2>4
  <1>2. CASE accept_closed
    <2>1. Stacks'
      BY <1>0, <1>2, GoTypes DEF accept_closed
    <2>2. Types'
      BY <1>2 DEF accept_closed, Types, control, nodes, files, world
    <2> QED
      BY <2>1, <2>2
  <1>3. CASE CheckQuit
    <2>1. Stacks'
      BY <1>0, <1>3, GoTypes DEF CheckQuit
    <2>2. Types'
      BY <1>3 DEF CheckQuit, Exit, Types, control, nodes, files, world
    <2> QED
      BY <2>1, <2>2
  <1>4. CASE LockList
    <2>1. Stacks'
      BY <1>0, <1>4, GoTypes DEF LockList
    <2>2. Types'
      BY <1>4 DEF LockList, Types, control, files, world
    <2> QED
      BY <2>1, <2>2
  <1>5. CASE pthread_create
    <2> DEFINE c == Top(Main).e
    <2>1. /\ stack[Main] # << >> /\ Top(Main) = stack[Main][1] /\ Top(Main) \in FrameSet
          /\ c \in Conn \cup {Free} /\ At(Main, "create")
      BY <1>0, <1>5, AtTop DEF pthread_create, FrameSet
    <2>2. Types'
      BY <1>5, <2>1 DEF pthread_create, Types, control, files, world
    <2>3. CASE Go(Main, "insert")
      <3>1. Stacks'
        BY <1>0, <2>1, <2>3, GoTypes
      <3> QED
        BY <2>2, <3>1
    <2>4. CASE ~Go(Main, "insert")
      <3>1. stack' = [stack EXCEPT ![Main] = <<[Top(Main) EXCEPT !.at = "insert"]>> \o Tail(@),
                                   ![c] = <<Frame("start", c, Free)>>]
        BY <1>5, <2>4 DEF pthread_create
      <3>2. CASE c \in Conn
        <4>1. Created(c)
          BY <2>1, <3>1, <3>2, CreateCreates
        <4>2. Stacks'
          BY <3>2, <4>1, CreatedStacks
        <4> QED
          BY <2>2, <4>2
      <3>3. CASE c = Free
        <4>1. Go(Main, "insert")
          BY <1>5, <2>4, <3>3, CreateNothing DEF pthread_create
        <4> QED
          BY <2>4, <4>1
      <3> QED
        BY <2>1, <3>2, <3>3
    <2> QED
      BY <2>3, <2>4
  <1>6. CASE InsertNode
    <2>1. Frame("accept", Free, Free) \in FrameSet /\ Frame("accept", Free, Free).at = "accept"
      BY FrameType DEF Frame
    <2>2. Stacks'
      BY <1>0, <1>6, <2>1, BecomesTypes DEF InsertNode
    <2>3. Top(Main).e \in Conn \cup {Free}
      BY <1>0, <1>6, AtTop DEF InsertNode, FrameSet
    <2>4. list' \in Seq(Conn \cup {Free})
      BY <1>6, <2>3 DEF InsertNode, Types
    <2>5. Types'
      BY <1>6, <2>4 DEF InsertNode, Exit, Types, control, files, world
    <2> QED
      BY <2>2, <2>5
  <1> QED
    BY <1>1, <1>2, <1>3, <1>4, <1>5, <1>6 DEF MainStep

(* The shared steps of workers and handlers. *)
LEMMA FileTypes ==
  ASSUME TypeInv, NEW t \in Thread, NEW label, NEW then \in Labels,
         \/ label \in WorkerLabels /\ then \in WorkerLabels
         \/ label \in HandlerLabels /\ then \in HandlerLabels,
         \/ LockFile(t, label, then)
         \/ \E mode \in {"write", "read"}, unlocks \in BOOLEAN : OpenFile(t, label, mode, then, unlocks)
         \/ \E item \in Thread \X Nat : WriteFile(t, label, item, then)
  PROVE  TypeInv'
  <1> USE DEF TypeInv
  <1>1. CASE LockFile(t, label, then)
    <2>1. Stacks'
      BY <1>1, GoTypes DEF LockFile
    <2>2. Types'
      BY <1>1 DEF LockFile, Types, control, nodes, files, world
    <2> QED
      BY <2>1, <2>2
  <1>2. ASSUME NEW mode \in {"write", "read"}, NEW unlocks \in BOOLEAN,
               OpenFile(t, label, mode, then, unlocks)
        PROVE  TypeInv'
    <2>1. Top(t) \in FrameSet /\ At(t, label)
      BY <1>2, AtTop DEF OpenFile
    <2>2. \A d \in Fd \cup {0} : /\ [Top(t) EXCEPT !.at = then, !.f = d] \in FrameSet
                               /\ [Top(t) EXCEPT !.at = then, !.f = d].at = then
      BY <2>1 DEF FrameSet
    <2>3. \E d \in Fd \cup {0} : Becomes(t, [Top(t) EXCEPT !.at = then, !.f = d])
      BY <1>2 DEF OpenFile
    <2>4. Stacks'
      BY <2>1, <2>2, <2>3, BecomesTypes
    <2>5. file_mutex' \in Thread \cup {Free}
      BY <1>2 DEF OpenFile, Types
    <2>6. fdtab' \in [Fd -> Conn \cup {Free, "listen", "write", "read"}]
      <3>1. CASE UNCHANGED fdtab
        BY <3>1 DEF Types
      <3>2. CASE ~UNCHANGED fdtab
        <4>1. PICK d \in Fd : fdtab' = [fdtab EXCEPT ![d] = mode]
          BY <1>2, <3>2 DEF OpenFile
        <4> QED
          BY <4>1 DEF Types
      <3> QED
        BY <3>1, <3>2
    <2>7. Types'
      BY <1>2, <2>5, <2>6 DEF OpenFile, Types, control, nodes, world
    <2> QED
      BY <2>4, <2>7
  <1>3. ASSUME NEW item \in Thread \X Nat, WriteFile(t, label, item, then) PROVE TypeInv'
    <2>1. Stacks'
      BY <1>3, GoTypes DEF WriteFile
    <2>2. file' \in Seq(Thread \X Nat)
      BY <1>3 DEF WriteFile, Types
    <2>3. Types'
      BY <1>3, <2>2 DEF WriteFile, Types, control, nodes, world
    <2> QED
      BY <2>1, <2>3
  <1> QED
    BY <1>1, <1>2, <1>3

(* Closing a descriptor keeps the table a table. *)
LEMMA ClosedType ==
  ASSUME Types, NEW d
  PROVE  Closed(d) \in [Fd -> Conn \cup {Free, "listen", "write", "read"}]
  BY DEF Closed, Types

(* The steps of a worker keep the types. *)
LEMMA WorkerTypes ==
  ASSUME TypeInv, NEW c \in Conn, WorkerStep(c) \/ recv(c)
  PROVE  TypeInv'
  <1> USE DEF TypeInv
  <1>0. c \in Thread
    BY DEF Thread
  <1>1. CASE WorkerStart(c)
    <2>1. Stacks'
      BY <1>0, <1>1, GoTypes DEF WorkerStart
    <2>2. Types'
      BY <1>1 DEF WorkerStart, Types, control, nodes, files, world
    <2> QED
      BY <2>1, <2>2
  <1>2. CASE WorkerLoop(c)
    <2>1. At(c, "loop") /\ \E label \in {"end", "recv"} : Go(c, label)
      BY <1>2 DEF WorkerLoop
    <2>2. Stacks'
      BY <1>0, <2>1, GoTypes
    <2>3. fdtab' \in [Fd -> Conn \cup {Free, "listen", "write", "read"}]
      BY <1>2, ClosedType DEF WorkerLoop, Types
    <2>4. Types'
      BY <1>2, <2>3 DEF WorkerLoop, Types, control, nodes, world
    <2> QED
      BY <2>2, <2>4
  <1>3. CASE recv(c)
    <2>1. At(c, "recv") /\ \E label \in {"loop", "w_lock"} : Go(c, label)
      BY <1>3 DEF recv
    <2>2. Stacks'
      BY <1>0, <2>1, GoTypes
    <2>3. sent' \in [Conn -> Nat]
      <3>1. sent' = sent \/ sent' = [sent EXCEPT ![c] = @ + 1]
        BY <1>3 DEF recv
      <3>2. sent \in [Conn -> Nat]
        BY DEF Types
      <3> QED
        BY <3>1, <3>2
    <2>4. Types'
      BY <1>3, <2>3 DEF recv, Types, control, nodes, files
    <2> QED
      BY <2>2, <2>4
  <1>4. CASE recv_end(c)
    <2>1. Stacks'
      BY <1>0, <1>4, GoTypes DEF recv_end
    <2>2. Types'
      BY <1>4 DEF recv_end, Types, control, nodes, files, world
    <2> QED
      BY <2>1, <2>2
  <1>5. CASE WorkerEnd(c)
    <2>1. stack[c] # << >> /\ c # Main /\ Return(c)
      BY <1>0, <1>5, AtTop, ServerAssumption DEF WorkerEnd
    <2>2. Stacks'
      BY <1>0, <2>1, ReturnPops, PoppedStacks
    <2>3. Types'
      BY <1>5, ClosedType DEF WorkerEnd, Types, control, world
    <2> QED
      BY <2>2, <2>3
  <1>6. CASE dump_buffer_to_file(c)
    <2>1. <<c, sent[c]>> \in Thread \X Nat
      BY <1>0 DEF Types
    <2>2. CASE WriteClose(c)
      <3>1. Frame("d_lock", c, Free) \in FrameSet /\ Frame("d_lock", c, Free).at = "d_lock"
        BY FrameType DEF Frame
      <3>2. Stacks'
        BY <1>0, <2>2, <3>1, BecomesTypes DEF WriteClose
      <3>3. Types'
        BY <2>2, ClosedType DEF WriteClose, Types, control, nodes, world
      <3> QED
        BY <3>2, <3>3
    <2> QED
      BY <1>0, <1>6, <2>1, <2>2, FileTypes DEF dump_buffer_to_file
  <1>7. CASE dump_file_to_socket(c)
    <2>1. CASE ReadAndSend(c)
      <3>1. CASE stack' = stack
        BY <2>1, <3>1, SameTypes DEF ReadAndSend, Exit, Types, control, nodes, world
      <3>2. CASE stack' # stack
        <4> DEFINE left == Len(file) - Top(c).off
                   n == IF left < ReadSize THEN left ELSE ReadSize
        <4>1. At(c, "d_read") /\ left > 0 /\ Becomes(c, [Top(c) EXCEPT !.off = @ + n]) /\ UNCHANGED control
          BY <2>1, <3>2 DEF ReadAndSend
        <4>2. Top(c) \in FrameSet /\ Top(c).at = "d_read"
          BY <1>0, <4>1, AtTop
        <4>3. Top(c).off \in Nat /\ Len(file) \in Nat
          BY <4>2, LenProperties DEF FrameSet, Types
        <4>4. Top(c).off + n \in Nat
          BY <4>1, <4>3, ServerAssumption
        <4> HIDE DEF n
        <4>5. [Top(c) EXCEPT !.off = @ + n] \in FrameSet /\ [Top(c) EXCEPT !.off = @ + n].at = "d_read"
          BY <4>2, <4>4 DEF FrameSet
        <4>6. Stacks'
          BY <1>0, <4>1, <4>5, BecomesTypes
        <4>7. Types'
          BY <2>1, <4>1 DEF ReadAndSend, Types, control, nodes, world
        <4> QED
          BY <4>6, <4>7
      <3> QED
        BY <3>1, <3>2
    <2>2. CASE ReadEnd(c)
      <3>1. Frame("loop", c, Free) \in FrameSet /\ Frame("loop", c, Free).at = "loop"
        BY FrameType DEF Frame
      <3>2. Stacks'
        BY <1>0, <2>2, <3>1, BecomesTypes DEF ReadEnd
      <3>3. Types'
        BY <2>2, ClosedType DEF ReadEnd, Types, control, nodes, world
      <3> QED
        BY <3>2, <3>3
    <2> QED
      BY <1>0, <1>7, <2>1, <2>2, FileTypes DEF dump_file_to_socket
  <1> QED
    BY <1>1, <1>2, <1>3, <1>4, <1>5, <1>6, <1>7 DEF WorkerStep

(* The element after another is an element, or none. *)
LEMMA AfterType ==
  ASSUME Types, NEW e
  PROVE  After(e) \in Conn \cup {Free}
  <1> DEFINE later == {i \in 2 .. Len(list) : list[i - 1] = e}
             i == CHOOSE j \in later : TRUE
  <1>1. CASE later = {}
    BY <1>1 DEF After
  <1>2. CASE later # {}
    <2>1. i \in later /\ Len(list) \in Nat
      BY <1>2, LenProperties DEF Types
    <2>2. i \in 1 .. Len(list) /\ After(e) = list[i]
      BY <1>2, <2>1 DEF After
    <2> HIDE DEF i
    <2> QED
      BY <2>2, ElementOfSeq DEF Types
  <1> QED
    BY <1>1, <1>2

(* The steps of the handlers keep the types. *)
LEMMA HandlerTypes ==
  ASSUME TypeInv, NEW t \in Thread, HandlerStep(t)
  PROVE  TypeInv'
  <1> USE DEF TypeInv
  <1>1. CASE print_time_to_file(t)
    <2>1. Stamp \in Thread \X Nat /\ Newline \in Thread \X Nat
      BY DEF Stamp, Newline, Thread
    <2>2. CASE At(t, "a_close") /\ Return(t) /\ fdtab' = Closed(Top(t).f) /\ file_mutex' = Free
               /\ UNCHANGED <<control, linked_list_mutex, nodes, file, out, world>>
      <3>1. stack[t] # << >> /\ Len(stack[t]) > 1
        BY <2>2, AtTop
      <3>2. Stacks'
        BY <2>2, <3>1, ReturnPops, PoppedStacks
      <3>3. Types'
        BY <2>2, ClosedType DEF Types, control, nodes, world
      <3> QED
        BY <3>2, <3>3
    <2> QED
      BY <1>1, <2>1, <2>2, FileTypes DEF print_time_to_file
  <1>2. CASE sigint_handler(t)
    <2> DEFINE fr == [Top(t) EXCEPT !.at = "q_join", !.e = First]
    <2>1. At(t, "q_quit") /\ Top(t) \in FrameSet /\ Becomes(t, fr)
      BY <1>2, AtTop DEF sigint_handler
    <2>2. First \in Conn \cup {Free}
      BY FirstOf DEF First, Types
    <2>3. fr \in FrameSet /\ fr.at = "q_join"
      BY <2>1, <2>2 DEF FrameSet
    <2> HIDE DEF fr
    <2>4. Stacks'
      BY <2>1, <2>3, BecomesTypes
    <2>5. Types'
      BY <1>2 DEF sigint_handler, Types, nodes, files, world
    <2> QED
      BY <2>4, <2>5
  <1>3. CASE JoinNode(t)
    <2> DEFINE fr == [Top(t) EXCEPT !.e = After(Top(t).e)]
    <2>1. At(t, "q_join") /\ Top(t) \in FrameSet /\ Top(t).at = "q_join" /\ Becomes(t, fr)
      BY <1>3, AtTop DEF JoinNode
    <2>2. After(Top(t).e) \in Conn \cup {Free}
      BY AfterType
    <2>3. fr \in FrameSet /\ fr.at = "q_join"
      BY <2>1, <2>2 DEF FrameSet
    <2> HIDE DEF fr
    <2>4. Stacks'
      BY <2>1, <2>3, BecomesTypes
    <2>5. thread' \in [Conn -> {"none", "running", "done", "joined"}]
      BY <1>3 DEF JoinNode, Types
    <2>6. Types'
      BY <1>3, <2>5, ClosedType DEF JoinNode, Types, control, world
    <2> QED
      BY <2>4, <2>6
  <1>4. CASE JoinCrash(t)
    BY <1>4, SameTypes DEF JoinCrash, Exit, Types, nodes, files, world
  <1>5. CASE FreeNodes(t)
    <2>1. At(t, "q_join") /\ stack[t] # << >> /\ Len(stack[t]) > 1 /\ Return(t)
      BY <1>5, AtTop DEF FreeNodes
    <2>2. Stacks'
      BY <2>1, ReturnPops, PoppedStacks
    <2>3. Types'
      BY <1>5, ClosedType DEF FreeNodes, Types, control, world
    <2> QED
      BY <2>2, <2>3
  <1> QED
    BY <1>1, <1>2, <1>3, <1>4, <1>5 DEF HandlerStep, cleanup

(* A signal puts the frame of its handler on some thread's stack. *)
LEMMA DeliverPushes ==
  ASSUME Stacks, NEW sig \in {"ALRM", "TERM", "INT"}, NEW label \in HandlerLabels, Deliver(sig, label)
  PROVE  \E t \in Thread :
           /\ alive /\ Pushed(t, Frame(label, Free, sig))
           /\ t = Main \/ Blocked(Main, sig)
           /\ ~Blocked(t, sig)
  <1>1. PICK t \in Thread :
          /\ alive /\ stack[t] # << >> /\ ~Blocked(t, sig)
          /\ t = Main \/ Blocked(Main, sig)
          /\ stack' = [stack EXCEPT ![t] = <<Frame(label, Free, sig)>> \o @]
    BY DEF Deliver
  <1>2. Frame(label, Free, sig) \in FrameSet
    BY FrameType
  <1> QED
    BY <1>1, <1>2, PushPushes

(* Signals and hangups keep the types. *)
LEMMA WorldTypes ==
  ASSUME TypeInv, SIGALRM \/ SIGTERM \/ \E c \in Conn : Hangup(c)
  PROVE  TypeInv'
  <1> USE DEF TypeInv
  <1>1. ASSUME NEW sig \in {"ALRM", "TERM", "INT"}, NEW label \in HandlerLabels, Deliver(sig, label)
        PROVE  Stacks'
    <2>1. PICK t \in Thread : Pushed(t, Frame(label, Free, sig))
      BY <1>1, DeliverPushes
    <2>2. Frame(label, Free, sig).at = label
      BY DEF Frame
    <2> QED
      BY <2>1, <2>2, PushedStacks
  <1>2. CASE SIGALRM
    <2>1. Stacks'
      BY <1>1, <1>2 DEF SIGALRM
    <2>2. Types'
      BY <1>2 DEF SIGALRM, Types, control, nodes, files
    <2> QED
      BY <2>1, <2>2
  <1>3. CASE SIGTERM
    <2>1. Stacks'
      BY <1>1, <1>3 DEF SIGTERM
    <2>2. Types'
      BY <1>3 DEF SIGTERM, Types, control, nodes, files
    <2> QED
      BY <2>1, <2>2
  <1>4. ASSUME NEW c \in Conn, Hangup(c) PROVE TypeInv'
    BY <1>4, SameTypes DEF Hangup, Types, control, nodes, files
  <1> QED
    BY <1>2, <1>3, <1>4

(* Every step keeps the types. *)
LEMMA NextTypes == TypeInv /\ [Next]_vars => TypeInv'
  <1> SUFFICES ASSUME TypeInv, [Next]_vars PROVE TypeInv'
    OBVIOUS
  <1>1. CASE UNCHANGED vars
    BY <1>1, SameTypes DEF vars, control, nodes, files, world, TypeInv, Types
  <1> QED
    BY <1>1, MainTypes, WorkerTypes, HandlerTypes, WorldTypes DEF Next

-----------------------------------------------------------------------------
(* Steps of one thread. *)

(* The top frame of t moves on. *)
Step(t, from, to) ==
  /\ alive /\ stack[t][1].at = from
  /\ stack[t][1] \in FrameSet /\ stack'[t][1] \in FrameSet
  /\ Moved(t, stack'[t][1])
  /\ stack'[t][1].at = to /\ stack'[t][1].sig \in {stack[t][1].sig, Free}

(* It keeps its node, or its descriptor. *)
SameNode(t) == stack'[t][1].e = stack[t][1].e
SameFile(t) == stack'[t][1].f = stack[t][1].f

(* Going somewhere is a step that keeps the node and the file of the frame. *)
LEMMA GoSteps ==
  ASSUME Stacks, NEW t \in Thread, NEW from, At(t, from), NEW to \in Labels, Go(t, to)
  PROVE  Step(t, from, to) /\ SameNode(t) /\ SameFile(t)
  <1> DEFINE fr == [stack[t][1] EXCEPT !.at = to]
  <1>1. alive /\ stack[t][1].at = from /\ stack[t][1] \in FrameSet
    BY AtTop
  <1>2. fr \in FrameSet /\ fr.at = to /\ fr.e = stack[t][1].e /\ fr.f = stack[t][1].f /\ fr.sig = stack[t][1].sig
    BY <1>1 DEF FrameSet
  <1>3. Moved(t, fr)
    BY GoMoves
  <1> HIDE DEF fr
  <1>4. stack'[t][1] = fr
    BY <1>3 DEF Moved
  <1> QED
    BY <1>1, <1>2, <1>3, <1>4 DEF Step, SameNode, SameFile

(* Replacing the top frame is a step of the thread. *)
LEMMA BecomesSteps ==
  ASSUME Stacks, NEW t \in Thread, NEW from, At(t, from), NEW fr \in FrameSet, Becomes(t, fr),
         fr.sig \in {stack[t][1].sig, Free}
  PROVE  Step(t, from, fr.at) /\ stack'[t][1] = fr
  <1>1. alive /\ stack[t][1].at = from /\ stack[t][1] \in FrameSet
    BY AtTop
  <1>2. Moved(t, fr)
    BY BecomesMoves, AtTop
  <1>3. stack'[t][1] = fr
    BY <1>2 DEF Moved
  <1> QED
    BY <1>1, <1>2, <1>3 DEF Step

(* The fields of a new frame. *)
LEMMA FrameFields ==
  ASSUME NEW at, NEW e, NEW sig
  PROVE  /\ Frame(at, e, sig).at = at /\ Frame(at, e, sig).e = e /\ Frame(at, e, sig).sig = sig
         /\ Frame(at, e, sig).f = 0
  BY DEF Frame

-----------------------------------------------------------------------------
(* What each step does to file_mutex and to the descriptors.               *)

FileLabels == {"w_open", "w_write", "w_close", "d_open", "d_read",
               "a_open", "a_text", "a_newline", "a_close"}
FileUse == <<file_mutex, fdtab, fd, client>>

MainMove ==
  /\ \E from, to \in MainLabels : Step(Main, from, to)
  /\ stack'[Main][1].f \in {0, stack[Main][1].f}
  /\ UNCHANGED <<FileUse, should_quit, thread>>

(* A connection gets a free descriptor, or accept has failed. *)
AcceptMove(c) ==
  /\ Step(Main, "accept", "accepted") /\ stack'[Main][1].f = 0
  /\ client[c] = "out"
  /\ \/ UNCHANGED <<fdtab, fd, client>>
     \/ \E d \in Fd : /\ fdtab[d] = Free
                      /\ fdtab' = [fdtab EXCEPT ![d] = c] /\ fd' = [fd EXCEPT ![c] = d]
                      /\ client' = [client EXCEPT ![c] = "connected"]
  /\ UNCHANGED <<file_mutex, should_quit, thread>>

CreateMove(c) ==
  /\ stack[Main][1].at = "create" /\ stack[Main][1].e = c /\ Created(c)
  /\ thread' = [thread EXCEPT ![c] = "running"]
  /\ UNCHANGED <<FileUse, should_quit>>

LockMove(t) ==
  /\ \E from \in {"w_lock", "d_lock", "a_lock"}, to \in {"w_open", "d_open", "a_open"} : Step(t, from, to)
  /\ SameFile(t)
  /\ file_mutex = Free /\ file_mutex' = t
  /\ UNCHANGED <<fdtab, fd, client, should_quit, thread>>

Mode(label) == IF label = "d_read" THEN "read" ELSE "write"

(* Opening the data file never fails. *)
OpensSucceed == Faults \cap {"w_open", "d_open", "a_open"} = {}

OpenMove(t) ==
  \E from \in {"w_open", "d_open", "a_open"}, to \in {"w_write", "d_read", "a_text"} :
    /\ Step(t, from, to)
    /\ \/ \E d \in Fd : /\ fdtab[d] = Free
                        /\ fdtab' = [fdtab EXCEPT ![d] = Mode(to)]
                        /\ stack'[t][1].f = d
                        /\ UNCHANGED file_mutex
       \/ from \in Faults /\ stack'[t][1].f = 0 /\ UNCHANGED fdtab
    /\ UNCHANGED <<fd, client, should_quit, thread>>

(* A step that stays inside the critical section, or outside it. *)
PlainMove(t) ==
  \E from, to \in WorkerLabels \cup HandlerLabels :
    /\ Step(t, from, to) /\ SameFile(t)
    /\ \/ from \in {"w_write", "a_text", "a_newline"} /\ to \in {"w_close", "a_newline", "a_close"}
       \/ from = "d_read" /\ to = "d_read"
       \/ from \in {"start", "loop", "recv"} /\ to \in {"loop", "recv", "end", "w_lock"}
    /\ UNCHANGED <<FileUse, should_quit, thread>>

LeaveMove(t) ==
  /\ \E from \in {"w_close", "d_read"}, to \in {"d_lock", "loop"} : Step(t, from, to)
  /\ stack'[t][1].f = 0
  /\ fdtab' = Closed(stack[t][1].f)
  /\ UNCHANGED <<fd, client, should_quit, thread>>

StampMove(t) ==
  /\ stack[t][1].at = "a_close" /\ Len(stack[t]) > 1 /\ Popped(t)
  /\ fdtab' = Closed(stack[t][1].f)
  /\ UNCHANGED <<fd, client, should_quit, thread>>

EndMove(c) ==
  /\ stack[c][1].at = "end" /\ Len(stack[c]) = 1 /\ Popped(c)
  /\ fdtab' = Closed(fd[c])
  /\ thread' = [thread EXCEPT ![c] = "done"]
  /\ UNCHANGED <<file_mutex, fd, client, should_quit>>

(* A step of the shutdown. *)
QuitMove(t) ==
  /\ \/ Popped(t) /\ stack[t][1].at = "q_join"
     \/ Step(t, "q_join", "q_join")
     \/ Step(t, "q_quit", "q_join") /\ should_quit'
     \/ Step(t, "loop", "end") /\ should_quit
  /\ should_quit => should_quit'
  /\ UNCHANGED file_mutex

SignalMove(t) ==
  /\ \E label \in {"a_lock", "q_quit"}, sig \in {"ALRM", "TERM", "INT"} : Pushed(t, Frame(label, Free, sig))
  /\ UNCHANGED <<FileUse, should_quit, thread>>

NoMove ==
  /\ UNCHANGED <<stack, file_mutex, fdtab, fd, should_quit, thread>>
  /\ \A c \in Conn : client'[c] = "out" => client[c] = "out"

FileStep ==
  \/ MainMove \/ NoMove
  \/ \E c \in Conn : AcceptMove(c) \/ CreateMove(c) \/ EndMove(c)
  \/ \E t \in Thread : \/ LockMove(t) \/ OpenMove(t) \/ PlainMove(t) \/ LeaveMove(t) \/ StampMove(t)
                       \/ QuitMove(t) \/ SignalMove(t)

(* What the accept loop does to the file, the descriptors and file_mutex. *)
LEMMA MainFileSteps ==
  ASSUME TypeInv, MainStep \/ \E c \in Conn : accept(c)
  PROVE  FileStep
  <1> USE DEF TypeInv
  <1>0. Main \in Thread /\ Stacks /\ Types
    BY DEF Thread
  <1>1. ASSUME NEW c \in Conn, accept(c) PROVE AcceptMove(c)
    <2> DEFINE fr == Frame("accepted", c, Free)
    <2>1. fr \in FrameSet /\ fr.at = "accepted" /\ fr.f = 0 /\ fr.sig = Free
      BY FrameType, FrameFields
    <2>2. At(Main, "accept") /\ Becomes(Main, fr)
      BY <1>1 DEF accept
    <2> HIDE DEF fr
    <2>3. Step(Main, "accept", "accepted") /\ stack'[Main][1] = fr
      BY <1>0, <2>1, <2>2, BecomesSteps
    <2>4. \/ UNCHANGED <<fdtab, fd, client>>
          \/ \E d \in Fd : /\ fdtab[d] = Free
                           /\ fdtab' = [fdtab EXCEPT ![d] = c] /\ fd' = [fd EXCEPT ![c] = d]
                           /\ client' = [client EXCEPT ![c] = "connected"]
      BY <1>1 DEF accept, Lowest
    <2>5. client[c] = "out" /\ UNCHANGED <<file_mutex, should_quit, thread>>
      BY <1>1 DEF accept, control, nodes
    <2> QED
      BY <2>1, <2>3, <2>4, <2>5 DEF AcceptMove
  <1>2. CASE accept_closed
    <2>1. Step(Main, "accept", "accepted") /\ SameFile(Main)
      BY <1>0, <1>2, GoSteps DEF accept_closed
    <2> QED
      BY <1>2, <2>1 DEF accept_closed, FileStep, MainMove, SameFile, FileUse, control, nodes, files, world
  <1>3. CASE CheckQuit
    <2>1. Step(Main, "accepted", "lock_list") /\ SameFile(Main)
      BY <1>0, <1>3, GoSteps DEF CheckQuit
    <2> QED
      BY <1>3, <2>1 DEF CheckQuit, Exit, FileStep, MainMove, SameFile, FileUse, control, nodes, files, world
  <1>4. CASE LockList
    <2>1. Step(Main, "lock_list", "create") /\ SameFile(Main)
      BY <1>0, <1>4, GoSteps DEF LockList
    <2> QED
      BY <1>4, <2>1 DEF LockList, FileStep, MainMove, SameFile, FileUse, control, files, world
  <1>5. CASE pthread_create
    <2> DEFINE c == Top(Main).e
    <2>1. At(Main, "create") /\ UNCHANGED <<FileUse, should_quit>>
      BY <1>5 DEF pthread_create, control, files, world, FileUse
    <2>2. /\ Top(Main) = stack[Main][1] /\ stack[Main][1].at = "create" /\ c \in Conn \cup {Free}
      BY <1>0, <2>1, AtTop DEF FrameSet
    <2>3. CASE Go(Main, "insert") /\ UNCHANGED thread
      <3>1. Step(Main, "create", "insert") /\ SameFile(Main)
        BY <1>0, <2>1, <2>3, GoSteps
      <3> QED
        BY <2>1, <2>3, <3>1 DEF FileStep, MainMove, SameFile
    <2>4. CASE /\ thread' = [thread EXCEPT ![c] = "running"]
               /\ stack' = [stack EXCEPT ![Main] = <<[Top(Main) EXCEPT !.at = "insert"]>> \o Tail(@),
                                         ![c] = <<Frame("start", c, Free)>>]
      <3>1. CASE c \in Conn
        <4>1. Created(c)
          BY <1>0, <2>1, <2>4, <3>1, CreateCreates
        <4> QED
          BY <2>1, <2>2, <2>4, <3>1, <4>1 DEF FileStep, CreateMove
      <3>2. CASE c = Free
        <4>1. Go(Main, "insert") /\ UNCHANGED thread
          BY <1>0, <2>4, <3>2, CreateNothing
        <4> QED
          BY <2>3, <4>1
      <3> QED
        BY <2>2, <3>1, <3>2
    <2> QED
      BY <1>5, <2>3, <2>4 DEF pthread_create
  <1>6. CASE InsertNode
    <2> DEFINE fr == Frame("accept", Free, Free)
    <2>1. fr \in FrameSet /\ fr.at = "accept" /\ fr.f = 0 /\ fr.sig = Free
      BY FrameType, FrameFields
    <2>2. At(Main, "insert") /\ Becomes(Main, fr)
      BY <1>6 DEF InsertNode
    <2> HIDE DEF fr
    <2>3. Step(Main, "insert", "accept") /\ stack'[Main][1] = fr
      BY <1>0, <2>1, <2>2, BecomesSteps
    <2> QED
      BY <1>6, <2>1, <2>3 DEF InsertNode, Exit, FileStep, MainMove, FileUse, control, files, world
  <1> QED
    BY <1>1, <1>2, <1>3, <1>4, <1>5, <1>6 DEF MainStep, FileStep

(* Locking file_mutex, from a worker or from the timestamp's handler. *)
LEMMA LockMoves ==
  ASSUME TypeInv, NEW t \in Thread, NEW from \in {"w_lock", "d_lock", "a_lock"},
         NEW to \in {"w_open", "d_open", "a_open"}, LockFile(t, from, to)
  PROVE  LockMove(t)
  <1>1. Step(t, from, to) /\ SameFile(t)
    BY GoSteps DEF LockFile, TypeInv
  <1> QED
    BY <1>1 DEF LockFile, LockMove, control, nodes, files, world

(* Opening the data file, or failing to. *)
LEMMA OpenMoves ==
  ASSUME TypeInv, NEW t \in Thread, NEW from \in {"w_open", "d_open", "a_open"},
         NEW to \in {"w_write", "d_read", "a_text"}, NEW unlocks \in BOOLEAN,
         OpenFile(t, from, Mode(to), to, unlocks)
  PROVE  OpenMove(t)
  <1>0. At(t, from)
    BY DEF OpenFile
  <1>1. At(t, from) /\ Top(t) = stack[t][1] /\ stack[t][1] \in FrameSet
    BY <1>0, AtTop DEF TypeInv
  <1>2. ASSUME NEW d \in Fd \cup {0}, Becomes(t, [Top(t) EXCEPT !.at = to, !.f = d])
        PROVE  Step(t, from, to) /\ stack'[t][1].f = d
    <2> DEFINE fr == [Top(t) EXCEPT !.at = to, !.f = d]
    <2>1. fr \in FrameSet /\ fr.at = to /\ fr.f = d /\ fr.sig = stack[t][1].sig
      BY <1>1 DEF FrameSet
    <2> HIDE DEF fr
    <2>2. Becomes(t, fr)
      BY <1>2 DEF fr
    <2> QED
      BY <1>1, <2>1, <2>2, BecomesSteps DEF TypeInv
  <1>3. UNCHANGED <<fd, client, should_quit, thread>>
    BY DEF OpenFile, control, nodes, world
  <1>4. CASE from \in Faults /\ Becomes(t, [Top(t) EXCEPT !.at = to, !.f = 0]) /\ UNCHANGED fdtab
    BY <1>2, <1>3, <1>4 DEF OpenMove
  <1>5. CASE ~(from \in Faults /\ Becomes(t, [Top(t) EXCEPT !.at = to, !.f = 0]) /\ UNCHANGED fdtab)
    <2>1. PICK d \in Fd : /\ fdtab[d] = Free
                          /\ fdtab' = [fdtab EXCEPT ![d] = Mode(to)]
                          /\ Becomes(t, [Top(t) EXCEPT !.at = to, !.f = d])
                          /\ UNCHANGED file_mutex
      BY <1>5 DEF OpenFile, Lowest
    <2>2. Step(t, from, to) /\ stack'[t][1].f = d
      BY <1>2, <2>1
    <2> HIDE DEF Mode
    <2> QED
      BY <1>3, <2>1, <2>2 DEF OpenMove
  <1> QED
    BY <1>4, <1>5

(* Writing to the data file. *)
LEMMA WriteMoves ==
  ASSUME TypeInv, NEW t \in Thread, NEW from \in {"w_write", "a_text", "a_newline"},
         NEW to \in {"w_close", "a_newline", "a_close"}, NEW item, WriteFile(t, from, item, to)
  PROVE  PlainMove(t)
  <1>1. Step(t, from, to) /\ SameFile(t)
    BY GoSteps DEF WriteFile, TypeInv
  <1> QED
    BY <1>1 DEF WriteFile, PlainMove, FileUse, control, nodes, world

(* What a worker does to the file, the descriptors and file_mutex. *)
LEMMA WorkerFileSteps ==
  ASSUME TypeInv, NEW c \in Conn, WorkerStep(c) \/ recv(c)
  PROVE  FileStep
  <1> USE DEF TypeInv
  <1>0. c \in Thread /\ Stacks /\ Types
    BY DEF Thread
  <1>1. CASE WorkerStart(c)
    <2>1. Step(c, "start", "loop") /\ SameFile(c)
      BY <1>0, <1>1, GoSteps DEF WorkerStart
    <2>2. PlainMove(c)
      BY <1>1, <2>1 DEF WorkerStart, PlainMove, FileUse, control, nodes, files, world
    <2> QED
      BY <1>0, <2>2 DEF FileStep
  <1>2. CASE WorkerLoop(c)
    <2>1. CASE should_quit
      <3>1. Step(c, "loop", "end")
        BY <1>0, <1>2, <2>1, GoSteps DEF WorkerLoop
      <3>2. QuitMove(c)
        BY <1>2, <2>1, <3>1 DEF WorkerLoop, QuitMove, control
      <3> QED
        BY <1>0, <3>2 DEF FileStep
    <2>2. CASE ~should_quit
      <3>1. Step(c, "loop", "recv") /\ SameFile(c)
        BY <1>0, <1>2, <2>2, GoSteps DEF WorkerLoop
      <3>2. PlainMove(c)
        BY <1>2, <2>2, <3>1 DEF WorkerLoop, PlainMove, FileUse, control, nodes, world
      <3> QED
        BY <1>0, <3>2 DEF FileStep
    <2> QED
      BY <2>1, <2>2
  <1>3. CASE recv(c)
    <2>1. At(c, "recv") /\ \E label \in {"loop", "w_lock"} : Go(c, label)
      BY <1>3 DEF recv
    <2>2. PICK label \in {"loop", "w_lock"} : Step(c, "recv", label) /\ SameFile(c)
      BY <1>0, <2>1, GoSteps
    <2>3. PlainMove(c)
      BY <1>3, <2>2 DEF recv, PlainMove, FileUse, control, nodes, files
    <2> QED
      BY <1>0, <2>3 DEF FileStep
  <1>4. CASE recv_end(c)
    <2>1. Step(c, "recv", "end") /\ SameFile(c)
      BY <1>0, <1>4, GoSteps DEF recv_end
    <2>2. PlainMove(c)
      BY <1>4, <2>1 DEF recv_end, PlainMove, FileUse, control, nodes, files, world
    <2> QED
      BY <1>0, <2>2 DEF FileStep
  <1>5. CASE WorkerEnd(c)
    <2>1. At(c, "end") /\ Return(c)
      BY <1>5 DEF WorkerEnd
    <2>2. stack[c] # << >> /\ Top(c) = stack[c][1] /\ Top(c).at = "end" /\ Len(stack[c]) = 1
      BY <1>0, <2>1, AtTop
    <2>3. Popped(c)
      BY <1>0, <2>1, <2>2, ReturnPops
    <2>4. EndMove(c)
      BY <1>5, <2>2, <2>3 DEF WorkerEnd, EndMove, control, world
    <2> QED
      BY <2>4 DEF FileStep
  <1>6. CASE dump_buffer_to_file(c)
    <2>1. CASE LockFile(c, "w_lock", "w_open")
      BY <1>0, <2>1, LockMoves DEF FileStep
    <2>2. CASE OpenFile(c, "w_open", "write", "w_write", TRUE)
      <3>1. Mode("w_write") = "write"
        BY DEF Mode
      <3> QED
        BY <1>0, <2>2, <3>1, OpenMoves DEF FileStep
    <2>3. CASE WriteFile(c, "w_write", <<c, sent[c]>>, "w_close")
      BY <1>0, <2>3, WriteMoves DEF FileStep
    <2>4. CASE WriteClose(c)
      <3> DEFINE fr == Frame("d_lock", c, Free)
      <3>1. fr \in FrameSet /\ fr.at = "d_lock" /\ fr.f = 0 /\ fr.sig = Free
        BY FrameType, FrameFields
      <3>2. At(c, "w_close") /\ Becomes(c, fr) /\ Top(c) = stack[c][1]
        BY <1>0, <2>4, AtTop DEF WriteClose
      <3> HIDE DEF fr
      <3>3. Step(c, "w_close", "d_lock") /\ stack'[c][1] = fr
        BY <1>0, <3>1, <3>2, BecomesSteps
      <3>4. LeaveMove(c)
        BY <2>4, <3>1, <3>2, <3>3 DEF WriteClose, LeaveMove, control, nodes, world
      <3> QED
        BY <1>0, <3>4 DEF FileStep
    <2> QED
      BY <1>6, <2>1, <2>2, <2>3, <2>4 DEF dump_buffer_to_file
  <1>7. CASE dump_file_to_socket(c)
    <2>1. CASE LockFile(c, "d_lock", "d_open")
      BY <1>0, <2>1, LockMoves DEF FileStep
    <2>2. CASE OpenFile(c, "d_open", "read", "d_read", TRUE)
      <3>1. Mode("d_read") = "read"
        BY DEF Mode
      <3> QED
        BY <1>0, <2>2, <3>1, OpenMoves DEF FileStep
    <2>3. CASE ReadAndSend(c)
      <3>0. UNCHANGED <<FileUse, should_quit, thread>>
        BY <2>3 DEF ReadAndSend, Exit, FileUse, control, nodes, world
      <3>1. CASE stack' = stack
        BY <3>0, <3>1 DEF FileStep, NoMove, FileUse
      <3>2. CASE stack' # stack
        <4> DEFINE left == Len(file) - Top(c).off
                   n == IF left < ReadSize THEN left ELSE ReadSize
                   fr == [Top(c) EXCEPT !.off = @ + n]
        <4>1. At(c, "d_read") /\ left > 0 /\ Becomes(c, fr)
          BY <2>3, <3>2 DEF ReadAndSend
        <4>2. Top(c) \in FrameSet /\ Top(c).at = "d_read" /\ Top(c) = stack[c][1]
          BY <1>0, <4>1, AtTop
        <4>3. Top(c).off \in Nat /\ Len(file) \in Nat
          BY <1>0, <4>2, LenProperties DEF FrameSet, Types
        <4>4. Top(c).off + n \in Nat
          BY <4>1, <4>3, ServerAssumption
        <4> HIDE DEF n
        <4>5. fr \in FrameSet /\ fr.at = "d_read" /\ fr.f = Top(c).f /\ fr.sig = Top(c).sig
          BY <4>2, <4>4 DEF FrameSet
        <4> HIDE DEF fr
        <4>6. Step(c, "d_read", "d_read") /\ stack'[c][1] = fr
          BY <1>0, <4>1, <4>2, <4>5, BecomesSteps
        <4>7. PlainMove(c)
          BY <3>0, <4>2, <4>5, <4>6 DEF PlainMove, SameFile
        <4> QED
          BY <1>0, <4>7 DEF FileStep
      <3> QED
        BY <3>1, <3>2
    <2>4. CASE ReadEnd(c)
      <3> DEFINE fr == Frame("loop", c, Free)
      <3>1. fr \in FrameSet /\ fr.at = "loop" /\ fr.f = 0 /\ fr.sig = Free
        BY FrameType, FrameFields
      <3>2. At(c, "d_read") /\ Becomes(c, fr) /\ Top(c) = stack[c][1]
        BY <1>0, <2>4, AtTop DEF ReadEnd
      <3> HIDE DEF fr
      <3>3. Step(c, "d_read", "loop") /\ stack'[c][1] = fr
        BY <1>0, <3>1, <3>2, BecomesSteps
      <3>4. LeaveMove(c)
        BY <2>4, <3>1, <3>2, <3>3 DEF ReadEnd, LeaveMove, control, nodes, world
      <3> QED
        BY <1>0, <3>4 DEF FileStep
    <2> QED
      BY <1>7, <2>1, <2>2, <2>3, <2>4 DEF dump_file_to_socket
  <1> QED
    BY <1>1, <1>2, <1>3, <1>4, <1>5, <1>6, <1>7 DEF WorkerStep

(* Joining a node is a step of cleanup to the next node. *)
LEMMA JoinMoves ==
  ASSUME TypeInv, NEW t \in Thread, JoinNode(t)
  PROVE  Step(t, "q_join", "q_join") /\ stack'[t][1].e = After(stack[t][1].e)
  <1> DEFINE fr == [Top(t) EXCEPT !.e = After(Top(t).e)]
  <1>1. At(t, "q_join") /\ Top(t) \in FrameSet /\ Top(t).at = "q_join" /\ Top(t) = stack[t][1] /\ Becomes(t, fr)
    BY AtTop DEF JoinNode, TypeInv
  <1>2. After(Top(t).e) \in Conn \cup {Free}
    BY AfterType DEF TypeInv
  <1>3. fr \in FrameSet /\ fr.at = "q_join" /\ fr.e = After(stack[t][1].e) /\ fr.sig = stack[t][1].sig
    BY <1>1, <1>2 DEF FrameSet
  <1> HIDE DEF fr
  <1> QED
    BY <1>1, <1>3, BecomesSteps DEF TypeInv

(* What the handlers do to the file, the descriptors and file_mutex. *)
LEMMA HandlerFileSteps ==
  ASSUME TypeInv, NEW t \in Thread, HandlerStep(t)
  PROVE  FileStep
  <1> USE DEF TypeInv
  <1>1. CASE print_time_to_file(t)
    <2>1. CASE LockFile(t, "a_lock", "a_open")
      BY <2>1, LockMoves DEF FileStep
    <2>2. CASE OpenFile(t, "a_open", "write", "a_text", FALSE)
      <3>1. Mode("a_text") = "write"
        BY DEF Mode
      <3> QED
        BY <2>2, <3>1, OpenMoves DEF FileStep
    <2>3. CASE WriteFile(t, "a_text", Stamp, "a_newline") \/ WriteFile(t, "a_newline", Newline, "a_close")
      BY <2>3, WriteMoves DEF FileStep
    <2>4. CASE At(t, "a_close") /\ Return(t) /\ fdtab' = Closed(Top(t).f) /\ file_mutex' = Free
               /\ UNCHANGED <<control, linked_list_mutex, nodes, file, out, world>>
      <3>1. stack[t] # << >> /\ Len(stack[t]) > 1 /\ Top(t) = stack[t][1] /\ Top(t).at = "a_close"
        BY <2>4, AtTop
      <3>2. Popped(t)
        BY <2>4, <3>1, ReturnPops
      <3>3. StampMove(t)
        BY <2>4, <3>1, <3>2 DEF StampMove, control, nodes, world
      <3> QED
        BY <3>3 DEF FileStep
    <2> QED
      BY <1>1, <2>1, <2>2, <2>3, <2>4 DEF print_time_to_file
  <1>2. CASE sigint_handler(t)
    <2> DEFINE fr == [Top(t) EXCEPT !.at = "q_join", !.e = First]
    <2>1. At(t, "q_quit") /\ Top(t) \in FrameSet /\ Top(t) = stack[t][1] /\ Becomes(t, fr)
      BY <1>2, AtTop DEF sigint_handler
    <2>2. First \in Conn \cup {Free}
      BY FirstOf DEF First, Types
    <2>3. fr \in FrameSet /\ fr.at = "q_join" /\ fr.sig = stack[t][1].sig
      BY <2>1, <2>2 DEF FrameSet
    <2> HIDE DEF fr
    <2>4. Step(t, "q_quit", "q_join")
      BY <2>1, <2>3, BecomesSteps
    <2>5. QuitMove(t)
      BY <1>2, <2>4 DEF sigint_handler, QuitMove
    <2> QED
      BY <2>5 DEF FileStep
  <1>3. CASE JoinNode(t)
    <2>1. At(t, "q_join") /\ Becomes(t, [Top(t) EXCEPT !.e = After(Top(t).e)])
          /\ UNCHANGED <<control, file_mutex>>
      BY <1>3 DEF JoinNode
    <2>2. Step(t, "q_join", "q_join")
      BY <1>3, JoinMoves
    <2>3. QuitMove(t)
      BY <2>1, <2>2 DEF QuitMove, control
    <2> QED
      BY <2>3 DEF FileStep
  <1>4. CASE JoinCrash(t)
    BY <1>4 DEF JoinCrash, Exit, FileStep, NoMove, nodes, files, world
  <1>5. CASE FreeNodes(t)
    <2>1. At(t, "q_join") /\ stack[t] # << >> /\ Top(t) = stack[t][1] /\ Top(t).at = "q_join" /\ Return(t)
      BY <1>5, AtTop DEF FreeNodes
    <2>2. Popped(t)
      BY <2>1, ReturnPops
    <2>3. QuitMove(t)
      BY <1>5, <2>1, <2>2 DEF FreeNodes, QuitMove, control
    <2> QED
      BY <2>3 DEF FileStep
  <1> QED
    BY <1>1, <1>2, <1>3, <1>4, <1>5 DEF HandlerStep, cleanup

(* Every step is one of these, as far as the file is concerned. *)
LEMMA FileSteps == TypeInv /\ [Next]_vars => FileStep
  <1> SUFFICES ASSUME TypeInv, [Next]_vars PROVE FileStep
    OBVIOUS
  <1>1. ASSUME NEW sig \in {"ALRM", "TERM", "INT"}, NEW label \in {"a_lock", "q_quit"}, Deliver(sig, label),
               UNCHANGED <<FileUse, should_quit, thread>>
        PROVE  FileStep
    <2>1. PICK t \in Thread : Pushed(t, Frame(label, Free, sig))
      BY <1>1, DeliverPushes DEF TypeInv
    <2>2. SignalMove(t)
      BY <1>1, <2>1 DEF SignalMove
    <2> QED
      BY <2>2 DEF FileStep
  <1>2. CASE SIGALRM
    BY <1>1, <1>2 DEF SIGALRM, control, nodes, files, FileUse
  <1>3. CASE SIGTERM
    BY <1>1, <1>3 DEF SIGTERM, control, nodes, files, FileUse
  <1>4. ASSUME NEW c \in Conn, Hangup(c) PROVE FileStep
    <2>1. \A x \in Conn : client'[x] = "out" => client[x] = "out"
      BY <1>4 DEF Hangup, TypeInv, Types
    <2> QED
      BY <1>4, <2>1 DEF Hangup, FileStep, NoMove, control, nodes, files
  <1>5. CASE UNCHANGED vars
    BY <1>5 DEF vars, control, nodes, files, world, FileStep, NoMove
  <1> QED
    BY <1>2, <1>3, <1>4, <1>5, MainFileSteps, WorkerFileSteps, HandlerFileSteps DEF Next

-----------------------------------------------------------------------------
(* What each step does to the threads, the list and its mutex.             *)

Keeps == UNCHANGED <<alive, should_quit, linked_list_mutex, list, node, thread, quits>>
NodeUse == <<list, node, thread>>

Busy == {"loop", "recv", "end", "w_lock", "w_open", "w_write", "w_close", "d_lock", "d_open", "d_read",
         "a_lock", "a_open", "a_text", "a_newline", "a_close"}

AcceptStep(c) == Step(Main, "accept", "accepted") /\ stack'[Main][1].e = c /\ node[c] = "none" /\ Keeps
ClosedStep == Step(Main, "accept", "accepted") /\ SameNode(Main) /\ fdtab[parent_fd] # "listen" /\ Keeps
CheckStep ==
  /\ Step(Main, "accepted", "lock_list") /\ SameNode(Main)
  /\ alive' = ~should_quit
  /\ UNCHANGED <<should_quit, linked_list_mutex, NodeUse, quits>>
LockStep ==
  /\ Step(Main, "lock_list", "create") /\ SameNode(Main)
  /\ linked_list_mutex = Free /\ linked_list_mutex' = Main
  /\ node' = [node EXCEPT ![stack[Main][1].e] = "live"]
  /\ UNCHANGED <<alive, should_quit, list, thread, quits>>
CreateStep(c) ==
  /\ alive /\ stack[Main][1].at = "create" /\ stack[Main][1].e = c /\ Created(c)
  /\ thread' = [thread EXCEPT ![c] = "running"]
  /\ UNCHANGED <<alive, should_quit, linked_list_mutex, list, node, quits>>
FailStep == Step(Main, "create", "insert") /\ SameNode(Main) /\ Keeps
InsertStep ==
  /\ Step(Main, "insert", "accept") /\ stack'[Main][1].e = Free
  /\ list' = Append(list, stack[Main][1].e)
  /\ alive' = ~should_quit
  /\ UNCHANGED <<should_quit, linked_list_mutex, node, thread, quits>>
StartStep(c) ==
  /\ Step(c, "start", "loop") /\ linked_list_mutex' = Free
  /\ UNCHANGED <<alive, should_quit, NodeUse, quits>>
WorkStep(t) == (\E from, to \in Busy : Step(t, from, to)) /\ Keeps
EndStep(c) ==
  /\ alive /\ Len(stack[c]) = 1 /\ stack[c][1].at = "end" /\ Popped(c)
  /\ thread' = [thread EXCEPT ![c] = "done"]
  /\ UNCHANGED <<alive, should_quit, linked_list_mutex, list, node, quits>>
StampStep(t) == alive /\ stack[t][1].at = "a_close" /\ Len(stack[t]) > 1 /\ Popped(t) /\ Keeps
PipeStep ==
  /\ "pipe" \in Faults /\ alive' = FALSE
  /\ UNCHANGED <<should_quit, linked_list_mutex, NodeUse, stack, quits>>
QuitStep(t) ==
  /\ Step(t, "q_quit", "q_join") /\ stack'[t][1].e = First /\ should_quit' = TRUE
  /\ UNCHANGED <<alive, linked_list_mutex, NodeUse, quits>>
JoinStep(t) ==
  LET e == stack[t][1].e
  IN  /\ Step(t, "q_join", "q_join") /\ e # Free /\ stack'[t][1].e = After(e)
      /\ thread[e] # "running" \/ e = t
      /\ thread' = [thread EXCEPT ![e] = IF @ = "done" THEN "joined" ELSE @]
      /\ UNCHANGED <<alive, should_quit, linked_list_mutex, list, node, quits>>
CrashStep(t) ==
  LET e == stack[t][1].e
  IN  /\ alive /\ Len(stack[t]) \in Nat \ {0} /\ stack[t][1].at = "q_join" /\ e # Free
      /\ thread[e] \in {"none", "joined"} \/ node[e] # "live"
      /\ alive' = FALSE
      /\ UNCHANGED <<should_quit, linked_list_mutex, NodeUse, stack, quits>>
FreeStep(t) ==
  /\ alive /\ Len(stack[t]) > 1 /\ stack[t][1].at = "q_join" /\ stack[t][1].e = Free /\ Popped(t)
  /\ node' = [c \in Conn |-> IF \E i \in 1 .. Len(list) : list[i] = c THEN "freed" ELSE node[c]]
  /\ list' = << >>
  /\ UNCHANGED <<alive, should_quit, linked_list_mutex, thread, quits>>
AlarmStep(t) == alive /\ Pushed(t, Frame("a_lock", Free, "ALRM")) /\ Keeps
TermStep(t, sig) ==
  /\ alive /\ Pushed(t, Frame("q_quit", Free, sig))
  /\ t = Main \/ Blocked(Main, sig)
  /\ quits < MaxQuits /\ quits' = quits + 1
  /\ UNCHANGED <<alive, should_quit, linked_list_mutex, NodeUse>>
IdleStep == UNCHANGED stack /\ Keeps

ControlStep ==
  \/ \E c \in Conn : AcceptStep(c) \/ CreateStep(c) \/ StartStep(c) \/ EndStep(c)
  \/ ClosedStep \/ CheckStep \/ LockStep \/ FailStep \/ InsertStep \/ PipeStep \/ IdleStep
  \/ \E t \in Thread : WorkStep(t) \/ StampStep(t) \/ QuitStep(t) \/ JoinStep(t) \/ CrashStep(t)
                       \/ FreeStep(t) \/ AlarmStep(t) \/ \E sig \in {"TERM", "INT"} : TermStep(t, sig)


(* What the accept loop does to the nodes, the threads and                  *)
(* linked_list_mutex.                                                       *)
LEMMA MainControlSteps ==
  ASSUME TypeInv, MainStep \/ \E c \in Conn : accept(c)
  PROVE  ControlStep
  <1> USE DEF TypeInv, NodeUse, Keeps
  <1>0. Main \in Thread /\ Stacks /\ Types
    BY DEF Thread
  <1>1. ASSUME NEW c \in Conn, accept(c) PROVE ControlStep
    <2> DEFINE fr == Frame("accepted", c, Free)
    <2>1. fr \in FrameSet /\ fr.at = "accepted" /\ fr.e = c /\ fr.sig = Free
      BY FrameType, FrameFields
    <2>2. At(Main, "accept") /\ Becomes(Main, fr)
      BY <1>1 DEF accept
    <2> HIDE DEF fr
    <2>3. Step(Main, "accept", "accepted") /\ stack'[Main][1] = fr
      BY <1>0, <2>1, <2>2, BecomesSteps
    <2>4. AcceptStep(c)
      BY <1>1, <2>1, <2>3 DEF accept, AcceptStep, control, nodes
    <2> QED
      BY <2>4 DEF ControlStep
  <1>2. CASE accept_closed
    <2>1. Step(Main, "accept", "accepted") /\ SameNode(Main)
      BY <1>0, <1>2, GoSteps DEF accept_closed
    <2>2. ClosedStep
      BY <1>2, <2>1, FdFacts DEF accept_closed, ClosedStep, IsOpen, control, nodes, world
    <2> QED
      BY <2>2 DEF ControlStep
  <1>3. CASE CheckQuit
    <2>1. Step(Main, "accepted", "lock_list") /\ SameNode(Main)
      BY <1>0, <1>3, GoSteps DEF CheckQuit
    <2>2. alive' = ~should_quit
      BY <1>0, <1>3, <2>1 DEF CheckQuit, Exit, control, Step, Types
    <2>3. CheckStep
      BY <1>3, <2>1, <2>2 DEF CheckQuit, Exit, CheckStep, control, nodes, world
    <2> QED
      BY <2>3 DEF ControlStep
  <1>4. CASE LockList
    <2>1. Step(Main, "lock_list", "create") /\ SameNode(Main)
      BY <1>0, <1>4, GoSteps DEF LockList
    <2>2. Top(Main) = stack[Main][1]
      BY <1>0, <1>4, AtTop DEF LockList
    <2>3. LockStep
      BY <1>4, <2>1, <2>2 DEF LockList, LockStep, control, world
    <2> QED
      BY <2>3 DEF ControlStep
  <1>5. CASE pthread_create
    <2> DEFINE c == Top(Main).e
    <2>1. /\ At(Main, "create")
          /\ UNCHANGED <<alive, should_quit, linked_list_mutex, list, node, quits>>
      BY <1>5 DEF pthread_create, control, world
    <2>2. alive /\ Top(Main) = stack[Main][1] /\ stack[Main][1].at = "create" /\ c \in Conn \cup {Free}
      BY <1>0, <2>1, AtTop DEF FrameSet
    <2>3. CASE Go(Main, "insert") /\ UNCHANGED thread
      <3>1. Step(Main, "create", "insert") /\ SameNode(Main)
        BY <1>0, <2>1, <2>3, GoSteps
      <3> QED
        BY <2>1, <2>3, <3>1 DEF ControlStep, FailStep
    <2>4. CASE /\ thread' = [thread EXCEPT ![c] = "running"]
               /\ stack' = [stack EXCEPT ![Main] = <<[Top(Main) EXCEPT !.at = "insert"]>> \o Tail(@),
                                         ![c] = <<Frame("start", c, Free)>>]
      <3>1. CASE c \in Conn
        <4>1. Created(c)
          BY <1>0, <2>1, <2>4, <3>1, CreateCreates
        <4>2. CreateStep(c)
          BY <2>1, <2>2, <2>4, <4>1 DEF CreateStep
        <4> QED
          BY <3>1, <4>2 DEF ControlStep
      <3>2. CASE c = Free
        <4>1. Go(Main, "insert") /\ UNCHANGED thread
          BY <1>0, <2>4, <3>2, CreateNothing
        <4> QED
          BY <2>3, <4>1
      <3> QED
        BY <2>2, <3>1, <3>2
    <2> QED
      BY <1>5, <2>3, <2>4 DEF pthread_create
  <1>6. CASE InsertNode
    <2> DEFINE fr == Frame("accept", Free, Free)
    <2>1. fr \in FrameSet /\ fr.at = "accept" /\ fr.e = Free /\ fr.sig = Free
      BY FrameType, FrameFields
    <2>2. At(Main, "insert") /\ Becomes(Main, fr)
      BY <1>6 DEF InsertNode
    <2> HIDE DEF fr
    <2>3. Step(Main, "insert", "accept") /\ stack'[Main][1] = fr /\ Top(Main) = stack[Main][1]
      BY <1>0, <2>1, <2>2, BecomesSteps, AtTop
    <2>4. alive' = ~should_quit
      BY <1>0, <1>6, <2>3 DEF InsertNode, Exit, control, Step, Types
    <2>5. InsertStep
      BY <1>6, <2>1, <2>3, <2>4 DEF InsertNode, Exit, InsertStep, control, world
    <2> QED
      BY <2>5 DEF ControlStep
  <1> QED
    BY <1>1, <1>2, <1>3, <1>4, <1>5, <1>6 DEF MainStep

(* Using the file does nothing to them. *)
LEMMA FileControlSteps ==
  ASSUME TypeInv, NEW t \in Thread, NEW from \in Busy, NEW to \in Busy,
         \/ LockFile(t, from, to)
         \/ \E item \in Thread \X Nat : WriteFile(t, from, item, to)
         \/ \E mode \in {"write", "read"}, unlocks \in BOOLEAN : OpenFile(t, from, mode, to, unlocks)
  PROVE  ControlStep
  <1> USE DEF TypeInv, Keeps
  <1>1. CASE \/ LockFile(t, from, to)
             \/ \E item \in Thread \X Nat : WriteFile(t, from, item, to)
    <2>1. At(t, from) /\ Go(t, to)
      BY <1>1 DEF LockFile, WriteFile
    <2>2. Step(t, from, to)
      BY <2>1, GoSteps DEF Busy
    <2>3. Keeps
      BY <1>1 DEF LockFile, WriteFile, control, nodes, world
    <2>4. WorkStep(t)
      BY <2>2, <2>3 DEF WorkStep
    <2> QED
      BY <2>4 DEF ControlStep
  <1>2. ASSUME NEW mode \in {"write", "read"}, NEW unlocks \in BOOLEAN, OpenFile(t, from, mode, to, unlocks)
        PROVE  ControlStep
    <2>1. At(t, from) /\ Keeps
      BY <1>2 DEF OpenFile, control, nodes, world
    <2>2. Top(t) \in FrameSet /\ Top(t) = stack[t][1]
      BY <2>1, AtTop
    <2>3. PICK d \in Fd \cup {0} : Becomes(t, [Top(t) EXCEPT !.at = to, !.f = d])
      BY <1>2 DEF OpenFile
    <2> DEFINE fr == [Top(t) EXCEPT !.at = to, !.f = d]
    <2>4. fr \in FrameSet /\ fr.at = to /\ fr.sig = stack[t][1].sig
      BY <2>2 DEF FrameSet, Busy
    <2> HIDE DEF fr
    <2>5. Becomes(t, fr)
      BY <2>3 DEF fr
    <2>6. Step(t, from, to)
      BY <2>1, <2>4, <2>5, BecomesSteps
    <2>7. WorkStep(t)
      BY <2>1, <2>6 DEF WorkStep
    <2> QED
      BY <2>7 DEF ControlStep
  <1> QED
    BY <1>1, <1>2

(* What a worker does to them. *)
LEMMA WorkerControlSteps ==
  ASSUME TypeInv, NEW c \in Conn, WorkerStep(c) \/ recv(c)
  PROVE  ControlStep
  <1> USE DEF TypeInv, NodeUse, Keeps
  <1>0. c \in Thread /\ Stacks /\ Types
    BY DEF Thread
  <1>1. CASE WorkerStart(c)
    <2>1. Step(c, "start", "loop")
      BY <1>0, <1>1, GoSteps DEF WorkerStart
    <2>2. StartStep(c)
      BY <1>1, <2>1 DEF WorkerStart, StartStep, control, nodes, world
    <2> QED
      BY <2>2 DEF ControlStep
  <1>2. ASSUME NEW from \in {"loop", "recv"}, At(c, from), NEW to \in {"end", "recv", "loop", "w_lock"}, Go(c, to), Keeps
        PROVE  ControlStep
    <2>1. Step(c, from, to)
      BY <1>0, <1>2, GoSteps
    <2>2. WorkStep(c)
      BY <1>2, <2>1 DEF WorkStep, Busy
    <2> QED
      BY <1>0, <2>2 DEF ControlStep
  <1>3. CASE WorkerLoop(c) \/ recv(c) \/ recv_end(c)
    <2>1. Keeps
      BY <1>3 DEF WorkerLoop, recv, recv_end, control, nodes, world
    <2>2. \E from \in {"loop", "recv"}, to \in {"end", "recv", "loop", "w_lock"} : At(c, from) /\ Go(c, to)
      BY <1>3 DEF WorkerLoop, recv, recv_end
    <2> QED
      BY <1>2, <2>1, <2>2
  <1>4. CASE WorkerEnd(c)
    <2>1. At(c, "end") /\ Return(c)
      BY <1>4 DEF WorkerEnd
    <2>2. alive /\ stack[c] # << >> /\ Top(c) = stack[c][1] /\ Top(c).at = "end" /\ Len(stack[c]) = 1
      BY <1>0, <2>1, AtTop
    <2>3. Popped(c)
      BY <1>0, <2>1, <2>2, ReturnPops
    <2>4. EndStep(c)
      BY <1>4, <2>2, <2>3 DEF WorkerEnd, EndStep, control, world
    <2> QED
      BY <2>4 DEF ControlStep
  <1>5. ASSUME NEW from \in Busy, At(c, from), NEW fr \in FrameSet, fr.at \in Busy, fr.sig \in {stack[c][1].sig, Free},
               Becomes(c, fr), Keeps
        PROVE  ControlStep
    <2>1. Step(c, from, fr.at)
      BY <1>0, <1>5, BecomesSteps
    <2>2. WorkStep(c)
      BY <1>5, <2>1 DEF WorkStep
    <2> QED
      BY <1>0, <2>2 DEF ControlStep
  <1>6. ASSUME NEW from \in {"w_close", "d_read"}, At(c, from), NEW to \in {"d_lock", "loop"},
               Becomes(c, Frame(to, c, Free)), Keeps
        PROVE  ControlStep
    <2> DEFINE fr == Frame(to, c, Free)
    <2>1. fr \in FrameSet /\ fr.at = to /\ fr.sig = Free
      BY FrameType, FrameFields
    <2> HIDE DEF fr
    <2>2. Becomes(c, fr)
      BY <1>6 DEF fr
    <2> QED
      BY <1>5, <1>6, <2>1, <2>2 DEF Busy
  <1>7. CASE dump_buffer_to_file(c)
    <2>1. <<c, sent[c]>> \in Thread \X Nat
      BY <1>0 DEF Types
    <2>2. CASE WriteClose(c)
      BY <1>6, <2>2 DEF WriteClose, control, nodes, world
    <2>3. CASE \/ LockFile(c, "w_lock", "w_open") \/ OpenFile(c, "w_open", "write", "w_write", TRUE)
               \/ WriteFile(c, "w_write", <<c, sent[c]>>, "w_close")
      BY <1>0, <2>1, <2>3, FileControlSteps DEF Busy
    <2> QED
      BY <1>7, <2>2, <2>3 DEF dump_buffer_to_file
  <1>8. CASE dump_file_to_socket(c)
    <2>1. CASE LockFile(c, "d_lock", "d_open") \/ OpenFile(c, "d_open", "read", "d_read", TRUE)
      BY <1>0, <2>1, FileControlSteps DEF Busy
    <2>2. CASE ReadEnd(c)
      BY <1>6, <2>2 DEF ReadEnd, control, nodes, world
    <2>3. CASE ReadAndSend(c)
      <3>1. UNCHANGED <<should_quit, linked_list_mutex, NodeUse, quits>>
        BY <2>3 DEF ReadAndSend, Exit, control, nodes, world
      <3>2. CASE client[c] = "gone" /\ "pipe" \in Faults /\ Exit /\ UNCHANGED <<stack, out>>
        BY <3>1, <3>2 DEF Exit, ControlStep, PipeStep
      <3>3. CASE ~(client[c] = "gone" /\ "pipe" \in Faults /\ Exit /\ UNCHANGED <<stack, out>>)
        <4> DEFINE left == Len(file) - Top(c).off
                   n == IF left < ReadSize THEN left ELSE ReadSize
                   fr == [Top(c) EXCEPT !.off = @ + n]
        <4>1. At(c, "d_read") /\ left > 0 /\ Becomes(c, fr) /\ UNCHANGED control
          BY <2>3, <3>3 DEF ReadAndSend
        <4>2. Top(c) \in FrameSet /\ Top(c).at = "d_read" /\ Top(c) = stack[c][1]
          BY <1>0, <4>1, AtTop
        <4>3. Top(c).off \in Nat /\ Len(file) \in Nat
          BY <1>0, <4>2, LenProperties DEF FrameSet, Types
        <4>4. Top(c).off + n \in Nat
          BY <4>1, <4>3, ServerAssumption
        <4> HIDE DEF n
        <4>5. fr \in FrameSet /\ fr.at = "d_read" /\ fr.sig = Top(c).sig
          BY <4>2, <4>4 DEF FrameSet
        <4> HIDE DEF fr
        <4> QED
          BY <1>5, <3>1, <4>1, <4>2, <4>5 DEF Busy, control
      <3> QED
        BY <3>2, <3>3
    <2> QED
      BY <1>8, <2>1, <2>2, <2>3 DEF dump_file_to_socket
  <1> QED
    BY <1>1, <1>3, <1>4, <1>7, <1>8 DEF WorkerStep

(* What the handlers do to them. *)
LEMMA HandlerControlSteps ==
  ASSUME TypeInv, NEW t \in Thread, HandlerStep(t)
  PROVE  ControlStep
  <1> USE DEF TypeInv, NodeUse, Keeps
  <1>1. CASE print_time_to_file(t)
    <2>1. Stamp \in Thread \X Nat /\ Newline \in Thread \X Nat
      BY DEF Stamp, Newline, Thread
    <2>2. CASE At(t, "a_close") /\ Return(t) /\ fdtab' = Closed(Top(t).f) /\ file_mutex' = Free
               /\ UNCHANGED <<control, linked_list_mutex, nodes, file, out, world>>
      <3>1. alive /\ stack[t] # << >> /\ Len(stack[t]) > 1 /\ Top(t) = stack[t][1] /\ Top(t).at = "a_close"
        BY <2>2, AtTop
      <3>2. Popped(t)
        BY <2>2, <3>1, ReturnPops
      <3>3. StampStep(t)
        BY <2>2, <3>1, <3>2 DEF StampStep, control, nodes, world
      <3> QED
        BY <3>3 DEF ControlStep
    <2>3. CASE \/ LockFile(t, "a_lock", "a_open") \/ OpenFile(t, "a_open", "write", "a_text", FALSE)
               \/ WriteFile(t, "a_text", Stamp, "a_newline") \/ WriteFile(t, "a_newline", Newline, "a_close")
      BY <2>1, <2>3, FileControlSteps DEF Busy
    <2> QED
      BY <1>1, <2>2, <2>3 DEF print_time_to_file
  <1>2. CASE sigint_handler(t)
    <2> DEFINE fr == [Top(t) EXCEPT !.at = "q_join", !.e = First]
    <2>1. At(t, "q_quit") /\ Top(t) \in FrameSet /\ Top(t) = stack[t][1] /\ Becomes(t, fr)
      BY <1>2, AtTop DEF sigint_handler
    <2>2. First \in Conn \cup {Free}
      BY FirstOf DEF First, Types
    <2>3. fr \in FrameSet /\ fr.at = "q_join" /\ fr.e = First /\ fr.sig = stack[t][1].sig
      BY <2>1, <2>2 DEF FrameSet
    <2> HIDE DEF fr
    <2>4. Step(t, "q_quit", "q_join") /\ stack'[t][1] = fr
      BY <2>1, <2>3, BecomesSteps
    <2>5. QuitStep(t)
      BY <1>2, <2>3, <2>4 DEF sigint_handler, QuitStep, nodes, world
    <2> QED
      BY <2>5 DEF ControlStep
  <1>3. CASE JoinNode(t)
    <2>1. Step(t, "q_join", "q_join") /\ stack'[t][1].e = After(stack[t][1].e)
      BY <1>3, JoinMoves
    <2>2. Top(t) = stack[t][1]
      BY <1>3, AtTop DEF JoinNode
    <2>3. JoinStep(t)
      BY <1>3, <2>1, <2>2 DEF JoinNode, JoinStep, control, world
    <2> QED
      BY <2>3 DEF ControlStep
  <1>4. CASE JoinCrash(t)
    <2>1. alive /\ Len(stack[t]) \in Nat \ {0} /\ Top(t) = stack[t][1] /\ Top(t).at = "q_join"
      BY <1>4, AtTop DEF JoinCrash
    <2>2. CrashStep(t)
      BY <1>4, <2>1 DEF JoinCrash, Exit, CrashStep, nodes, world
    <2> QED
      BY <2>2 DEF ControlStep
  <1>5. CASE FreeNodes(t)
    <2>1. /\ At(t, "q_join") /\ stack[t] # << >> /\ Top(t) = stack[t][1] /\ Top(t).at = "q_join" /\ Return(t)
          /\ alive /\ Len(stack[t]) > 1
      BY <1>5, AtTop DEF FreeNodes
    <2>2. Popped(t)
      BY <2>1, ReturnPops
    <2>3. FreeStep(t)
      BY <1>5, <2>1, <2>2 DEF FreeNodes, FreeStep, control, world
    <2> QED
      BY <2>3 DEF ControlStep
  <1> QED
    BY <1>1, <1>2, <1>3, <1>4, <1>5 DEF HandlerStep, cleanup

(* Every step is one of these, as far as nodes and threads are concerned. *)
LEMMA ControlSteps == TypeInv /\ [Next]_vars => ControlStep
  <1> SUFFICES ASSUME TypeInv, [Next]_vars PROVE ControlStep
    OBVIOUS
  <1> USE DEF TypeInv, Keeps, NodeUse
  <1>1. CASE SIGALRM
    <2>1. PICK t \in Thread : alive /\ Pushed(t, Frame("a_lock", Free, "ALRM"))
      BY <1>1, DeliverPushes DEF SIGALRM
    <2>2. AlarmStep(t)
      BY <1>1, <2>1 DEF SIGALRM, AlarmStep, control, nodes
    <2> QED
      BY <2>2 DEF ControlStep
  <1>2. CASE SIGTERM
    <2>1. PICK sig \in {"TERM", "INT"} : Deliver(sig, "q_quit")
      BY <1>2 DEF SIGTERM
    <2>2. PICK t \in Thread : /\ alive /\ Pushed(t, Frame("q_quit", Free, sig))
                              /\ t = Main \/ Blocked(Main, sig)
      BY <2>1, DeliverPushes
    <2>3. TermStep(t, sig)
      BY <1>2, <2>2 DEF SIGTERM, TermStep, control, nodes
    <2> QED
      BY <2>3 DEF ControlStep
  <1>3. ASSUME NEW c \in Conn, Hangup(c) PROVE ControlStep
    BY <1>3 DEF Hangup, ControlStep, IdleStep, control, nodes
  <1>4. CASE UNCHANGED vars
    BY <1>4 DEF vars, control, nodes, world, ControlStep, IdleStep
  <1> QED
    BY <1>1, <1>2, <1>3, <1>4, MainControlSteps, WorkerControlSteps, HandlerControlSteps DEF Next

-----------------------------------------------------------------------------
(* The data file is used by one thread at a time. *)

(* One frame of one thread is inside, and file_mutex names that thread. *)
Exclusive ==
  \A t, u \in Thread : \A i \in 1 .. Len(stack[t]), j \in 1 .. Len(stack[u]) :
    stack[t][i].at \in FileLabels /\ stack[u][j].at \in FileLabels
      => t = u /\ i = j /\ file_mutex = t

(* A move that enters the file takes the mutex, or was in it before. *)
LEMMA ExclusiveMoved ==
  ASSUME Exclusive, NEW t \in Thread, NEW fr, Moved(t, fr),
         \/ UNCHANGED file_mutex /\ (fr.at \in FileLabels => stack[t][1].at \in FileLabels)
         \/ file_mutex \notin Thread /\ file_mutex' = t
         \/ stack[t][1].at \in FileLabels /\ fr.at \notin FileLabels
  PROVE  Exclusive'
  <1> SUFFICES ASSUME NEW u \in Thread, NEW v \in Thread,
                      NEW i \in 1 .. Len(stack'[u]), NEW j \in 1 .. Len(stack'[v]),
                      stack'[u][i].at \in FileLabels, stack'[v][j].at \in FileLabels
               PROVE  u = v /\ i = j /\ file_mutex' = u
    BY DEF Exclusive
  <1>1. Len(stack[t]) \in Nat \ {0} /\ 1 \in 1 .. Len(stack[t])
    BY DEF Moved
  <1>2. \A w \in Thread : \A k : k \in 1 .. Len(stack'[w]) =>
           /\ k \in 1 .. Len(stack[w])
           /\ w # t \/ k # 1 => stack'[w][k] = stack[w][k]
           /\ w = t /\ k = 1 => stack'[w][k] = fr
    BY DEF Moved
  <1>3. CASE UNCHANGED file_mutex /\ (fr.at \in FileLabels => stack[t][1].at \in FileLabels)
    <2>1. \A w \in Thread : \A k : k \in 1 .. Len(stack'[w]) /\ stack'[w][k].at \in FileLabels
             => stack[w][k].at \in FileLabels
      BY <1>2, <1>3
    <2>2. /\ i \in 1 .. Len(stack[u]) /\ stack[u][i].at \in FileLabels
          /\ j \in 1 .. Len(stack[v]) /\ stack[v][j].at \in FileLabels
      BY <1>2, <2>1
    <2>3. u = v /\ i = j /\ file_mutex = u
      BY <2>2 DEF Exclusive
    <2> QED
      BY <1>3, <2>3
  <1>4. CASE file_mutex \notin Thread /\ file_mutex' = t
    <2>1. ASSUME NEW w \in Thread, NEW k \in 1 .. Len(stack'[w]), stack'[w][k].at \in FileLabels, ~(w = t /\ k = 1)
          PROVE  FALSE
      <3>1. k \in 1 .. Len(stack[w]) /\ stack[w][k].at \in FileLabels
        BY <1>2, <2>1
      <3>2. file_mutex = w
        BY <3>1 DEF Exclusive
      <3> QED
        BY <1>4, <3>2
    <2> QED
      BY <1>4, <2>1
  <1>5. CASE stack[t][1].at \in FileLabels /\ fr.at \notin FileLabels
    <2>1. ~(u = t /\ i = 1)
      BY <1>2, <1>5
    <2>2. stack[u][i].at \in FileLabels /\ i \in 1 .. Len(stack[u])
      BY <1>2, <2>1
    <2> QED
      BY <1>1, <1>5, <2>1, <2>2 DEF Exclusive
  <1> QED
    BY <1>3, <1>4, <1>5

(* A handler starts outside the file. *)
LEMMA ExclusivePushed ==
  ASSUME Exclusive, NEW t \in Thread, NEW fr, Pushed(t, fr), fr.at \notin FileLabels, UNCHANGED file_mutex
  PROVE  Exclusive'
  <1> DEFINE Old(w, k) == IF w = t THEN k - 1 ELSE k
  <1>1. ASSUME NEW w \in Thread, NEW k \in 1 .. Len(stack'[w]), stack'[w][k].at \in FileLabels
        PROVE  Old(w, k) \in 1 .. Len(stack[w]) /\ stack[w][Old(w, k)].at \in FileLabels
    BY <1>1, PushedFrom
  <1> SUFFICES ASSUME NEW u \in Thread, NEW v \in Thread,
                      NEW i \in 1 .. Len(stack'[u]), NEW j \in 1 .. Len(stack'[v]),
                      stack'[u][i].at \in FileLabels, stack'[v][j].at \in FileLabels
               PROVE  u = v /\ i = j /\ file_mutex' = u
    BY DEF Exclusive
  <1>a. /\ Old(u, i) \in 1 .. Len(stack[u]) /\ stack[u][Old(u, i)].at \in FileLabels
        /\ Old(v, j) \in 1 .. Len(stack[v]) /\ stack[v][Old(v, j)].at \in FileLabels
    BY <1>1
  <1>2. u = v /\ Old(u, i) = Old(v, j) /\ file_mutex = u
    <2> HIDE DEF Old
    <2> QED
      BY <1>a DEF Exclusive
  <1>3. i = j
    <2>1. i \in Int /\ j \in Int
      OBVIOUS
    <2> QED
      BY <1>2, <2>1
  <1> QED
    BY <1>2, <1>3

(* A return that gives the mutex back was in the file. *)
LEMMA ExclusivePopped ==
  ASSUME Exclusive, NEW t \in Thread, Popped(t),
         UNCHANGED file_mutex \/ stack[t][1].at \in FileLabels
  PROVE  Exclusive'
  <1> DEFINE Old(w, k) == IF w = t THEN k + 1 ELSE k
  <1>1. ASSUME NEW w \in Thread, NEW k \in 1 .. Len(stack'[w]), stack'[w][k].at \in FileLabels
        PROVE  Old(w, k) \in 1 .. Len(stack[w]) /\ stack[w][Old(w, k)].at \in FileLabels
    BY <1>1, PoppedFrom
  <1> SUFFICES ASSUME NEW u \in Thread, NEW v \in Thread,
                      NEW i \in 1 .. Len(stack'[u]), NEW j \in 1 .. Len(stack'[v]),
                      stack'[u][i].at \in FileLabels, stack'[v][j].at \in FileLabels
               PROVE  u = v /\ i = j /\ file_mutex' = u
    BY DEF Exclusive
  <1>a. /\ Old(u, i) \in 1 .. Len(stack[u]) /\ stack[u][Old(u, i)].at \in FileLabels
        /\ Old(v, j) \in 1 .. Len(stack[v]) /\ stack[v][Old(v, j)].at \in FileLabels
    BY <1>1
  <1>2. u = v /\ Old(u, i) = Old(v, j) /\ file_mutex = u
    <2> HIDE DEF Old
    <2> QED
      BY <1>a DEF Exclusive
  <1>3. i \in Int /\ j \in Int /\ i >= 1
    OBVIOUS
  <1>4. i = j
    BY <1>2, <1>3
  <1>5. stack[t][1].at \notin FileLabels
    <2> SUFFICES ASSUME stack[t][1].at \in FileLabels PROVE FALSE
      OBVIOUS
    <2>1. 1 \in 1 .. Len(stack[t])
      BY DEF Popped
    <2>2. u = t /\ Old(u, i) = 1
      <3> HIDE DEF Old
      <3> QED
        BY <1>a, <2>1 DEF Exclusive
    <2> QED
      BY <1>3, <2>2
  <1> QED
    BY <1>2, <1>4, <1>5

(* A new worker starts outside the file. *)
LEMMA ExclusiveCreated ==
  ASSUME Exclusive, Stacks, NEW c \in Conn, Created(c), stack[Main][1].at = "create", UNCHANGED file_mutex
  PROVE  Exclusive'
  <1>1. stack'[Main][1].at = "insert" /\ stack'[c][1].at = "start"
    <2>1. stack[Main][1] \in FrameSet
      BY FirstOf DEF Stacks, Thread
    <2> QED
      BY <2>1 DEF Created, FrameSet, Frame
  <1>2. ASSUME NEW w \in Thread, NEW k \in 1 .. Len(stack'[w]), stack'[w][k].at \in FileLabels
        PROVE  w \notin {Main, c} /\ k \in 1 .. Len(stack[w]) /\ stack[w][k].at \in FileLabels
    <2>1. CASE w \notin {Main, c}
      BY <1>2, <2>1 DEF Created
    <2>2. CASE w \in {Main, c}
      <3> DEFINE n == Len(stack'[w])
      <3>1. k \in 1 .. n /\ n = 1
        BY <2>2 DEF Created
      <3> HIDE DEF n
      <3>2. k = 1
        BY <3>1
      <3> QED
        BY <1>1, <1>2, <2>2, <3>2 DEF FileLabels
    <2> QED
      BY <2>1, <2>2
  <1> QED
    BY <1>2 DEF Exclusive

(* While opening succeeds, every step keeps the file to the mutex's owner. *)
LEMMA ExclusiveStep ==
  ASSUME TypeInv, Exclusive, OpensSucceed, FileStep
  PROVE  Exclusive'
  <1> USE DEF TypeInv, FileLabels
  <1>0. Main \in Thread /\ Free \notin Thread /\ Conn \subseteq Thread
    BY ServerAssumption DEF Thread
  <1>1. CASE MainMove
    <2>1. PICK from, to \in MainLabels : Step(Main, from, to)
      BY <1>1 DEF MainMove
    <2> QED
      BY <1>0, <1>1, <2>1, ExclusiveMoved DEF MainMove, Step, FileUse
  <1>2. CASE NoMove
    BY <1>2 DEF NoMove, Exclusive
  <1>3. ASSUME NEW c \in Conn, AcceptMove(c) PROVE Exclusive'
    BY <1>0, <1>3, ExclusiveMoved DEF AcceptMove, Step
  <1>4. ASSUME NEW c \in Conn, CreateMove(c) PROVE Exclusive'
    BY <1>4, ExclusiveCreated DEF CreateMove, FileUse
  <1>5. ASSUME NEW c \in Conn, EndMove(c) PROVE Exclusive'
    BY <1>0, <1>5, ExclusivePopped DEF EndMove
  <1>6. ASSUME NEW t \in Thread, LockMove(t) PROVE Exclusive'
    BY <1>0, <1>6, ExclusiveMoved DEF LockMove, Step
  <1>7. ASSUME NEW t \in Thread, OpenMove(t) PROVE Exclusive'
    <2>1. PICK from \in {"w_open", "d_open", "a_open"}, to \in {"w_write", "d_read", "a_text"} : Step(t, from, to)
      BY <1>7 DEF OpenMove
    <2>2. UNCHANGED file_mutex
      BY <1>7 DEF OpenMove, OpensSucceed
    <2> QED
      BY <2>1, <2>2, ExclusiveMoved DEF Step
  <1>8. ASSUME NEW t \in Thread, PlainMove(t) PROVE Exclusive'
    <2>1. PICK from, to \in WorkerLabels \cup HandlerLabels :
            Step(t, from, to) /\ (to \in FileLabels => from \in FileLabels)
      BY <1>8 DEF PlainMove
    <2>2. UNCHANGED file_mutex
      BY <1>8 DEF PlainMove, FileUse
    <2> QED
      BY <2>1, <2>2, ExclusiveMoved DEF Step
  <1>9. ASSUME NEW t \in Thread, LeaveMove(t) PROVE Exclusive'
    <2>1. PICK from \in {"w_close", "d_read"}, to \in {"d_lock", "loop"} : Step(t, from, to)
      BY <1>9 DEF LeaveMove
    <2> QED
      BY <2>1, ExclusiveMoved DEF Step
  <1>10. ASSUME NEW t \in Thread, StampMove(t) PROVE Exclusive'
    BY <1>10, ExclusivePopped DEF StampMove
  <1>11. ASSUME NEW t \in Thread, QuitMove(t) PROVE Exclusive'
    <2>1. CASE Popped(t)
      BY <1>11, <2>1, ExclusivePopped DEF QuitMove
    <2>2. CASE ~Popped(t)
      <3>1. PICK from, to \in {"q_join", "q_quit", "loop", "end"} : Step(t, from, to)
        BY <1>11, <2>2 DEF QuitMove
      <3> QED
        BY <1>11, <3>1, ExclusiveMoved DEF QuitMove, Step
    <2> QED
      BY <2>1, <2>2
  <1>12. ASSUME NEW t \in Thread, SignalMove(t) PROVE Exclusive'
    <2>1. PICK label \in {"a_lock", "q_quit"}, sig \in {"ALRM", "TERM", "INT"} :
            Pushed(t, Frame(label, Free, sig))
      BY <1>12 DEF SignalMove
    <2>2. Frame(label, Free, sig).at \notin FileLabels
      BY FrameFields
    <2> QED
      BY <1>12, <2>1, <2>2, ExclusivePushed DEF SignalMove, FileUse
  <1> QED
    BY <1>1, <1>2, <1>3, <1>4, <1>5, <1>6, <1>7, <1>8, <1>9, <1>10, <1>11, <1>12 DEF FileStep

(* Nobody is in the file when the server starts. *)
LEMMA ExclusiveInit == Init => Exclusive
  <1> SUFFICES ASSUME Init, NEW t \in Thread, NEW i \in 1 .. Len(stack[t])
               PROVE  stack[t][i].at \notin FileLabels
    BY DEF Exclusive
  <1>1. stack[t] = IF t = Main THEN <<Frame("accept", Free, Free)>> ELSE << >>
    BY DEF Init
  <1>2. CASE t # Main
    <2>1. stack[t] = << >> /\ Len(<< >>) = 0
      BY <1>1, <1>2
    <2> QED
      BY <2>1
  <1>3. CASE t = Main
    <2> DEFINE n == Len(stack[t])
    <2>1. i \in 1 .. n /\ n = 1
      BY <1>1, <1>3
    <2> HIDE DEF n
    <2>2. i = 1
      BY <2>1
    <2>3. stack[t][1].at = "accept"
      BY <1>1, <1>3, FrameFields
    <2> QED
      BY <2>2, <2>3 DEF FileLabels
  <1> QED
    BY <1>2, <1>3

(* Where opening the data file never fails, the file is used by one thread *)
(* at a time, whatever the clients and the signals do, and through a       *)
(* shutdown as well.  (A failed open unlocks file_mutex, and the worker    *)
(* goes on into the code it protects.)                                     *)
THEOREM ServerFileExclusive ==
  ASSUME OpensSucceed
  PROVE  Spec => []FileExclusive
  <1>1. Init => TypeInv /\ Exclusive
    BY InitTypes, ExclusiveInit
  <1>2. TypeInv /\ Exclusive /\ [Next]_vars => (TypeInv /\ Exclusive)'
    BY NextTypes, FileSteps, ExclusiveStep
  <1>3. TypeInv /\ Exclusive => FileExclusive
    BY DEF Exclusive, FileExclusive, InFile, FileLabels
  <1> QED
    BY <1>1, <1>2, <1>3, PTL DEF Spec

-----------------------------------------------------------------------------
(* The nodes: their list and its mutex, their descriptors, the shutdown    *)
(* that joins and frees them; and the server as the store of StoreLog.     *)

USE DEF MainLabels, WorkerLabels, HandlerLabels, Labels

-----------------------------------------------------------------------------
(* What each step does to the threads' own code, below any handlers. *)

Works(c) == stack[c] # << >>
Starting(c) == InWorker(c, {"start"})

(* The workers other than those in S are where they were. *)
WorkersSame(S) ==
  \A c \in Conn \ S : (Works(c)' <=> Works(c)) /\ (Starting(c)' <=> Starting(c))

(* A frame of the accept loop or of a worker is alone on its stack. *)
LEMMA LastFrame ==
  ASSUME Stacks, NEW t \in Thread, Len(stack[t]) \in Nat \ {0}, stack[t][1].at \notin HandlerLabels
  PROVE  /\ Len(stack[t]) = 1 /\ Base(t) = stack[t][1]
         /\ stack[t][1].at \in MainLabels => t = Main
         /\ stack[t][1].at \in WorkerLabels => t \in Conn
  <1>1. 1 \in 1 .. Len(stack[t]) /\ Fits(t, 1, Len(stack[t]), stack[t][1].at)
    BY DEF Stacks
  <1>2. \A n \in Nat \ {0} : n = 1 \/ 1 < n
    OBVIOUS
  <1>3. Len(stack[t]) = 1
    BY <1>1, <1>2 DEF Fits
  <1> QED
    BY <1>1, <1>3 DEF Fits, Base, Thread

(* What a handler does on top of a thread leaves the thread's own frame     *)
(* alone.                                                                   *)
LEMMA SameBase ==
  ASSUME Stacks, NEW t \in Thread, NEW fr,
         \/ Moved(t, fr) /\ stack[t][1].at \in HandlerLabels
         \/ Pushed(t, fr)
         \/ Popped(t) /\ Len(stack[t]) > 1
  PROVE  /\ \A u \in Thread : Base(u)' = Base(u)
         /\ WorkersSame({})
  <1>0. ASSUME NEW u \in Thread PROVE Base(u)' = Base(u) /\ (stack'[u] # << >> <=> stack[u] # << >>)
    <2>1. CASE u # t
      BY <2>1 DEF Moved, Pushed, Popped, Base
    <2>2. CASE u = t
      <3> DEFINE n == Len(stack[t])
      <3>1. n \in Nat \ {0}
        BY DEF Moved, Pushed, Popped
      <3>2. CASE Moved(t, fr) /\ stack[t][1].at \in HandlerLabels
        <4>1. Fits(t, 1, n, stack[t][1].at)
          BY <3>1 DEF Stacks
        <4>2. n > 1
          <5> HIDE DEF n
          <5> QED
            BY <3>1, <3>2, <4>1 DEF Fits
        <4>3. n \in 2 .. n
          <5> HIDE DEF n
          <5> QED
            BY <3>1, <4>2
        <4>4. stack'[t][n] = stack[t][n] /\ Len(stack'[t]) = n
          BY <3>2, <4>3 DEF Moved
        <4> QED
          BY <2>2, <3>1, <4>4, EmptySeq DEF Base
      <3>3. CASE Pushed(t, fr)
        <4>1. n + 1 \in 2 .. n + 1 /\ n + 1 - 1 = n /\ n + 1 \in Nat \ {0}
          <5> HIDE DEF n
          <5> QED
            BY <3>1
        <4>2. stack'[t][n + 1] = stack[t][n] /\ Len(stack'[t]) = n + 1
          BY <3>3, <4>1 DEF Pushed
        <4> QED
          BY <2>2, <3>1, <4>1, <4>2, EmptySeq DEF Base
      <3>4. CASE Popped(t) /\ Len(stack[t]) > 1
        <4>1. n - 1 \in 1 .. n - 1 /\ n - 1 + 1 = n /\ n - 1 \in Nat \ {0}
          <5>1. n > 1
            BY <3>4
          <5> HIDE DEF n
          <5> QED
            BY <3>1, <5>1
        <4>2. stack'[t][n - 1] = stack[t][n] /\ Len(stack'[t]) = n - 1
          BY <3>4, <4>1 DEF Popped
        <4> QED
          BY <2>2, <3>1, <4>1, <4>2, EmptySeq DEF Base
      <3> QED
        BY <3>2, <3>3, <3>4
    <2> QED
      BY <2>1, <2>2
  <1> QED
    BY <1>0 DEF WorkersSame, Works, Starting, InWorker, Thread

(* A step in a thread's own code. *)
LEMMA OwnStep ==
  ASSUME Stacks, NEW t \in Thread, NEW from, NEW to, Step(t, from, to), from \notin HandlerLabels
  PROVE  /\ Base(t) = stack[t][1] /\ Base(t)' = stack'[t][1] /\ Base(t).at = from /\ Base(t)'.at = to
         /\ stack[t] # << >> /\ stack'[t] # << >>
         /\ \A u \in Thread \ {t} : stack'[u] = stack[u] /\ Base(u)' = Base(u)
         /\ from \in MainLabels => t = Main
         /\ from \in WorkerLabels => t \in Conn
  <1>1. /\ Len(stack[t]) \in Nat \ {0} /\ stack[t][1].at = from /\ Len(stack'[t]) = Len(stack[t])
        /\ \A u \in Thread \ {t} : stack'[u] = stack[u]
        /\ stack'[t][1].at = to
    BY DEF Step, Moved
  <1>2. Len(stack[t]) = 1 /\ Base(t) = stack[t][1]
    BY <1>1, LastFrame
  <1>3. stack[t] # << >> /\ stack'[t] # << >>
    BY <1>1, EmptySeq
  <1> QED
    BY <1>1, <1>2, <1>3, LastFrame DEF Base

(* A step of the accept loop. *)
LEMMA MainBase ==
  ASSUME Stacks, NEW from \in MainLabels, NEW to, Step(Main, from, to)
  PROVE  /\ Base(Main) = stack[Main][1] /\ Base(Main)' = stack'[Main][1]
         /\ Base(Main).at = from /\ Base(Main)'.at = to
         /\ WorkersSame({})
  <1>1. Main \in Thread /\ Conn \subseteq Thread \ {Main}
    BY ServerAssumption DEF Thread
  <1>2. from \notin HandlerLabels
    OBVIOUS
  <1> QED
    BY <1>1, <1>2, OwnStep DEF WorkersSame, Works, Starting, InWorker

(* These steps leave the accept loop where it is, and no worker starts or   *)
(* ends.                                                                    *)
LEMMA QuietBase ==
  ASSUME TypeInv,
         \/ PipeStep \/ IdleStep
         \/ \E t \in Thread : \/ WorkStep(t) \/ StampStep(t) \/ QuitStep(t) \/ JoinStep(t) \/ CrashStep(t)
                              \/ FreeStep(t) \/ AlarmStep(t) \/ \E sig \in {"TERM", "INT"} : TermStep(t, sig)
  PROVE  Base(Main)' = Base(Main) /\ WorkersSame({})
  <1> USE DEF TypeInv
  <1>0. Main \in Thread /\ Main \notin Conn /\ Conn \subseteq Thread
    BY ServerAssumption DEF Thread
  <1>1. CASE UNCHANGED stack
    BY <1>1 DEF WorkersSame, Works, Starting, InWorker, Base
  <1>2. ASSUME NEW t \in Thread, WorkStep(t) PROVE Base(Main)' = Base(Main) /\ WorkersSame({})
    <2>1. PICK from, to \in Busy : Step(t, from, to)
      BY <1>2 DEF WorkStep
    <2>2. CASE from \in HandlerLabels
      BY <1>0, <2>1, <2>2, SameBase DEF Step
    <2>3. CASE from \notin HandlerLabels
      <3>1. from \in WorkerLabels /\ from # "start" /\ to # "start"
        BY <2>3 DEF Busy
      <3>2. /\ t \in Conn /\ Base(t).at = from /\ Base(t)'.at = to /\ stack[t] # << >> /\ stack'[t] # << >>
            /\ \A u \in Thread \ {t} : stack'[u] = stack[u] /\ Base(u)' = Base(u)
        BY <2>1, <2>3, <3>1, OwnStep
      <3> QED
        BY <1>0, <3>1, <3>2 DEF WorkersSame, Works, Starting, InWorker
    <2> QED
      BY <2>2, <2>3
  <1>3. ASSUME NEW t \in Thread, StampStep(t) \/ FreeStep(t) PROVE Base(Main)' = Base(Main) /\ WorkersSame({})
    BY <1>0, <1>3, SameBase DEF StampStep, FreeStep
  <1>4. ASSUME NEW t \in Thread, QuitStep(t) \/ JoinStep(t) PROVE Base(Main)' = Base(Main) /\ WorkersSame({})
    BY <1>0, <1>4, SameBase DEF QuitStep, JoinStep, Step
  <1>5. ASSUME NEW t \in Thread, AlarmStep(t) \/ \E sig \in {"TERM", "INT"} : TermStep(t, sig)
        PROVE  Base(Main)' = Base(Main) /\ WorkersSame({})
    BY <1>0, <1>5, SameBase DEF AlarmStep, TermStep
  <1> QED
    BY <1>1, <1>2, <1>3, <1>4, <1>5 DEF PipeStep, IdleStep, CrashStep

(* WorkerStart: the worker has let go of the mutex it was handed. *)
LEMMA StartBase ==
  ASSUME TypeInv, NEW c \in Conn, StartStep(c)
  PROVE  /\ Base(Main)' = Base(Main) /\ WorkersSame({c})
         /\ Works(c) /\ Works(c)' /\ Starting(c) /\ ~Starting(c)'
  <1>0. Main \in Thread /\ Main \notin Conn /\ Conn \subseteq Thread
    BY ServerAssumption DEF Thread
  <1>1. /\ Base(c).at = "start" /\ Base(c)'.at = "loop" /\ stack[c] # << >> /\ stack'[c] # << >>
        /\ \A u \in Thread \ {c} : stack'[u] = stack[u] /\ Base(u)' = Base(u)
    BY <1>0, OwnStep DEF StartStep, TypeInv
  <1> QED
    BY <1>0, <1>1 DEF WorkersSame, Works, Starting, InWorker

(* WorkerEnd: the worker works no more. *)
LEMMA EndBase ==
  ASSUME TypeInv, NEW c \in Conn, EndStep(c)
  PROVE  /\ Base(Main)' = Base(Main) /\ WorkersSame({c})
         /\ Works(c) /\ ~Works(c)' /\ ~Starting(c) /\ ~Starting(c)'
  <1>0. Main \in Thread /\ Main \notin Conn /\ Conn \subseteq Thread
    BY ServerAssumption DEF Thread
  <1>1. /\ Len(stack[c]) = 1 /\ stack[c][1].at = "end" /\ Len(stack'[c]) = 0
        /\ stack' \in [Thread -> Seq(FrameSet)]
        /\ \A u \in Thread \ {c} : stack'[u] = stack[u]
    BY DEF EndStep, Popped
  <1>2. stack[c] # << >> /\ stack'[c] = << >>
    BY <1>0, <1>1, EmptySeq
  <1>3. Base(c).at = "end"
    BY <1>1 DEF Base
  <1> QED
    BY <1>0, <1>1, <1>2, <1>3 DEF WorkersSame, Works, Starting, InWorker, Base

(* pthread_create: the new worker is about to start, the accept loop about  *)
(* to insert it.                                                            *)
LEMMA CreateBase ==
  ASSUME TypeInv, NEW c \in Conn, CreateStep(c)
  PROVE  /\ Base(Main) = stack[Main][1] /\ Base(Main).at = "create" /\ Base(Main).e = c
         /\ Base(Main)'.at = "insert" /\ Base(Main)'.e = c
         /\ Works(c)' /\ Starting(c)' /\ WorkersSame({c})
  <1>0. Main \in Thread /\ Main \notin Conn /\ Conn \subseteq Thread
    BY ServerAssumption DEF Thread
  <1>1. stack[Main][1] \in FrameSet
    BY <1>0, FirstOf DEF TypeInv, Stacks
  <1>2. /\ Len(stack[Main]) = 1 /\ Len(stack'[Main]) = 1 /\ Len(stack'[c]) = 1
        /\ stack'[Main][1].at = "insert" /\ stack'[Main][1].e = stack[Main][1].e
        /\ stack'[c][1].at = "start"
        /\ \A u \in Thread \ {Main, c} : stack'[u] = stack[u]
    BY <1>1, FrameFields DEF CreateStep, Created, FrameSet
  <1>3. stack'[c] # << >>
    BY <1>2
  <1> QED
    BY <1>0, <1>2, <1>3 DEF WorkersSame, Works, Starting, InWorker, Base, CreateStep

-----------------------------------------------------------------------------
(* A thread is created once for each node. *)

Listed(c) == \E i \in 1 .. Len(list) : list[i] = c

Fresh ==
  /\ \A c \in Conn : /\ node[c] = "none" => thread[c] = "none" /\ ~Listed(c)
                     /\ Works(c) <=> thread[c] = "running"
  /\ Base(Main).at = "accept" => Base(Main).e = Free
  /\ \A c \in Conn : Base(Main).e = c =>
       /\ Base(Main).at \in {"accepted", "lock_list"} => node[c] = "none"
       /\ Base(Main).at \in {"create", "insert"} => node[c] # "none"
       /\ Base(Main).at = "create" => thread[c] = "none"

(* A node put at the tail joins those in the list. *)
LEMMA AppendList ==
  ASSUME Types, NEW e \in Conn \cup {Free}, list' = Append(list, e)
  PROVE  /\ Len(list) \in Nat /\ Len(list') = Len(list) + 1 /\ list'[Len(list) + 1] = e
         /\ \A i \in 1 .. Len(list) : list'[i] = list[i]
         /\ \A c : Listed(c)' <=> Listed(c) \/ c = e
  <1>1. /\ Len(list) \in Nat /\ Len(list') = Len(list) + 1 /\ list'[Len(list) + 1] = e
        /\ \A i \in 1 .. Len(list) : list'[i] = list[i]
    BY AppendProperties, LenProperties DEF Types
  <1> DEFINE n == Len(list)
  <1>2. /\ n \in Nat /\ Len(list') = n + 1 /\ list'[n + 1] = e
        /\ \A i \in 1 .. n : list'[i] = list[i]
        /\ \A c : (Listed(c) <=> \E i \in 1 .. n : list[i] = c)
    BY <1>1 DEF Listed
  <1> HIDE DEF n
  <1>3. \A c : Listed(c)' <=> \E i \in 1 .. n + 1 : list'[i] = c
    BY <1>2 DEF Listed
  <1>4. \A i : i \in 1 .. n + 1 <=> i \in 1 .. n \/ i = n + 1
    BY <1>2
  <1>5. \A c : Listed(c)' <=> Listed(c) \/ c = e
    BY <1>2, <1>3, <1>4
  <1> QED
    BY <1>1, <1>5

(* A list that is left alone. *)
LEMMA SameList ==
  ASSUME UNCHANGED list
  PROVE  \A c : Listed(c)' <=> Listed(c)
  BY DEF Listed

(* Fresh holds when the server starts. *)
LEMMA FreshInit == Init => Fresh
  <1> SUFFICES ASSUME Init PROVE Fresh
    OBVIOUS
  <1>1. stack[Main] = <<Frame("accept", Free, Free)>> /\ \A c \in Conn : stack[c] = << >>
    BY ServerAssumption DEF Init, Thread
  <1>2. Base(Main) = Frame("accept", Free, Free)
    BY <1>1 DEF Base
  <1>3. Base(Main).at = "accept" /\ Base(Main).e = Free
    BY <1>2, FrameFields
  <1> QED
    BY <1>1, <1>3, EmptySeq, ServerAssumption DEF Init, Fresh, Works, Listed

(* Every step keeps nodes that were not handed out unused. *)
LEMMA FreshStep ==
  ASSUME TypeInv, Fresh, ControlStep
  PROVE  Fresh'
  <1> USE DEF TypeInv, NodeUse, Keeps
  <1>0. Main \notin Conn /\ Free \notin Conn
    BY ServerAssumption
  <1>t. /\ node \in [Conn -> {"none", "live", "freed"}]
        /\ thread \in [Conn -> {"none", "running", "done", "joined"}]
    BY DEF Types
  <1>1. ASSUME NEW c \in Conn, AcceptStep(c) PROVE Fresh'
    <2>1. Base(Main)'.at = "accepted" /\ Base(Main)'.e = c /\ WorkersSame({})
      BY <1>1, MainBase DEF AcceptStep
    <2> QED
      BY <1>0, <1>1, <2>1, SameList DEF AcceptStep, Fresh, WorkersSame
  <1>2. CASE ClosedStep
    <2>1. Base(Main)'.at = "accepted" /\ Base(Main)'.e = Base(Main).e /\ Base(Main).at = "accept" /\ WorkersSame({})
      BY <1>2, MainBase DEF ClosedStep, SameNode
    <2> QED
      BY <1>0, <1>2, <2>1, SameList DEF ClosedStep, Fresh, WorkersSame
  <1>3. CASE CheckStep
    <2>1. Base(Main)'.at = "lock_list" /\ Base(Main)'.e = Base(Main).e /\ Base(Main).at = "accepted" /\ WorkersSame({})
      BY <1>3, MainBase DEF CheckStep, SameNode
    <2> QED
      BY <1>0, <1>3, <2>1, SameList DEF CheckStep, Fresh, WorkersSame
  <1>4. CASE LockStep
    <2>1. /\ Base(Main)'.at = "create" /\ Base(Main)'.e = Base(Main).e /\ Base(Main).at = "lock_list" /\ WorkersSame({})
          /\ Base(Main).e = stack[Main][1].e
      BY <1>4, MainBase DEF LockStep, SameNode
    <2>2. node' = [node EXCEPT ![Base(Main).e] = "live"] /\ UNCHANGED <<list, thread>>
      BY <1>4, <2>1 DEF LockStep
    <2> QED
      BY <1>0, <1>t, <2>1, <2>2, SameList DEF Fresh, WorkersSame
  <1>5. ASSUME NEW c \in Conn, CreateStep(c) PROVE Fresh'
    <2>1. /\ Base(Main).at = "create" /\ Base(Main).e = c /\ Base(Main)'.at = "insert" /\ Base(Main)'.e = c
          /\ Works(c)' /\ WorkersSame({c})
      BY <1>5, CreateBase
    <2>2. thread' = [thread EXCEPT ![c] = "running"] /\ UNCHANGED <<list, node>>
      BY <1>5 DEF CreateStep
    <2> QED
      BY <1>t, <2>1, <2>2, SameList DEF Fresh, WorkersSame
  <1>6. CASE FailStep
    <2>1. Base(Main)'.at = "insert" /\ Base(Main)'.e = Base(Main).e /\ Base(Main).at = "create" /\ WorkersSame({})
      BY <1>6, MainBase DEF FailStep, SameNode
    <2> QED
      BY <1>6, <2>1, SameList DEF FailStep, Fresh, WorkersSame
  <1>7. CASE InsertStep
    <2>1. /\ Base(Main)'.at = "accept" /\ Base(Main)'.e = Free /\ WorkersSame({})
          /\ Base(Main).at = "insert" /\ Base(Main).e = stack[Main][1].e
      BY <1>7, MainBase DEF InsertStep
    <2>2. Base(Main).e \in Conn \cup {Free}
      BY <1>7, <2>1 DEF InsertStep, Step, FrameSet
    <2>3. \A c : Listed(c)' <=> Listed(c) \/ c = Base(Main).e
      BY <1>7, <2>1, <2>2, AppendList DEF InsertStep
    <2> QED
      BY <1>0, <1>7, <2>1, <2>3 DEF InsertStep, Fresh, WorkersSame
  <1>8. ASSUME NEW c \in Conn, StartStep(c) PROVE Fresh'
    <2>1. Base(Main)' = Base(Main) /\ Works(c) /\ Works(c)' /\ WorkersSame({c})
      BY <1>8, StartBase
    <2> QED
      BY <1>8, <2>1, SameList DEF StartStep, Fresh, WorkersSame
  <1>9. ASSUME NEW c \in Conn, EndStep(c) PROVE Fresh'
    <2>1. Base(Main)' = Base(Main) /\ Works(c) /\ ~Works(c)' /\ WorkersSame({c})
      BY <1>9, EndBase
    <2>2. thread' = [thread EXCEPT ![c] = "done"] /\ UNCHANGED <<list, node>>
      BY <1>9 DEF EndStep
    <2> QED
      BY <1>t, <2>1, <2>2, SameList DEF Fresh, WorkersSame
  <1>10. ASSUME NEW t \in Thread, JoinStep(t) PROVE Fresh'
    <2>1. Base(Main)' = Base(Main) /\ WorkersSame({})
      BY <1>10, QuietBase
    <2>2. /\ UNCHANGED <<list, node>>
          /\ \A c \in Conn : thread'[c] = thread[c] \/ (thread[c] = "done" /\ thread'[c] = "joined")
      BY <1>10, <1>t DEF JoinStep
    <2> QED
      BY <2>1, <2>2, SameList DEF Fresh, WorkersSame
  <1>11. ASSUME NEW t \in Thread, FreeStep(t) PROVE Fresh'
    <2>1. Base(Main)' = Base(Main) /\ WorkersSame({})
      BY <1>11, QuietBase
    <2>2. UNCHANGED thread /\ \A c \in Conn : node'[c] = node[c] \/ (node'[c] = "freed" /\ Listed(c))
      BY <1>11 DEF FreeStep, Listed
    <2>3. \A c : ~Listed(c)'
      BY <1>11, EmptySeq DEF FreeStep, Listed
    <2> QED
      BY <2>1, <2>2, <2>3 DEF Fresh, WorkersSame
  <1>12. CASE \/ PipeStep \/ IdleStep
              \/ \E t \in Thread : \/ WorkStep(t) \/ StampStep(t) \/ QuitStep(t) \/ CrashStep(t)
                                   \/ AlarmStep(t) \/ \E sig \in {"TERM", "INT"} : TermStep(t, sig)
    <2>1. Base(Main)' = Base(Main) /\ WorkersSame({})
      BY <1>12, QuietBase
    <2>2. UNCHANGED <<list, node, thread>>
      BY <1>12 DEF PipeStep, IdleStep, WorkStep, StampStep, QuitStep, CrashStep, AlarmStep, TermStep
    <2> QED
      BY <2>1, <2>2, SameList DEF Fresh, WorkersSame
  <1> QED
    BY <1>1, <1>2, <1>3, <1>4, <1>5, <1>6, <1>7, <1>8, <1>9, <1>10, <1>11, <1>12 DEF ControlStep

-----------------------------------------------------------------------------
(* Descriptors are closed by those who own them. *)

Holding == {"w_write", "w_close", "d_read", "a_text", "a_newline", "a_close"}

(* A frame that has a descriptor is in the code between open and close. *)
Holds(fr) ==
  /\ fr.at # "q_join"
  /\ fr.f # 0 => fr.at \in Holding /\ fdtab[fr.f] = Mode(fr.at)

FramesHold ==
  /\ \A t \in Thread : \A i \in 1 .. Len(stack[t]) : Holds(stack[t][i])
  /\ \A t, u \in Thread : \A i \in 1 .. Len(stack[t]), j \in 1 .. Len(stack[u]) :
       stack[t][i].f # 0 /\ stack[t][i].f = stack[u][j].f => t = u /\ i = j

Owned(c) == fd[c] = 0 \/ fdtab[fd[c]] = c

WorkersOwn ==
  /\ fdtab[parent_fd] = "listen"
  /\ \A c \in Conn : /\ thread[c] \in {"none", "running"} => Owned(c)
                     /\ client[c] = "out" => fd[c] = 0

Descriptors == ~should_quit => FramesHold /\ WorkersOwn

(* The open data files stay open, except the one t has, or had. *)
FilesKept(t) ==
  \A d \in Fd : fdtab[d] \in {"read", "write"} => fdtab'[d] = fdtab[d] \/ d = stack[t][1].f

(* A thread that moves on without opening a file keeps every frame's        *)
(* descriptor right.                                                        *)
LEMMA FramesMoved ==
  ASSUME Stacks, FramesHold, NEW t \in Thread, NEW fr, Moved(t, fr), fr.at # "q_join", FilesKept(t),
         \/ fr.f = 0
         \/ /\ fr.f = stack[t][1].f /\ UNCHANGED fdtab
            /\ fr.at \in Holding /\ (stack[t][1].at \in Holding => Mode(fr.at) = Mode(stack[t][1].at))
  PROVE  FramesHold'
  <1>1. /\ Len(stack[t]) \in Nat \ {0} /\ 1 \in 1 .. Len(stack[t])
        /\ \A u \in Thread : \A i \in 1 .. Len(stack'[u]) :
             /\ i \in 1 .. Len(stack[u]) /\ stack[u][i] \in FrameSet
             /\ u # t \/ i # 1 => stack'[u][i] = stack[u][i]
             /\ u = t /\ i = 1 => stack'[u][i] = fr
    <2>1. \A u \in Thread : \A i \in 1 .. Len(stack[u]) : stack[u][i] \in FrameSet
      BY ElementOfSeq DEF Stacks
    <2> QED
      BY <2>1 DEF Moved
  <1>2. \A u \in Thread : \A i \in 1 .. Len(stack'[u]) :
          stack'[u][i].f # 0 => stack'[u][i].f = stack[u][i].f
    BY <1>1
  <1>3. ASSUME NEW u \in Thread, NEW i \in 1 .. Len(stack'[u])
        PROVE  Holds(stack[u][i])'
    <2>1. CASE u = t /\ i = 1
      <3>1. stack'[u][i] = fr
        BY <1>1, <2>1
      <3>2. fr.f = 0 \/ (fr.f = stack[t][1].f /\ Holds(stack[t][1]) /\ UNCHANGED fdtab /\ fr.at \in Holding
              /\ (stack[t][1].at \in Holding => Mode(fr.at) = Mode(stack[t][1].at)))
        BY <1>1 DEF FramesHold
      <3> QED
        BY <3>1, <3>2 DEF Holds
    <2>2. CASE ~(u = t /\ i = 1)
      <3>1. stack'[u][i] = stack[u][i] /\ i \in 1 .. Len(stack[u]) /\ stack[u][i] \in FrameSet
        BY <1>1, <2>2
      <3>2. Holds(stack[u][i])
        BY <3>1 DEF FramesHold
      <3>3. CASE stack[u][i].f = 0
        BY <3>1, <3>2, <3>3 DEF Holds
      <3>4. CASE stack[u][i].f # 0
        <4>1. stack[u][i].f # stack[t][1].f
          BY <1>1, <2>2, <3>1, <3>4 DEF FramesHold
        <4>2. stack[u][i].f \in Fd /\ fdtab[stack[u][i].f] \in {"read", "write"}
          BY <3>1, <3>2, <3>4 DEF FrameSet, Holds, Mode
        <4> QED
          BY <3>1, <3>2, <3>4, <4>1, <4>2 DEF Holds, FilesKept
      <3> QED
        BY <3>3, <3>4
    <2> QED
      BY <2>1, <2>2
  <1>4. ASSUME NEW u \in Thread, NEW v \in Thread, NEW i \in 1 .. Len(stack'[u]), NEW j \in 1 .. Len(stack'[v]),
               stack'[u][i].f # 0, stack'[u][i].f = stack'[v][j].f
        PROVE  u = v /\ i = j
    <2>1. stack[u][i].f # 0 /\ stack[u][i].f = stack[v][j].f /\ i \in 1 .. Len(stack[u]) /\ j \in 1 .. Len(stack[v])
      BY <1>1, <1>2, <1>4
    <2> QED
      BY <2>1 DEF FramesHold
  <1> QED
    BY <1>3, <1>4 DEF FramesHold

(* A thread that opens a file gets a descriptor that no frame holds. *)
LEMMA FramesOpened ==
  ASSUME Stacks, FramesHold, NEW t \in Thread, NEW fr, Moved(t, fr), NEW d \in Fd, fr.f = d, Types,
         fdtab[d] = Free, fr.at \in Holding, fdtab' = [fdtab EXCEPT ![d] = Mode(fr.at)]
  PROVE  FramesHold'
  <1>1. \A u \in Thread : \A i \in 1 .. Len(stack'[u]) :
             /\ i \in 1 .. Len(stack[u]) /\ stack[u][i] \in FrameSet
             /\ u # t \/ i # 1 => stack'[u][i] = stack[u][i]
             /\ u = t /\ i = 1 => stack'[u][i] = fr
    <2>1. \A u \in Thread : \A i \in 1 .. Len(stack[u]) : stack[u][i] \in FrameSet
      BY ElementOfSeq DEF Stacks
    <2> QED
      BY <2>1 DEF Moved
  <1>2. fdtab'[d] = Mode(fr.at) /\ \A x \in Fd \ {d} : fdtab'[x] = fdtab[x]
    <2> HIDE DEF Mode
    <2> QED
      BY DEF Types
  <1>3. \A u \in Thread : \A i \in 1 .. Len(stack[u]) : stack[u][i].f # d
    <2> SUFFICES ASSUME NEW u \in Thread, NEW i \in 1 .. Len(stack[u]), stack[u][i].f = d PROVE FALSE
      OBVIOUS
    <2>1. Holds(stack[u][i]) /\ d # 0
      BY FdFacts DEF FramesHold
    <2>2. fdtab[d] \in {"read", "write"}
      BY <2>1 DEF Holds, Mode
    <2> QED
      BY <2>2, ServerAssumption
  <1>4. ASSUME NEW u \in Thread, NEW i \in 1 .. Len(stack'[u])
        PROVE  Holds(stack[u][i])'
    <2>1. CASE u = t /\ i = 1
      BY <1>1, <1>2, <2>1 DEF Holds, Holding
    <2>2. CASE ~(u = t /\ i = 1)
      <3>1. stack'[u][i] = stack[u][i] /\ i \in 1 .. Len(stack[u]) /\ stack[u][i].f \in (Fd \cup {0}) \ {d}
        BY <1>1, <1>3, <2>2 DEF FrameSet
      <3>2. Holds(stack[u][i])
        BY <3>1 DEF FramesHold
      <3> QED
        BY <1>2, <3>1, <3>2 DEF Holds
    <2> QED
      BY <2>1, <2>2
  <1>5. ASSUME NEW u \in Thread, NEW v \in Thread, NEW i \in 1 .. Len(stack'[u]), NEW j \in 1 .. Len(stack'[v]),
               stack'[u][i].f # 0, stack'[u][i].f = stack'[v][j].f
        PROVE  u = v /\ i = j
    <2>0. ASSUME NEW w \in Thread, NEW k \in 1 .. Len(stack'[w]), stack'[w][k].f = d
          PROVE  w = t /\ k = 1
      <3> SUFFICES ASSUME ~(w = t /\ k = 1) PROVE FALSE
        OBVIOUS
      <3>1. k \in 1 .. Len(stack[w]) /\ stack'[w][k] = stack[w][k]
        BY <1>1
      <3> QED
        BY <1>3, <2>0, <3>1
    <2>1. CASE u = t /\ i = 1
      <3>1. stack'[v][j].f = d
        BY <1>1, <1>5, <2>1
      <3> QED
        BY <2>0, <2>1, <3>1
    <2>2. CASE v = t /\ j = 1
      <3>1. stack'[u][i].f = d
        BY <1>1, <1>5, <2>2
      <3> QED
        BY <2>0, <2>2, <3>1
    <2>3. CASE ~(u = t /\ i = 1) /\ ~(v = t /\ j = 1)
      <3>1. stack[u][i].f # 0 /\ stack[u][i].f = stack[v][j].f /\ i \in 1 .. Len(stack[u]) /\ j \in 1 .. Len(stack[v])
        BY <1>1, <1>5, <2>3
      <3> QED
        BY <3>1 DEF FramesHold
    <2> QED
      BY <2>1, <2>2, <2>3
  <1> QED
    BY <1>4, <1>5 DEF FramesHold

(* A handler starts without a descriptor. *)
LEMMA FramesPushed ==
  ASSUME Stacks, FramesHold, NEW t \in Thread, NEW fr, Pushed(t, fr), fr.at # "q_join", fr.f = 0, UNCHANGED fdtab
  PROVE  FramesHold'
  <1>1. ASSUME NEW u \in Thread, NEW i \in 1 .. Len(stack'[u])
        PROVE  Holds(stack[u][i])'
    <2>1. stack'[u][i] = fr \/ \E k \in 1 .. Len(stack[u]) : stack'[u][i] = stack[u][k]
      BY PushedFrom
    <2>2. CASE stack'[u][i] = fr
      BY <2>2 DEF Holds
    <2>3. ASSUME NEW k \in 1 .. Len(stack[u]), stack'[u][i] = stack[u][k] PROVE Holds(stack[u][i])'
      <3>1. Holds(stack[u][k])
        BY DEF FramesHold
      <3> QED
        BY <2>3, <3>1 DEF Holds
    <2> QED
      BY <2>1, <2>2, <2>3
  <1>2. ASSUME NEW u \in Thread, NEW v \in Thread, NEW i \in 1 .. Len(stack'[u]), NEW j \in 1 .. Len(stack'[v]),
               stack'[u][i].f # 0, stack'[u][i].f = stack'[v][j].f
        PROVE  u = v /\ i = j
    <2> DEFINE Old(w, k) == IF w = t THEN k - 1 ELSE k
    <2>1. ASSUME NEW w \in Thread, NEW k \in 1 .. Len(stack'[w]), stack'[w][k].f # 0
          PROVE  Old(w, k) \in 1 .. Len(stack[w]) /\ stack'[w][k] = stack[w][Old(w, k)]
      <3>1. \/ w = t /\ k - 1 \in 1 .. Len(stack[w]) /\ stack'[w][k] = stack[w][k - 1]
            \/ w # t /\ k \in 1 .. Len(stack[w]) /\ stack'[w][k] = stack[w][k]
        BY <2>1, PushedFrom
      <3> QED
        BY <3>1
    <2>2. stack'[v][j].f # 0
      BY <1>2
    <2>3. u = v /\ Old(u, i) = Old(v, j)
      <3> HIDE DEF Old
      <3>1. /\ Old(u, i) \in 1 .. Len(stack[u]) /\ stack'[u][i] = stack[u][Old(u, i)]
            /\ Old(v, j) \in 1 .. Len(stack[v]) /\ stack'[v][j] = stack[v][Old(v, j)]
        BY <1>2, <2>1, <2>2
      <3> QED
        BY <1>2, <3>1 DEF FramesHold
    <2>4. i \in Int /\ j \in Int
      OBVIOUS
    <2> QED
      BY <2>3, <2>4
  <1> QED
    BY <1>1, <1>2 DEF FramesHold

(* A handler or worker that returns takes its descriptor along. *)
LEMMA FramesPopped ==
  ASSUME Stacks, FramesHold, NEW t \in Thread, Popped(t), FilesKept(t)
  PROVE  FramesHold'
  <1> DEFINE Old(w, k) == IF w = t THEN k + 1 ELSE k
  <1>0. ASSUME NEW u \in Thread, NEW i \in 1 .. Len(stack'[u])
        PROVE  /\ Old(u, i) \in 1 .. Len(stack[u]) /\ stack'[u][i] = stack[u][Old(u, i)]
               /\ 1 \in 1 .. Len(stack[t]) /\ (u = t => Old(u, i) # 1)
    BY PoppedFrom
  <1>1. ASSUME NEW u \in Thread, NEW i \in 1 .. Len(stack'[u])
        PROVE  Holds(stack[u][i])'
    <2> DEFINE k == Old(u, i)
    <2>1. k \in 1 .. Len(stack[u]) /\ stack'[u][i] = stack[u][k] /\ 1 \in 1 .. Len(stack[t]) /\ (u = t => k # 1)
      BY <1>0
    <2> HIDE DEF k
    <2>2. Holds(stack[u][k]) /\ stack[u][k] \in FrameSet
      BY <2>1, ElementOfSeq DEF FramesHold, Stacks
    <2>3. CASE stack[u][k].f = 0
      BY <2>1, <2>2, <2>3 DEF Holds
    <2>4. CASE stack[u][k].f # 0
      <3>1. stack[u][k].f # stack[t][1].f
        BY <2>1, <2>4 DEF FramesHold
      <3>2. stack[u][k].f \in Fd /\ fdtab[stack[u][k].f] \in {"read", "write"}
        BY <2>2, <2>4 DEF FrameSet, Holds, Mode
      <3> QED
        BY <2>1, <2>2, <2>4, <3>1, <3>2 DEF Holds, FilesKept
    <2> QED
      BY <2>3, <2>4
  <1>2. ASSUME NEW u \in Thread, NEW v \in Thread, NEW i \in 1 .. Len(stack'[u]), NEW j \in 1 .. Len(stack'[v]),
               stack'[u][i].f # 0, stack'[u][i].f = stack'[v][j].f
        PROVE  u = v /\ i = j
    <2>1. Old(u, i) \in 1 .. Len(stack[u]) /\ stack'[u][i] = stack[u][Old(u, i)]
      BY <1>0
    <2>2. Old(v, j) \in 1 .. Len(stack[v]) /\ stack'[v][j] = stack[v][Old(v, j)]
      BY <1>0
    <2>3. u = v /\ Old(u, i) = Old(v, j)
      <3> HIDE DEF Old
      <3> QED
        BY <1>2, <2>1, <2>2 DEF FramesHold
    <2>4. i \in Int /\ j \in Int
      OBVIOUS
    <2> QED
      BY <2>3, <2>4
  <1> QED
    BY <1>1, <1>2 DEF FramesHold

(* A new worker starts without a file. *)
LEMMA FramesCreated ==
  ASSUME Stacks, FramesHold, NEW c \in Conn, Created(c), stack[Main][1].at = "create", UNCHANGED fdtab
  PROVE  FramesHold'
  <1>0. Main \in Thread /\ stack[Main][1] \in FrameSet /\ 1 \in 1 .. Len(stack[Main])
    BY FirstOf DEF Stacks, Thread, Created
  <1>1. stack[Main][1].f = 0
    BY <1>0 DEF FramesHold, Holds, Holding
  <1>2. /\ stack'[Main][1].at = "insert" /\ stack'[Main][1].f = 0
        /\ stack'[c][1].at = "start" /\ stack'[c][1].f = 0
    BY <1>0, <1>1, FrameFields DEF Created, FrameSet
  <1>3. ASSUME NEW u \in Thread, NEW i \in 1 .. Len(stack'[u])
        PROVE  \/ stack'[u][i].f = 0 /\ stack'[u][i].at # "q_join"
               \/ u \notin {Main, c} /\ stack'[u] = stack[u]
    <2>1. CASE u \in {Main, c}
      <3> DEFINE n == Len(stack'[u])
      <3>1. i \in 1 .. n /\ n = 1
        BY <2>1 DEF Created
      <3> HIDE DEF n
      <3>2. i = 1
        BY <3>1
      <3> QED
        BY <1>2, <2>1, <3>2
    <2>2. CASE u \notin {Main, c}
      BY <2>2 DEF Created
    <2> QED
      BY <2>1, <2>2
  <1>4. ASSUME NEW u \in Thread, NEW i \in 1 .. Len(stack'[u])
        PROVE  Holds(stack[u][i])'
    BY <1>3 DEF Holds, FramesHold
  <1>5. ASSUME NEW u \in Thread, NEW v \in Thread, NEW i \in 1 .. Len(stack'[u]), NEW j \in 1 .. Len(stack'[v]),
               stack'[u][i].f # 0, stack'[u][i].f = stack'[v][j].f
        PROVE  u = v /\ i = j
    <2>1. stack'[u] = stack[u] /\ stack'[v] = stack[v]
      BY <1>3, <1>5
    <2> QED
      BY <1>5, <2>1 DEF FramesHold
  <1> QED
    BY <1>4, <1>5 DEF FramesHold

(* Sockets stay open. *)
SocketsKept == \A d \in Fd : fdtab[d] \in Conn \cup {"listen"} => fdtab'[d] = fdtab[d]

(* Workers keep their sockets while the sockets are left alone. *)
LEMMA OwnersKept ==
  ASSUME Types, WorkersOwn, SocketsKept, UNCHANGED <<fd, thread>>,
         \A c \in Conn : client'[c] = "out" => client[c] = "out"
  PROVE  WorkersOwn'
  BY FdFacts DEF WorkersOwn, Owned, SocketsKept, Types

(* Closing the descriptor of a frame keeps the sockets and the other files. *)
LEMMA CloseKeeps ==
  ASSUME Types, NEW t, NEW d \in Fd \cup {0}, d = stack[t][1].f, fdtab' = Closed(d),
         d # 0 => fdtab[d] \in {"read", "write"}
  PROVE  FilesKept(t) /\ SocketsKept
  <1>1. \A x \in Fd : x # d => fdtab'[x] = fdtab[x]
    BY DEF Closed
  <1>2. Conn \cap {"read", "write"} = {}
    BY ServerAssumption
  <1>3. 0 \notin Fd
    BY FdFacts
  <1> QED
    BY <1>1, <1>2, <1>3 DEF FilesKept, SocketsKept

(* A step that leaves the descriptor table alone keeps files and sockets. *)
LEMMA SameFiles ==
  ASSUME UNCHANGED fdtab, NEW t
  PROVE  FilesKept(t) /\ SocketsKept
  BY DEF FilesKept, SocketsKept

(* Until shutdown begins, no step touches another one's descriptor. *)
LEMMA DescriptorsStep ==
  ASSUME TypeInv, Fresh, Descriptors, FileStep
  PROVE  Descriptors'
  <1> USE DEF TypeInv
  <1>0. Main \in Thread /\ Conn \subseteq Thread /\ Main \notin Conn
    BY ServerAssumption DEF Thread
  <1> SUFFICES ASSUME ~should_quit' PROVE (FramesHold /\ WorkersOwn)'
    BY DEF Descriptors
  <1>q. ~should_quit /\ FramesHold /\ WorkersOwn
    <2>1. should_quit => should_quit'
      BY DEF FileStep, MainMove, NoMove, AcceptMove, CreateMove, EndMove, LockMove, OpenMove, PlainMove,
             LeaveMove, StampMove, QuitMove, SignalMove
    <2> QED
      BY <2>1 DEF Descriptors
  <1>top. ASSUME NEW t \in Thread, stack[t] # << >>
          PROVE  stack[t][1] \in FrameSet /\ 1 \in 1 .. Len(stack[t]) /\ Holds(stack[t][1])
    BY <1>q, <1>top, FirstOf DEF Stacks, FramesHold
  <1>ne. ASSUME NEW t \in Thread, NEW fr, Moved(t, fr) \/ Popped(t) PROVE stack[t] # << >>
    BY <1>ne, EmptySeq DEF Moved, Popped
  <1>1. CASE MainMove
    <2>1. PICK from, to \in MainLabels : Step(Main, from, to)
      BY <1>1 DEF MainMove
    <2>2. Moved(Main, stack'[Main][1]) /\ stack'[Main][1].at = to /\ stack[Main][1].at = from
      BY <2>1 DEF Step
    <2>3. Holds(stack[Main][1])
      BY <1>0, <1>top, <1>ne, <2>2
    <2>4. stack'[Main][1].f = 0
      BY <1>1, <2>2, <2>3 DEF MainMove, Holds, Holding
    <2>5. FilesKept(Main) /\ SocketsKept
      BY <1>1, SameFiles DEF MainMove, FileUse
    <2>6. FramesHold'
      BY <1>0, <1>q, <2>2, <2>4, <2>5, FramesMoved
    <2>7. WorkersOwn'
      BY <1>0, <1>1, <1>q, <2>2, <2>5, OwnersKept DEF MainMove, FileUse
    <2> QED
      BY <2>6, <2>7
  <1>2. CASE NoMove
    <2>1. FramesHold'
      BY <1>2, <1>q DEF NoMove, FramesHold, Holds
    <2>2. WorkersOwn'
      BY <1>2, <1>q, SameFiles, OwnersKept DEF NoMove
    <2> QED
      BY <2>1, <2>2
  <1>3. ASSUME NEW c \in Conn, AcceptMove(c) PROVE (FramesHold /\ WorkersOwn)'
    <2>1. Moved(Main, stack'[Main][1]) /\ stack'[Main][1].at = "accepted" /\ stack'[Main][1].f = 0
      BY <1>3 DEF AcceptMove, Step
    <2>2. CASE UNCHANGED <<fdtab, fd, client>>
      <3>1. FilesKept(Main) /\ SocketsKept
        BY <2>2, SameFiles
      <3>2. FramesHold'
        BY <1>0, <1>q, <2>1, <3>1, FramesMoved
      <3>3. WorkersOwn'
        BY <1>0, <1>3, <1>q, <2>1, <2>2, <3>1, OwnersKept DEF AcceptMove
      <3> QED
        BY <3>2, <3>3
    <2>3. CASE ~UNCHANGED <<fdtab, fd, client>>
      <3>1. PICK d \in Fd : /\ fdtab[d] = Free
                            /\ fdtab' = [fdtab EXCEPT ![d] = c] /\ fd' = [fd EXCEPT ![c] = d]
                            /\ client' = [client EXCEPT ![c] = "connected"]
        BY <1>3, <2>3 DEF AcceptMove
      <3>2. /\ fdtab'[d] = c /\ \A x \in Fd \ {d} : fdtab'[x] = fdtab[x]
            /\ fd'[c] = d /\ \A x \in Conn \ {c} : fd'[x] = fd[x] /\ client'[x] = client[x]
            /\ client'[c] = "connected"
        BY <3>1 DEF Types
      <3>3. Free \notin Conn \cup {"listen", "read", "write"}
        BY ServerAssumption
      <3>4. FilesKept(Main)
        BY <3>1, <3>2, <3>3 DEF FilesKept
      <3>5. FramesHold'
        BY <1>0, <1>q, <2>1, <3>4, FramesMoved
      <3>7. UNCHANGED thread
        BY <1>3 DEF AcceptMove
      <3>8. fdtab'[parent_fd] = "listen"
        BY <1>q, <3>1, <3>2, <3>3, FdFacts DEF WorkersOwn
      <3>9. ASSUME NEW x \in Conn
            PROVE  /\ thread'[x] \in {"none", "running"} => Owned(x)'
                   /\ client'[x] = "out" => fd'[x] = 0
        <4>1. CASE x = c
          BY <1>q, <3>2, <3>7, <4>1 DEF WorkersOwn, Owned
        <4>2. CASE x # c
          <5>1. fd[x] \in Fd \cup {0} /\ fd'[x] = fd[x] /\ client'[x] = client[x] /\ thread'[x] = thread[x]
            BY <3>2, <3>7, <4>2 DEF Types
          <5>2. Owned(x) => Owned(x)'
            BY <3>1, <3>2, <3>3, <5>1 DEF Owned
          <5> QED
            BY <1>q, <5>1, <5>2 DEF WorkersOwn
        <4> QED
          BY <4>1, <4>2
      <3>10. WorkersOwn'
        BY <3>8, <3>9 DEF WorkersOwn
      <3> QED
        BY <3>5, <3>10
    <2> QED
      BY <2>2, <2>3
  <1>4. ASSUME NEW c \in Conn, CreateMove(c) PROVE (FramesHold /\ WorkersOwn)'
    <2>1. FramesHold'
      BY <1>4, <1>q, FramesCreated DEF CreateMove, FileUse
    <2>2. UNCHANGED <<fd, fdtab, client>> /\ thread' = [thread EXCEPT ![c] = "running"]
      BY <1>4 DEF CreateMove, FileUse
    <2>3. WorkersOwn'
      <3>1. ASSUME NEW x \in Conn
            PROVE  /\ thread'[x] \in {"none", "running"} => Owned(x)'
                   /\ client'[x] = "out" => fd'[x] = 0
        <4>1. CASE x # c
          BY <1>q, <2>2, <4>1 DEF WorkersOwn, Owned, Types
        <4>2. CASE x = c
          <5>0. Base(Main) = stack[Main][1] /\ stack[Main][1].e = c
            BY <1>4 DEF CreateMove, Created, Base
          <5>1. thread'[x] = "running" /\ thread[x] = "none"
            BY <1>4, <2>2, <4>2, <5>0 DEF CreateMove, Fresh, Types
          <5> QED
            BY <1>q, <2>2, <5>1 DEF WorkersOwn, Owned
        <4> QED
          BY <4>1, <4>2
      <3> QED
        BY <1>q, <2>2, <3>1 DEF WorkersOwn
    <2> QED
      BY <2>1, <2>3
  <1>5. ASSUME NEW c \in Conn, EndMove(c) PROVE (FramesHold /\ WorkersOwn)'
    <2>1. /\ Popped(c) /\ stack[c][1].at = "end" /\ fdtab' = Closed(fd[c])
          /\ thread' = [thread EXCEPT ![c] = "done"] /\ UNCHANGED <<fd, client>>
      BY <1>5 DEF EndMove
    <2>2. stack[c] # << >> /\ fd[c] \in Fd \cup {0}
      BY <1>0, <1>ne, <2>1 DEF Types
    <2>3. Owned(c)
      BY <1>q, <2>2 DEF Fresh, Works, WorkersOwn
    <2>4. \A d \in Fd : d # fd[c] => fdtab'[d] = fdtab[d]
      BY <2>1 DEF Closed
    <2>5. Conn \cap {"listen", "read", "write"} = {}
      BY ServerAssumption
    <2>6. FilesKept(c)
      BY <2>3, <2>4, <2>5, FdFacts DEF FilesKept, Owned
    <2>7. FramesHold'
      BY <1>0, <1>q, <2>1, <2>6, FramesPopped
    <2>8. fdtab'[parent_fd] = "listen"
      BY <1>q, <2>3, <2>4, <2>5, FdFacts DEF WorkersOwn, Owned
    <2>9. ASSUME NEW x \in Conn
          PROVE  /\ thread'[x] \in {"none", "running"} => Owned(x)'
                 /\ client'[x] = "out" => fd'[x] = 0
      <3>1. CASE x = c
        BY <1>q, <2>1, <3>1 DEF WorkersOwn, Types
      <3>2. CASE x # c
        <4>1. thread'[x] = thread[x] /\ fd'[x] = fd[x] /\ fd[x] \in Fd \cup {0} /\ client'[x] = client[x]
          BY <2>1, <3>2 DEF Types
        <4>2. Owned(x) => Owned(x)'
          BY <2>3, <2>4, <3>2, <4>1, FdFacts DEF Owned
        <4> QED
          BY <1>q, <4>1, <4>2 DEF WorkersOwn
      <3> QED
        BY <3>1, <3>2
    <2> QED
      BY <2>7, <2>8, <2>9 DEF WorkersOwn
  <1>6. ASSUME NEW t \in Thread, LockMove(t) PROVE (FramesHold /\ WorkersOwn)'
    <2>1. PICK from \in {"w_lock", "d_lock", "a_lock"}, to \in {"w_open", "d_open", "a_open"} : Step(t, from, to)
      BY <1>6 DEF LockMove
    <2>2. Moved(t, stack'[t][1]) /\ stack'[t][1].at = to /\ stack[t][1].at = from
      BY <2>1 DEF Step
    <2>3. Holds(stack[t][1])
      BY <1>top, <1>ne, <2>2
    <2>4. stack'[t][1].f = 0
      BY <1>6, <2>2, <2>3 DEF LockMove, SameFile, Holds, Holding
    <2>5. FilesKept(t) /\ SocketsKept /\ UNCHANGED <<fd, client, thread>>
      BY <1>6, SameFiles DEF LockMove
    <2> QED
      BY <1>q, <2>2, <2>4, <2>5, FramesMoved, OwnersKept
  <1>7. ASSUME NEW t \in Thread, OpenMove(t) PROVE (FramesHold /\ WorkersOwn)'
    <2>1. PICK from \in {"w_open", "d_open", "a_open"}, to \in {"w_write", "d_read", "a_text"} :
            /\ Step(t, from, to)
            /\ \/ \E d \in Fd : /\ fdtab[d] = Free
                                /\ fdtab' = [fdtab EXCEPT ![d] = Mode(to)]
                                /\ stack'[t][1].f = d
               \/ stack'[t][1].f = 0 /\ UNCHANGED fdtab
      BY <1>7 DEF OpenMove
    <2>2. Moved(t, stack'[t][1]) /\ stack'[t][1].at = to /\ stack[t][1].at = from
      BY <2>1 DEF Step
    <2>3. UNCHANGED <<fd, client, thread>>
      BY <1>7 DEF OpenMove
    <2>4. CASE stack'[t][1].f = 0 /\ UNCHANGED fdtab
      BY <1>q, <2>2, <2>3, <2>4, SameFiles, FramesMoved, OwnersKept
    <2>5. ASSUME NEW d \in Fd, fdtab[d] = Free, fdtab' = [fdtab EXCEPT ![d] = Mode(to)], stack'[t][1].f = d
          PROVE  (FramesHold /\ WorkersOwn)'
      <3>1. FramesHold'
        BY <1>q, <2>2, <2>5, FramesOpened DEF Holding
      <3>2. SocketsKept
        BY <2>5, ServerAssumption DEF SocketsKept, Types
      <3> QED
        BY <1>q, <2>3, <3>1, <3>2, OwnersKept
    <2> QED
      BY <2>1, <2>4, <2>5
  <1>8. ASSUME NEW t \in Thread, PlainMove(t) PROVE (FramesHold /\ WorkersOwn)'
    <2>1. PICK from, to \in WorkerLabels \cup HandlerLabels :
            /\ Step(t, from, to) /\ SameFile(t)
            /\ \/ from \in {"w_write", "a_text", "a_newline"} /\ to \in {"w_close", "a_newline", "a_close"}
               \/ from = "d_read" /\ to = "d_read"
               \/ from \in {"start", "loop", "recv"} /\ to \in {"loop", "recv", "end", "w_lock"}
      BY <1>8 DEF PlainMove
    <2>2. Moved(t, stack'[t][1]) /\ stack'[t][1].at = to /\ stack[t][1].at = from
      BY <2>1 DEF Step
    <2>3. Holds(stack[t][1]) /\ stack'[t][1].f = stack[t][1].f
      BY <1>top, <1>ne, <2>1, <2>2 DEF SameFile
    <2>4. FilesKept(t) /\ SocketsKept /\ UNCHANGED <<fdtab, fd, client, thread>>
      BY <1>8, SameFiles DEF PlainMove, FileUse
    <2>5. /\ to # "q_join"
          /\ stack'[t][1].f = 0 \/ (to \in Holding /\ Mode(to) = Mode(from))
      BY <2>1, <2>2, <2>3 DEF Holds, Holding, Mode
    <2>6. FramesHold'
      BY <1>q, <2>2, <2>3, <2>4, <2>5, FramesMoved
    <2> QED
      BY <1>q, <2>4, <2>6, OwnersKept
  <1>9. ASSUME NEW t \in Thread, LeaveMove(t) PROVE (FramesHold /\ WorkersOwn)'
    <2>1. PICK from \in {"w_close", "d_read"}, to \in {"d_lock", "loop"} : Step(t, from, to)
      BY <1>9 DEF LeaveMove
    <2>2. Moved(t, stack'[t][1]) /\ stack'[t][1].at = to
      BY <2>1 DEF Step
    <2>3. stack[t][1] \in FrameSet /\ Holds(stack[t][1])
      BY <1>top, <1>ne, <2>2
    <2>4. /\ stack[t][1].f \in Fd \cup {0}
          /\ stack[t][1].f # 0 => fdtab[stack[t][1].f] \in {"read", "write"}
      BY <2>3 DEF Holds, Mode, FrameSet
    <2>5. stack'[t][1].f = 0 /\ fdtab' = Closed(stack[t][1].f) /\ UNCHANGED <<fd, client, thread>>
      BY <1>9 DEF LeaveMove
    <2>6. FilesKept(t) /\ SocketsKept
      BY <2>4, <2>5, CloseKeeps
    <2>7. FramesHold'
      BY <1>q, <2>2, <2>5, <2>6, FramesMoved
    <2> QED
      BY <1>q, <2>5, <2>6, <2>7, OwnersKept
  <1>10. ASSUME NEW t \in Thread, StampMove(t) PROVE (FramesHold /\ WorkersOwn)'
    <2>1. Popped(t) /\ fdtab' = Closed(stack[t][1].f) /\ UNCHANGED <<fd, client, thread>>
      BY <1>10 DEF StampMove
    <2>2. stack[t][1] \in FrameSet /\ Holds(stack[t][1])
      BY <1>top, <1>ne, <2>1
    <2>3. /\ stack[t][1].f \in Fd \cup {0}
          /\ stack[t][1].f # 0 => fdtab[stack[t][1].f] \in {"read", "write"}
      BY <2>2 DEF Holds, Mode, FrameSet
    <2>4. FilesKept(t) /\ SocketsKept
      BY <2>1, <2>3, CloseKeeps
    <2> QED
      BY <1>q, <2>1, <2>4, FramesPopped, OwnersKept
  <1>11. ASSUME NEW t \in Thread, QuitMove(t) PROVE FALSE
    <2>1. stack[t][1].at = "q_join" /\ stack[t] # << >>
      BY <1>11, <1>q, <1>ne DEF QuitMove, Step
    <2> QED
      BY <1>top, <2>1 DEF Holds
  <1>12. ASSUME NEW t \in Thread, SignalMove(t) PROVE (FramesHold /\ WorkersOwn)'
    <2>1. PICK label \in {"a_lock", "q_quit"}, sig \in {"ALRM", "TERM", "INT"} :
            Pushed(t, Frame(label, Free, sig))
      BY <1>12 DEF SignalMove
    <2>2. Frame(label, Free, sig).at = label /\ Frame(label, Free, sig).f = 0
      BY FrameFields
    <2>3. SocketsKept /\ UNCHANGED <<fdtab, fd, client, thread>>
      BY <1>12, SameFiles DEF SignalMove, FileUse
    <2> QED
      BY <1>q, <2>1, <2>2, <2>3, FramesPushed, OwnersKept
  <1> QED
    BY <1>1, <1>2, <1>3, <1>4, <1>5, <1>6, <1>7, <1>8, <1>9, <1>10, <1>11, <1>12 DEF FileStep

(* Nobody holds a descriptor when the server starts. *)
LEMMA DescriptorsInit == Init => Descriptors
  <1> SUFFICES ASSUME Init PROVE FramesHold /\ WorkersOwn
    BY DEF Descriptors
  <1>1. ASSUME NEW t \in Thread, NEW i \in 1 .. Len(stack[t])
        PROVE  stack[t][i].at = "accept" /\ stack[t][i].f = 0
    <2>1. stack[t] = IF t = Main THEN <<Frame("accept", Free, Free)>> ELSE << >>
      BY DEF Init
    <2>2. CASE t # Main
      <3>1. stack[t] = << >> /\ Len(<< >>) = 0
        BY <2>1, <2>2
      <3> QED
        BY <3>1
    <2>3. CASE t = Main
      <3> DEFINE n == Len(stack[t])
      <3>1. i \in 1 .. n /\ n = 1
        BY <2>1, <2>3
      <3> HIDE DEF n
      <3>2. i = 1
        BY <3>1
      <3> QED
        BY <2>1, <2>3, <3>2, FrameFields
    <2> QED
      BY <2>2, <2>3
  <1>2. FramesHold
    BY <1>1 DEF FramesHold, Holds
  <1>3. WorkersOwn
    BY FdFacts DEF WorkersOwn, Owned, Init, Listening
  <1> QED
    BY <1>2, <1>3

(* Until the server is told to quit nobody closes a socket or a file under *)
(* a thread that uses it: for any connections, signals and faults.         *)
THEOREM ServerDescriptorsAreOwn == Spec => []DescriptorsAreOwn
  <1> DEFINE Inv == TypeInv /\ Fresh /\ Descriptors
  <1>1. Init => Inv
    BY InitTypes, FreshInit, DescriptorsInit
  <1>2. Inv /\ [Next]_vars => Inv'
    BY NextTypes, ControlSteps, FileSteps, FreshStep, DescriptorsStep
  <1>3. Inv => DescriptorsAreOwn
    <2> SUFFICES ASSUME Inv, ~should_quit PROVE DescriptorsAreOwn
      BY DEF DescriptorsAreOwn
    <2>1. \A c \in Conn : stack[c] # << >> => Owned(c)
      BY DEF Fresh, Works, Descriptors, WorkersOwn
    <2>2. \A t \in Thread : \A i \in 1 .. Len(stack[t]) :
            stack[t][i].f # 0 => fdtab[stack[t][i].f] = Mode(stack[t][i].at)
      BY DEF Descriptors, FramesHold, Holds
    <2> QED
      BY <2>1, <2>2 DEF DescriptorsAreOwn, InWorker, Owned, Mode
  <1> QED
    BY <1>1, <1>2, <1>3, PTL DEF Spec

-----------------------------------------------------------------------------
(* The list, and the mutex that is handed to the new worker. *)

(* The listed nodes are live and listed once; main's node is new. *)
Nodes ==
  /\ \A i \in 1 .. Len(list) : list[i] \in Conn /\ node[list[i]] = "live"
  /\ \A i, j \in 1 .. Len(list) : list[i] = list[j] => i = j
  /\ alive => /\ Base(Main).at = "accepted" => Base(Main).e \in Conn \/ should_quit
              /\ Base(Main).at = "lock_list" => Base(Main).e \in Conn
              /\ Base(Main).at \in {"create", "insert"} =>
                   Base(Main).e \in Conn /\ node[Base(Main).e] = "live" /\ ~Listed(Base(Main).e)

Hand ==
  /\ \A c \in Conn : Starting(c) => linked_list_mutex = Main /\ Base(Main).at # "create"
  /\ \A c, d \in Conn : Starting(c) /\ Starting(d) => c = d
  /\ Base(Main).at = "create" => linked_list_mutex = Main
  /\ linked_list_mutex = Main =>
       \/ Base(Main).at = "create"
       \/ \E c \in Conn : Starting(c) \/ (node[c] # "none" /\ thread[c] = "none")

(* Every step keeps the list's nodes allocated until cleanup frees them. *)
LEMMA NodesStep ==
  ASSUME TypeInv, Fresh, Descriptors, Nodes, ControlStep
  PROVE  Nodes'
  <1> USE DEF TypeInv, NodeUse, Keeps
  <1>0. Main \notin Conn /\ Free \notin Conn
    BY ServerAssumption
  <1>t. /\ node \in [Conn -> {"none", "live", "freed"}]
        /\ should_quit \in BOOLEAN /\ alive \in BOOLEAN
    BY DEF Types
  <1>1. ASSUME NEW c \in Conn, AcceptStep(c) PROVE Nodes'
    <2>1. Base(Main)'.at = "accepted" /\ Base(Main)'.e = c
      BY <1>1, MainBase DEF AcceptStep
    <2> QED
      BY <1>1, <2>1 DEF AcceptStep, Nodes
  <1>2. CASE ClosedStep
    <2>1. Base(Main)'.at = "accepted"
      BY <1>2, MainBase DEF ClosedStep
    <2>2. should_quit
      BY <1>2 DEF ClosedStep, Descriptors, WorkersOwn
    <2> QED
      BY <1>2, <2>1, <2>2 DEF ClosedStep, Nodes
  <1>3. CASE CheckStep
    <2>1. Base(Main)'.at = "lock_list" /\ Base(Main)'.e = Base(Main).e /\ Base(Main).at = "accepted"
      BY <1>3, MainBase DEF CheckStep, SameNode
    <2>2. alive' => Base(Main).e \in Conn
      BY <1>3, <2>1 DEF CheckStep, Step, Nodes
    <2> QED
      BY <1>3, <2>1, <2>2 DEF CheckStep, Nodes
  <1>4. CASE LockStep
    <2>1. /\ Base(Main)'.at = "create" /\ Base(Main)'.e = Base(Main).e /\ Base(Main).at = "lock_list"
          /\ Base(Main).e = stack[Main][1].e /\ alive
      BY <1>4, MainBase DEF LockStep, SameNode, Step
    <2>2. node' = [node EXCEPT ![Base(Main).e] = "live"] /\ UNCHANGED list
      BY <1>4, <2>1 DEF LockStep
    <2>3. Base(Main).e \in Conn /\ ~Listed(Base(Main).e)
      BY <2>1 DEF Nodes, Fresh
    <2>4. ~Listed(Base(Main).e)'
      BY <2>1, <2>2, <2>3 DEF Listed
    <2> QED
      BY <1>t, <2>1, <2>2, <2>3, <2>4 DEF Nodes
  <1>5. ASSUME NEW c \in Conn, CreateStep(c) PROVE Nodes'
    <2>1. /\ Base(Main).at = "create" /\ Base(Main).e = c /\ Base(Main)'.at = "insert" /\ Base(Main)'.e = c
      BY <1>5, CreateBase
    <2>2. UNCHANGED <<alive, list, node>>
      BY <1>5 DEF CreateStep
    <2> QED
      BY <2>1, <2>2 DEF Nodes, Listed
  <1>6. CASE FailStep
    <2>1. Base(Main)'.at = "insert" /\ Base(Main)'.e = Base(Main).e /\ Base(Main).at = "create"
      BY <1>6, MainBase DEF FailStep, SameNode
    <2> QED
      BY <1>6, <2>1 DEF FailStep, Nodes, Listed
  <1>7. CASE InsertStep
    <2>1. /\ Base(Main)'.at = "accept" /\ Base(Main).at = "insert" /\ Base(Main).e = stack[Main][1].e
          /\ alive /\ UNCHANGED node
      BY <1>7, MainBase DEF InsertStep, Step
    <2> DEFINE e == Base(Main).e
               n == Len(list)
    <2>2. e \in Conn /\ node[e] = "live" /\ \A i \in 1 .. n : list[i] # e
      BY <2>1 DEF Nodes, Listed
    <2>3. /\ n \in Nat /\ Len(list') = n + 1 /\ list'[n + 1] = e
          /\ \A i \in 1 .. n : list'[i] = list[i]
      BY <1>7, <2>1, <2>2, AppendList DEF InsertStep
    <2>4. /\ \A i \in 1 .. n : list[i] \in Conn /\ node[list[i]] = "live"
          /\ \A i, j \in 1 .. n : list[i] = list[j] => i = j
      BY DEF Nodes
    <2> HIDE DEF e, n
    <2>5. \A i : i \in 1 .. n + 1 <=> i \in 1 .. n \/ i = n + 1
      BY <2>3
    <2>6. \A i \in 1 .. n + 1 : list'[i] \in Conn /\ node[list'[i]] = "live"
      BY <2>2, <2>3, <2>4, <2>5
    <2>7. \A i, j \in 1 .. n + 1 : list'[i] = list'[j] => i = j
      BY <2>2, <2>3, <2>4, <2>5
    <2> QED
      BY <2>1, <2>3, <2>6, <2>7 DEF Nodes
  <1>8. ASSUME NEW t \in Thread, FreeStep(t) PROVE Nodes'
    <2>1. Base(Main)' = Base(Main)
      BY <1>8, QuietBase
    <2>2. /\ \A c \in Conn : ~Listed(c) => node'[c] = node[c]
          /\ list' = << >> /\ UNCHANGED <<alive, should_quit>>
      BY <1>8 DEF FreeStep, Listed
    <2>3. Len(list') = 0 /\ \A c : ~Listed(c)'
      BY <2>2, EmptySeq DEF Listed
    <2> QED
      BY <2>1, <2>2, <2>3 DEF Nodes
  <1>9. ASSUME NEW c \in Conn, StartStep(c) \/ EndStep(c) PROVE Nodes'
    <2>1. Base(Main)' = Base(Main)
      BY <1>9, StartBase, EndBase
    <2>2. UNCHANGED <<alive, should_quit, list, node>>
      BY <1>9 DEF StartStep, EndStep
    <2> QED
      BY <2>1, <2>2 DEF Nodes, Listed
  <1>10. CASE \/ PipeStep \/ IdleStep
              \/ \E t \in Thread : \/ WorkStep(t) \/ StampStep(t) \/ QuitStep(t) \/ JoinStep(t) \/ CrashStep(t)
                                   \/ AlarmStep(t) \/ \E sig \in {"TERM", "INT"} : TermStep(t, sig)
    <2>1. Base(Main)' = Base(Main)
      BY <1>10, QuietBase
    <2>2. UNCHANGED <<list, node>> /\ (alive' => alive) /\ (should_quit => should_quit')
      <3>1. CASE PipeStep \/ IdleStep
        BY <3>1 DEF PipeStep, IdleStep
      <3>2. ASSUME NEW t \in Thread, WorkStep(t) \/ StampStep(t) \/ AlarmStep(t)
            PROVE  UNCHANGED <<alive, should_quit, list, node>>
        BY <3>2 DEF WorkStep, StampStep, AlarmStep
      <3>3. ASSUME NEW t \in Thread, QuitStep(t)
            PROVE  UNCHANGED <<alive, list, node>> /\ should_quit'
        BY <3>3 DEF QuitStep
      <3>4. ASSUME NEW t \in Thread, JoinStep(t)
            PROVE  UNCHANGED <<alive, should_quit, list, node>>
        BY <3>4 DEF JoinStep
      <3>5. ASSUME NEW t \in Thread, CrashStep(t)
            PROVE  UNCHANGED <<should_quit, list, node>> /\ ~alive'
        BY <3>5 DEF CrashStep
      <3>6. ASSUME NEW t \in Thread, NEW sig \in {"TERM", "INT"}, TermStep(t, sig)
            PROVE  UNCHANGED <<alive, should_quit, list, node>>
        BY <3>6 DEF TermStep
      <3> HIDE DEF PipeStep, IdleStep, WorkStep, StampStep, QuitStep, JoinStep, CrashStep, AlarmStep, TermStep
      <3> QED
        BY <1>10, <3>1, <3>2, <3>3, <3>4, <3>5, <3>6
    <2> QED
      BY <2>1, <2>2 DEF Nodes, Listed
  <1> QED
    BY <1>1, <1>2, <1>3, <1>4, <1>5, <1>6, <1>7, <1>8, <1>9, <1>10 DEF ControlStep

(* Every step keeps linked_list_mutex with the accept loop or on its way to *)
(* a worker.                                                                *)
LEMMA HandStep ==
  ASSUME TypeInv, Fresh, Nodes, Hand, ControlStep
  PROVE  Hand'
  <1> USE DEF TypeInv, NodeUse, Keeps
  <1>0. Main \notin Conn /\ Free \notin Conn /\ Main # Free
    BY ServerAssumption
  <1>t. /\ node \in [Conn -> {"none", "live", "freed"}]
        /\ thread \in [Conn -> {"none", "running", "done", "joined"}]
        /\ linked_list_mutex \in {Main, Free}
    BY DEF Types
  <1>1. ASSUME NEW from \in {"accept", "accepted", "insert"}, NEW to \in {"accepted", "lock_list", "accept"}, Step(Main, from, to),
               UNCHANGED <<linked_list_mutex, node, thread>>
        PROVE  Hand'
    <2>1. Base(Main)'.at = to /\ Base(Main).at = from /\ WorkersSame({})
      BY <1>1, MainBase
    <2> QED
      BY <1>1, <2>1 DEF Hand, WorkersSame
  <1>2. CASE LockStep
    <2>1. Base(Main)'.at = "create" /\ Base(Main).at = "lock_list" /\ WorkersSame({})
      BY <1>2, MainBase DEF LockStep
    <2>2. \A c \in Conn : ~Starting(c)'
      BY <1>0, <1>2, <2>1 DEF LockStep, Hand, WorkersSame
    <2> QED
      BY <1>2, <2>1, <2>2 DEF LockStep, Hand
  <1>3. ASSUME NEW c \in Conn, CreateStep(c) PROVE Hand'
    <2>1. /\ Base(Main).at = "create" /\ Base(Main)'.at = "insert"
          /\ Starting(c)' /\ WorkersSame({c})
      BY <1>3, CreateBase
    <2>2. \A d \in Conn : Starting(d)' <=> d = c
      BY <2>1 DEF Hand, WorkersSame
    <2>3. linked_list_mutex' = Main
      BY <1>3, <2>1 DEF CreateStep, Hand
    <2> QED
      BY <2>1, <2>2, <2>3 DEF Hand
  <1>4. CASE FailStep
    <2>1. Base(Main)'.at = "insert" /\ Base(Main).at = "create" /\ WorkersSame({}) /\ alive
      BY <1>4, MainBase DEF FailStep, Step
    <2>2. Base(Main).e \in Conn /\ node[Base(Main).e] # "none" /\ thread[Base(Main).e] = "none"
      BY <2>1 DEF Nodes, Fresh
    <2>3. UNCHANGED <<linked_list_mutex, node, thread>>
      BY <1>4 DEF FailStep
    <2>4. \A c \in Conn : ~Starting(c)'
      BY <2>1 DEF Hand, WorkersSame
    <2>5. \E c \in Conn : node'[c] # "none" /\ thread'[c] = "none"
      BY <2>2, <2>3
    <2> QED
      BY <2>1, <2>4, <2>5 DEF Hand
  <1>5. ASSUME NEW c \in Conn, StartStep(c) PROVE Hand'
    <2>1. Base(Main)' = Base(Main) /\ Starting(c) /\ ~Starting(c)' /\ WorkersSame({c})
      BY <1>5, StartBase
    <2>2. \A d \in Conn : ~Starting(d)'
      BY <2>1 DEF Hand, WorkersSame
    <2>3. linked_list_mutex' # Main /\ Base(Main).at # "create"
      BY <1>0, <1>5, <2>1 DEF StartStep, Hand
    <2> QED
      BY <2>1, <2>2, <2>3 DEF Hand
  <1>6. ASSUME NEW c \in Conn, EndStep(c) PROVE Hand'
    <2>1. Base(Main)' = Base(Main) /\ Works(c) /\ ~Starting(c) /\ ~Starting(c)' /\ WorkersSame({c})
      BY <1>6, EndBase
    <2>2. thread[c] = "running" /\ \A d \in Conn : d # c => thread'[d] = thread[d]
      BY <1>6, <1>t, <2>1 DEF EndStep, Fresh
    <2>3. \A d \in Conn : Starting(d)' <=> Starting(d)
      BY <2>1 DEF WorkersSame
    <2>4. UNCHANGED <<linked_list_mutex, node>>
      BY <1>6 DEF EndStep
    <2>5. \A d \in Conn : node[d] # "none" /\ thread[d] = "none" => node'[d] # "none" /\ thread'[d] = "none"
      BY <2>2, <2>4
    <2> QED
      BY <2>1, <2>3, <2>4, <2>5 DEF Hand
  <1>7. CASE \/ PipeStep \/ IdleStep
             \/ \E t \in Thread : \/ WorkStep(t) \/ StampStep(t) \/ QuitStep(t) \/ JoinStep(t) \/ CrashStep(t)
                                  \/ FreeStep(t) \/ AlarmStep(t) \/ \E sig \in {"TERM", "INT"} : TermStep(t, sig)
    <2>1. Base(Main)' = Base(Main) /\ WorkersSame({})
      BY <1>7, QuietBase
    <2>2. UNCHANGED linked_list_mutex
      BY <1>7 DEF PipeStep, IdleStep, WorkStep, StampStep, QuitStep, JoinStep, CrashStep, FreeStep, AlarmStep, TermStep
    <2>3. \A d \in Conn : node[d] # "none" /\ thread[d] = "none" => node'[d] # "none" /\ thread'[d] = "none"
      <3>1. CASE \E t \in Thread : JoinStep(t)
        BY <1>t, <3>1 DEF JoinStep
      <3>2. CASE \E t \in Thread : FreeStep(t)
        BY <3>2 DEF FreeStep
      <3>3. CASE UNCHANGED <<node, thread>>
        BY <3>3
      <3> QED
        BY <1>7, <3>1, <3>2, <3>3 DEF PipeStep, IdleStep, WorkStep, StampStep, QuitStep, CrashStep, AlarmStep, TermStep
    <2> QED
      BY <2>1, <2>2, <2>3 DEF Hand, WorkersSame
  <1>8. CASE ClosedStep \/ CheckStep \/ InsertStep \/ \E c \in Conn : AcceptStep(c)
    BY <1>1, <1>8 DEF ClosedStep, CheckStep, InsertStep, AcceptStep
  <1> QED
    BY <1>2, <1>3, <1>4, <1>5, <1>6, <1>7, <1>8 DEF ControlStep

ServerInv == TypeInv /\ Fresh /\ Descriptors /\ Nodes /\ Hand

(* The invariant holds when the server starts. *)
LEMMA ServerInvInit == Init => ServerInv
  <1> SUFFICES ASSUME Init PROVE Nodes /\ Hand
    BY InitTypes, FreshInit, DescriptorsInit DEF ServerInv
  <1>1. stack[Main] = <<Frame("accept", Free, Free)>> /\ \A c \in Conn : stack[c] = << >>
    BY ServerAssumption DEF Init, Thread
  <1>2. Base(Main) = Frame("accept", Free, Free)
    BY <1>1 DEF Base
  <1>3. Base(Main).at = "accept"
    BY <1>2, FrameFields
  <1>4. Len(list) = 0 /\ linked_list_mutex # Main
    BY EmptySeq, ServerAssumption DEF Init
  <1> QED
    BY <1>1, <1>3, <1>4 DEF Nodes, Hand, Starting, InWorker

(* The invariant is inductive. *)
LEMMA ServerInvNext == ServerInv /\ [Next]_vars => ServerInv'
  BY NextTypes, ControlSteps, FileSteps, FreshStep, DescriptorsStep, NodesStep, HandStep DEF ServerInv

(* The invariant holds always, whatever fails. *)
LEMMA ServerInvariant == Spec => []ServerInv
  BY ServerInvInit, ServerInvNext, PTL DEF Spec

(* Type correctness.  That only nodes of connections are listed needs that *)
(* accept returns without a connection only during a shutdown, and that    *)
(* the loop ends then.                                                     *)
THEOREM ServerTypeOK == Spec => []TypeOK
  <1>1. ServerInv => TypeOK
    <2> SUFFICES ASSUME ServerInv PROVE TypeOK
      OBVIOUS
    <2>1. list \in Seq(Conn)
      <3>1. list \in Seq(Conn \cup {Free}) /\ \A i \in 1 .. Len(list) : list[i] \in Conn
        BY DEF ServerInv, TypeInv, Types, Nodes
      <3>2. Len(list) \in Nat /\ list = [i \in 1 .. Len(list) |-> list[i]]
        BY <3>1, LenProperties
      <3> QED
        BY <3>1, <3>2, IsASeq
    <2>2. \A t \in Thread : \A i \in 1 .. Len(stack[t]) : stack[t][i] \in FrameSet
      BY ElementOfSeq DEF ServerInv, TypeInv, Stacks
    <2> QED
      BY <2>1, <2>2 DEF ServerInv, TypeInv, Types, TypeOK, FrameSet
  <1> QED
    BY <1>1, ServerInvariant, PTL

(* The mutex of the list, locked by the accept loop and unlocked by the    *)
(* new worker, is handed over correctly: for any number of connections and *)
(* signals, whatever fails.                                                *)
THEOREM ServerHandOver == Spec => []HandOver
  <1>1. ServerInv => HandOver
    <2> SUFFICES ASSUME ServerInv PROVE HandOver
      OBVIOUS
    <2> DEFINE starting == {c \in Conn : InWorker(c, {"start"})}
    <2>1. \A c \in Conn : c \in starting <=> Starting(c)
      BY DEF Starting
    <2> HIDE DEF starting
    <2>2. starting \subseteq Conn
      BY DEF starting
    <2>3. ASSUME starting # {}
          PROVE  linked_list_mutex = Main /\ Base(Main).at # "create" /\ Cardinality(starting) = 1
      <3>1. PICK c \in starting : TRUE
        BY <2>3
      <3>2. starting = {c}
        BY <2>1, <2>2, <3>1 DEF ServerInv, Hand
      <3>3. Cardinality(starting) = 1
        BY <3>2, FS_Singleton
      <3> QED
        BY <2>1, <2>2, <3>1, <3>3 DEF ServerInv, Hand
    <2>4. linked_list_mutex = Main => Base(Main).at = "create" \/ starting # {} \/ NoThread # {}
      BY <2>1, <2>2 DEF ServerInv, Hand, NoThread
    <2> QED
      BY <2>3, <2>4 DEF HandOver, starting
  <1> QED
    BY <1>1, ServerInvariant, PTL

-----------------------------------------------------------------------------
(* The shutdown, for at most one quit signal. *)

QuitLabels == {"q_quit", "q_join"}

(* A worker nobody has to wait for any more. *)
Over(c) == thread[c] \in {"none", "joined"}

(* How far a shutdown has come that goes on to join the thread of e. *)
Walk(e) ==
  /\ e = Free => \A i \in 1 .. Len(list) : Over(list[i])
  /\ e # Free => \E k \in 1 .. Len(list) :
       /\ list[k] = e
       /\ \A j \in 1 .. Len(list) : (j < k => Over(list[j])) /\ (j >= k => thread[list[j]] # "joined")

Walked == {e \in Conn \cup {Free} : Walk(e)}

(* A frame fr of thread t. *)
QuitFrame(t, fr) ==
  /\ fr.sig \in {"TERM", "INT"} => fr.at \in QuitLabels
  /\ fr.at \in QuitLabels => t = Main /\ quits > 0
  /\ fr.at = "q_quit" => ~should_quit
  /\ fr.at = "q_join" => should_quit /\ fr.e \in Walked

QuitFrames == \A t \in Thread : \A i \in 1 .. Len(stack[t]) : QuitFrame(t, stack[t][i])

(* The handler of a quit signal runs once. *)
OneQuit ==
  \A t, u \in Thread : \A i \in 1 .. Len(stack[t]), j \in 1 .. Len(stack[u]) :
    stack[t][i].at \in QuitLabels /\ stack[u][j].at \in QuitLabels => t = u /\ i = j

NoQuit == \A t \in Thread : \A i \in 1 .. Len(stack[t]) : stack[t][i].at \notin QuitLabels

QuitState ==
  /\ quits = 0 => ~should_quit
  /\ \A c \in Conn : /\ thread[c] = "joined" => should_quit
                     /\ node[c] = "freed" => Over(c)

QuitInv == QuitFrames /\ OneQuit /\ QuitState

(* Where the frames come from when one is replaced. *)
LEMMA MovedFrom ==
  ASSUME NEW t \in Thread, NEW fr, Moved(t, fr), NEW u \in Thread, NEW i \in 1 .. Len(stack'[u])
  PROVE  /\ i \in 1 .. Len(stack[u]) /\ 1 \in 1 .. Len(stack[t])
         /\ \/ u = t /\ i = 1 /\ stack'[u][i] = fr
            \/ ~(u = t /\ i = 1) /\ stack'[u][i] = stack[u][i]
  BY DEF Moved

(* A thread that does not start a second quit handler leaves one at most. *)
LEMMA OneQuitKept ==
  ASSUME OneQuit, NEW t \in Thread, NEW fr,
         \/ Moved(t, fr) /\ (fr.at \in QuitLabels => stack[t][1].at \in QuitLabels)
         \/ Pushed(t, fr) /\ (fr.at \in QuitLabels => NoQuit)
         \/ Popped(t)
  PROVE  OneQuit'
  <1> SUFFICES ASSUME NEW u \in Thread, NEW v \in Thread,
                      NEW i \in 1 .. Len(stack'[u]), NEW j \in 1 .. Len(stack'[v]),
                      stack'[u][i].at \in QuitLabels, stack'[v][j].at \in QuitLabels
               PROVE  u = v /\ i = j
    BY DEF OneQuit
  <1>1. CASE Moved(t, fr) /\ (fr.at \in QuitLabels => stack[t][1].at \in QuitLabels)
    <2>1. i \in 1 .. Len(stack[u]) /\ stack[u][i].at \in QuitLabels
      BY <1>1, MovedFrom
    <2>2. j \in 1 .. Len(stack[v]) /\ stack[v][j].at \in QuitLabels
      BY <1>1, MovedFrom
    <2> QED
      BY <2>1, <2>2 DEF OneQuit
  <1>2. CASE Pushed(t, fr) /\ (fr.at \in QuitLabels => NoQuit)
    <2> DEFINE Old(w, k) == IF w = t THEN k - 1 ELSE k
    <2>1. CASE fr.at \notin QuitLabels
      <3>1. Old(u, i) \in 1 .. Len(stack[u]) /\ stack[u][Old(u, i)].at \in QuitLabels
        BY <1>2, <2>1, PushedFrom
      <3>2. Old(v, j) \in 1 .. Len(stack[v]) /\ stack[v][Old(v, j)].at \in QuitLabels
        BY <1>2, <2>1, PushedFrom
      <3>3. u = v /\ Old(u, i) = Old(v, j)
        <4> HIDE DEF Old
        <4> QED
          BY <3>1, <3>2 DEF OneQuit
      <3>4. i \in Int /\ j \in Int
        OBVIOUS
      <3> QED
        BY <3>3, <3>4
    <2>2. CASE NoQuit
      <3>0. ASSUME NEW w \in Thread, NEW k \in 1 .. Len(stack'[w]), stack'[w][k].at \in QuitLabels
            PROVE  w = t /\ k = 1
        <4>1. \A x \in 1 .. Len(stack[w]) : stack[w][x].at \notin QuitLabels
          BY <2>2 DEF NoQuit
        <4>2. \/ w = t /\ k = 1
              \/ \E x \in 1 .. Len(stack[w]) : stack'[w][k] = stack[w][x]
          BY <1>2, PushedFrom
        <4> QED
          BY <3>0, <4>1, <4>2
      <3> QED
        BY <3>0
    <2> QED
      BY <1>2, <2>1, <2>2
  <1>3. CASE Popped(t)
    <2> DEFINE Old(w, k) == IF w = t THEN k + 1 ELSE k
    <2>1. Old(u, i) \in 1 .. Len(stack[u]) /\ stack[u][Old(u, i)].at \in QuitLabels
      BY <1>3, PoppedFrom
    <2>2. Old(v, j) \in 1 .. Len(stack[v]) /\ stack[v][Old(v, j)].at \in QuitLabels
      BY <1>3, PoppedFrom
    <2>3. u = v /\ Old(u, i) = Old(v, j)
      <3> HIDE DEF Old
      <3> QED
        BY <2>1, <2>2 DEF OneQuit
    <2>4. i \in Int /\ j \in Int
      OBVIOUS
    <2> QED
      BY <2>3, <2>4
  <1> QED
    BY <1>1, <1>2, <1>3

(* When the frame on top of the stack of t, a quit frame, is replaced or   *)
(* returns, no other is left.                                              *)
LEMMA OthersNoQuit ==
  ASSUME OneQuit, NEW t \in Thread, NEW fr, stack[t][1].at \in QuitLabels, Moved(t, fr) \/ Popped(t),
         NEW u \in Thread, NEW i \in 1 .. Len(stack'[u])
  PROVE  \/ Moved(t, fr) /\ u = t /\ i = 1 /\ stack'[u][i] = fr
         \/ stack'[u][i].at \notin QuitLabels /\ \E k \in 1 .. Len(stack[u]) : stack'[u][i] = stack[u][k]
  <1>1. CASE Moved(t, fr)
    BY <1>1, MovedFrom DEF OneQuit
  <1>2. CASE Popped(t)
    <2>1. PICK k \in 1 .. Len(stack[u]) : stack'[u][i] = stack[u][k] /\ (u = t => k # 1)
      BY <1>2, PoppedFrom
    <2>2. 1 \in 1 .. Len(stack[t])
      BY <1>2, PoppedFrom
    <2> QED
      BY <2>1, <2>2 DEF OneQuit
  <1> QED
    BY <1>1, <1>2

(* No quit frame is there while the accept loop runs. *)
LEMMA MainNoQuit ==
  ASSUME QuitFrames, NEW from \in MainLabels, stack[Main][1].at = from, Len(stack[Main]) = 1
  PROVE  NoQuit
  <1> SUFFICES ASSUME NEW t \in Thread, NEW i \in 1 .. Len(stack[t]), stack[t][i].at \in QuitLabels PROVE FALSE
    BY DEF NoQuit
  <1>1. t = Main
    BY DEF QuitFrames, QuitFrame
  <1> DEFINE n == Len(stack[Main])
  <1>2. n = 1 /\ i \in 1 .. n
    BY <1>1
  <1> HIDE DEF n
  <1>3. i = 1
    BY <1>2
  <1> QED
    BY <1>1, <1>3 DEF QuitLabels

(* Neither the list nor should_quit changes, and threads at most end. *)
Mild ==
  /\ UNCHANGED <<list, should_quit>> /\ (quits > 0 => quits' > 0)
  /\ \A c \in Conn : thread'[c] = thread[c] \/ (thread[c] = "running" /\ thread'[c] = "done")

(* While the list stays and threads only end, what the walk has joined      *)
(* stays joined.                                                            *)
LEMMA MildKeeps ==
  ASSUME Nodes, Mild
  PROVE  Walked \subseteq Walked'
  <1>1. \A c \in Conn : Over(c) => Over(c)'
    BY DEF Mild, Over
  <1>2. \A c \in Conn : thread[c] # "joined" => thread'[c] # "joined"
    BY DEF Mild
  <1>3. \A i \in 1 .. Len(list) : list[i] \in Conn
    BY DEF Nodes
  <1>4. \A e : Walk(e) => Walk(e)'
    BY <1>1, <1>2, <1>3 DEF Mild, Walk
  <1> QED
    BY <1>4 DEF Walked

(* A frame that is not a quit handler's. *)
Plain(fr) == fr.at \notin QuitLabels /\ fr.sig \notin {"TERM", "INT"}

(* The frames stay right when none is a quit handler's, or while what they *)
(* say of the list holds.                                                  *)
LEMMA QuitFramesKept ==
  ASSUME Nodes, QuitFrames, NoQuit \/ Mild, NEW t \in Thread, NEW fr,
         (Moved(t, fr) /\ Plain(fr)) \/ (Pushed(t, fr) /\ Plain(fr)) \/ Popped(t)
  PROVE  QuitFrames'
  <1> SUFFICES ASSUME NEW u \in Thread, NEW i \in 1 .. Len(stack'[u])
               PROVE  QuitFrame(u, stack[u][i])'
    BY DEF QuitFrames
  <1>1. \/ stack'[u][i] = fr /\ Plain(fr)
        \/ \E k \in 1 .. Len(stack[u]) : stack'[u][i] = stack[u][k]
    <2>1. CASE Moved(t, fr) /\ Plain(fr)
      BY <2>1, MovedFrom
    <2>2. CASE Pushed(t, fr) /\ Plain(fr)
      BY <2>2, PushedFrom
    <2>3. CASE Popped(t)
      BY <2>3, PoppedFrom
    <2> QED
      BY <2>1, <2>2, <2>3
  <1>2. CASE stack'[u][i] = fr /\ Plain(fr)
    BY <1>2 DEF QuitFrame, Plain, QuitLabels
  <1>3. ASSUME NEW k \in 1 .. Len(stack[u]), stack'[u][i] = stack[u][k] PROVE QuitFrame(u, stack[u][i])'
    <2>1. QuitFrame(u, stack[u][k])
      BY DEF QuitFrames
    <2>2. CASE NoQuit
      BY <1>3, <2>1, <2>2 DEF NoQuit, QuitFrame, QuitLabels
    <2>3. CASE Mild
      BY <1>3, <2>1, <2>3, MildKeeps DEF QuitFrame, Mild
    <2> QED
      BY <2>2, <2>3
  <1> QED
    BY <1>1, <1>2, <1>3

(* The element after another, in a list without repetitions. *)
LEMMA AfterIs ==
  ASSUME Types, Nodes, NEW k \in 1 .. Len(list)
  PROVE  /\ k < Len(list) => After(list[k]) = list[k + 1]
         /\ k = Len(list) => After(list[k]) = Free
  <1> DEFINE n == Len(list)
             later == {i \in 2 .. n : list[i - 1] = list[k]}
  <1>1. n \in Nat /\ k \in 1 .. n /\ \A i, j \in 1 .. n : list[i] = list[j] => i = j
    BY LenProperties DEF Types, Nodes
  <1>2. After(list[k]) = IF later = {} THEN Free ELSE list[CHOOSE i \in later : TRUE]
    BY DEF After
  <1>3. \A i \in later : i = k + 1
    <2> HIDE DEF n
    <2> SUFFICES ASSUME NEW i \in 2 .. n, list[i - 1] = list[k] PROVE i = k + 1
      OBVIOUS
    <2>1. i - 1 \in 1 .. n
      BY <1>1
    <2>2. i - 1 = k
      BY <1>1, <2>1
    <2> QED
      BY <1>1, <2>2
  <1>4. CASE k < n
    <2>1. k + 1 \in later
      <3> HIDE DEF n
      <3>1. k + 1 \in 2 .. n /\ k + 1 - 1 = k
        BY <1>1, <1>4
      <3> QED
        BY <3>1
    <2>2. (CHOOSE i \in later : TRUE) \in later
      BY <2>1
    <2>3. (CHOOSE i \in later : TRUE) = k + 1
      BY <1>3, <2>2
    <2>4. k # n
      <3> HIDE DEF n
      <3> QED
        BY <1>1, <1>4
    <2> QED
      BY <1>2, <2>1, <2>3, <2>4
  <1>5. CASE k = n
    <2>1. later = {}
      <3> SUFFICES ASSUME NEW i \in later PROVE FALSE
        OBVIOUS
      <3>1. i = n + 1 /\ i \in 2 .. n
        BY <1>3, <1>5
      <3> HIDE DEF n
      <3> QED
        BY <1>1, <3>1
    <2>2. ~(k < n)
      <3> HIDE DEF n
      <3> QED
        BY <1>1, <1>5
    <2> QED
      BY <1>2, <2>1, <2>2
  <1> QED
    BY <1>1, <1>4, <1>5

(* Joining the thread of e takes the shutdown to the element after it. *)
LEMMA JoinWalks ==
  ASSUME Types, Nodes, NEW e \in Conn, e \in Walked, thread[e] # "running", UNCHANGED list,
         thread' = [thread EXCEPT ![e] = IF @ = "done" THEN "joined" ELSE @]
  PROVE  After(e) \in Walked'
  <1> DEFINE n == Len(list)
  <1>1. n \in Nat /\ \A i, j \in 1 .. n : list[i] = list[j] => i = j
    BY LenProperties DEF Types, Nodes
  <1>2. PICK k \in 1 .. n : /\ list[k] = e
                            /\ \A j \in 1 .. n : (j < k => Over(list[j])) /\ (j >= k => thread[list[j]] # "joined")
    BY ServerAssumption DEF Walked, Walk
  <1>3. \A j \in 1 .. n : list[j] \in Conn
    BY DEF Nodes
  <1>4. Over(e)' /\ \A c \in Conn \ {e} : thread'[c] = thread[c]
    BY DEF Over, Types
  <1>5. \A j \in 1 .. n : j # k => list[j] # e
    BY <1>1, <1>2
  <1>6. \A j \in 1 .. n : (j <= k => Over(list[j])') /\ (j > k => thread'[list[j]] # "joined")
    <2> SUFFICES ASSUME NEW j \in 1 .. n PROVE (j <= k => Over(list[j])') /\ (j > k => thread'[list[j]] # "joined")
      OBVIOUS
    <2> HIDE DEF n
    <2>1. CASE j = k
      BY <1>1, <1>2, <1>4, <2>1 DEF Over
    <2>2. CASE j # k
      <3>1. thread'[list[j]] = thread[list[j]]
        BY <1>3, <1>4, <1>5, <2>2
      <3> QED
        BY <1>1, <1>2, <2>2, <3>1 DEF Over
    <2> QED
      BY <2>1, <2>2
  <1>7. CASE k < n
    <2>1. After(e) = list[k + 1]
      BY <1>2, <1>7, AfterIs
    <2>2. k + 1 \in 1 .. n
      <3> HIDE DEF n
      <3> QED
        BY <1>1, <1>7
    <2>3. \A j \in 1 .. n : (j < k + 1 => Over(list[j])') /\ (j >= k + 1 => thread'[list[j]] # "joined")
      <3>1. \A j \in 1 .. n : (j < k + 1 <=> j <= k) /\ (j >= k + 1 <=> j > k)
        <4> HIDE DEF n
        <4> QED
          BY <1>1
      <3> QED
        BY <1>6, <3>1
    <2>4. list[k + 1] \in Conn /\ list[k + 1] # Free
      BY <1>3, <2>2, ServerAssumption
    <2>5. Walk(list[k + 1])'
      BY <2>2, <2>3, <2>4 DEF Walk, Over
    <2> QED
      BY <2>1, <2>4, <2>5 DEF Walked
  <1>8. CASE k = n
    <2>1. After(e) = Free
      BY <1>2, <1>8, AfterIs
    <2>2. \A j \in 1 .. n : j <= k
      <3> HIDE DEF n
      <3> QED
        BY <1>1, <1>8
    <2>3. Walk(Free)'
      BY <1>6, <2>2 DEF Walk, Over
    <2> QED
      BY <2>1, <2>3 DEF Walked
  <1>9. k < n \/ k = n
    <2> HIDE DEF n
    <2> QED
      BY <1>1
  <1> QED
    BY <1>7, <1>8, <1>9


(* Steps outside the quit handlers. *)
LEMMA PlainStep ==
  ASSUME QuitFrames, NEW t \in Thread, NEW from, NEW to, Step(t, from, to),
         from \notin QuitLabels, to \notin QuitLabels
  PROVE  Moved(t, stack'[t][1]) /\ Plain(stack'[t][1])
  <1>1. 1 \in 1 .. Len(stack[t]) /\ Moved(t, stack'[t][1])
    BY DEF Step, Moved
  <1>2. QuitFrame(t, stack[t][1])
    BY <1>1 DEF QuitFrames
  <1>3. Free \notin {"TERM", "INT"}
    BY ServerAssumption
  <1> QED
    BY <1>1, <1>2, <1>3 DEF Plain, QuitFrame, Step

(* Steps outside the quit handler keep what is said about its frame. *)
LEMMA FramesKept ==
  ASSUME Nodes, QuitInv, NoQuit \/ Mild, NEW t \in Thread, NEW fr,
         (Moved(t, fr) /\ Plain(fr)) \/ (Pushed(t, fr) /\ Plain(fr)) \/ Popped(t)
  PROVE  QuitFrames' /\ OneQuit'
  <1>1. QuitFrames'
    BY QuitFramesKept DEF QuitInv
  <1>2. OneQuit'
    BY OneQuitKept DEF QuitInv, Plain
  <1> QED
    BY <1>1, <1>2

(* A new thread, while no quit handler runs. *)
LEMMA CreatedNoQuit ==
  ASSUME Stacks, NoQuit, QuitFrames, NEW c \in Conn, Created(c), stack[Main][1].at = "create"
  PROVE  QuitFrames' /\ OneQuit'
  <1>0. Main \in Thread /\ Main \notin Conn /\ Free \notin {"TERM", "INT"}
    BY ServerAssumption DEF Thread
  <1>1. 1 \in 1 .. Len(stack[Main])
    BY DEF Created
  <1>2. stack[Main][1].sig \notin {"TERM", "INT"}
    BY <1>0, <1>1 DEF QuitFrames, QuitFrame, QuitLabels
  <1>m. stack'[Main][1].at = "insert" /\ stack'[Main][1].sig = stack[Main][1].sig
    <2>1. stack[Main][1] \in FrameSet
      BY <1>0, <1>1, ElementOfSeq DEF Stacks
    <2> QED
      BY <2>1 DEF Created, FrameSet
  <1>3. ASSUME NEW t \in Thread, NEW i \in 1 .. Len(stack'[t])
        PROVE  Plain(stack'[t][i])
    <2>1. CASE t = Main
      <3> DEFINE n == Len(stack'[t])
      <3>0. n = 1 /\ i \in 1 .. n
        BY <2>1 DEF Created
      <3> HIDE DEF n
      <3>1. i = 1
        BY <3>0
      <3> QED
        BY <1>2, <1>m, <2>1, <3>1 DEF Plain, QuitLabels
    <2>2. CASE t = c
      <3> DEFINE n == Len(stack'[t])
      <3>0. n = 1 /\ i \in 1 .. n /\ stack'[t][1] = Frame("start", c, Free)
        BY <2>2 DEF Created
      <3> HIDE DEF n
      <3>1. i = 1 /\ stack'[t][i] = Frame("start", c, Free)
        BY <3>0
      <3> QED
        BY <1>0, <3>1, FrameFields DEF Plain, QuitLabels
    <2>3. CASE t \notin {Main, c}
      <3>1. stack'[t] = stack[t]
        BY <2>3 DEF Created
      <3> QED
        BY <3>1 DEF NoQuit, QuitFrames, QuitFrame, Plain
    <2> QED
      BY <2>1, <2>2, <2>3
  <1>4. QuitFrames'
    BY <1>3 DEF QuitFrames, QuitFrame, Plain, QuitLabels
  <1>5. OneQuit'
    BY <1>3 DEF OneQuit, Plain
  <1> QED
    BY <1>4, <1>5


(* The shutdown begins at the first node of the list. *)
LEMMA FirstWalks ==
  ASSUME Types, Nodes, \A c \in Conn : thread[c] # "joined", UNCHANGED <<list, thread>>
  PROVE  First \in Walked'
  <1> DEFINE n == Len(list)
  <1>0. n \in Nat /\ (list = << >> <=> n = 0)
    BY LenProperties, EmptySeq DEF Types
  <1>1. CASE list = << >>
    <2>1. n = 0 /\ First = Free
      BY <1>0, <1>1 DEF First
    <2>2. \A i \in 1 .. n : FALSE
      <3> HIDE DEF n
      <3> QED
        BY <2>1
    <2>3. Walk(Free)'
      BY <2>2 DEF Walk
    <2> QED
      BY <2>1, <2>3 DEF Walked
  <1>2. CASE list # << >>
    <2>1. First = list[1] /\ 1 \in 1 .. n /\ \A j \in 1 .. n : ~(j < 1)
      <3>1. 1 \in 1 .. n /\ \A j \in 1 .. n : ~(j < 1)
        <4>1. n \in Nat /\ n # 0
          BY <1>0, <1>2
        <4> HIDE DEF n
        <4> QED
          BY <4>1
      <3> QED
        BY <1>2, <3>1 DEF First
    <2>2. \A j \in 1 .. n : list[j] \in Conn /\ thread'[list[j]] # "joined"
      BY DEF Nodes
    <2>3. list[1] \in Conn /\ list[1] # Free
      BY <2>1, <2>2, ServerAssumption
    <2>4. Walk(list[1])'
      BY <2>1, <2>2, <2>3 DEF Walk
    <2> QED
      BY <2>1, <2>3, <2>4 DEF Walked
  <1> QED
    BY <1>1, <1>2

(* The one quit frame is replaced or returns: the others say nothing of    *)
(* the list.                                                               *)
LEMMA QuitFrameMoves ==
  ASSUME QuitInv, NEW t \in Thread, NEW fr, stack[t][1].at \in QuitLabels,
         Popped(t) \/ (Moved(t, fr) /\ QuitFrame(t, stack[t][1])' /\ stack'[t][1] = fr)
  PROVE  QuitFrames' /\ OneQuit'
  <1>1. Moved(t, fr) \/ Popped(t)
    OBVIOUS
  <1>2. QuitFrames'
    <2> SUFFICES ASSUME NEW u \in Thread, NEW i \in 1 .. Len(stack'[u])
                 PROVE  QuitFrame(u, stack[u][i])'
      BY DEF QuitFrames
    <2>1. \/ Moved(t, fr) /\ u = t /\ i = 1 /\ stack'[u][i] = fr
          \/ stack'[u][i].at \notin QuitLabels /\ \E k \in 1 .. Len(stack[u]) : stack'[u][i] = stack[u][k]
      BY <1>1, OthersNoQuit DEF QuitInv
    <2>2. CASE Moved(t, fr) /\ u = t /\ i = 1
      <3>1. ~Popped(t)
        BY <2>2 DEF Moved, Popped
      <3> QED
        BY <2>2, <3>1
    <2>3. ASSUME stack'[u][i].at \notin QuitLabels, NEW k \in 1 .. Len(stack[u]), stack'[u][i] = stack[u][k]
          PROVE  QuitFrame(u, stack[u][i])'
      <3>1. QuitFrame(u, stack[u][k])
        BY DEF QuitInv, QuitFrames
      <3> QED
        BY <2>3, <3>1 DEF QuitFrame, QuitLabels
    <2> QED
      BY <2>1, <2>2, <2>3
  <1>3. OneQuit'
    BY <1>1, OneQuitKept DEF QuitInv
  <1> QED
    BY <1>2, <1>3


(* With one quit signal at most, every step keeps the walk of cleanup in    *)
(* order.                                                                   *)
LEMMA QuitFramesStep ==
  ASSUME MaxQuits <= 1, ServerInv, QuitInv, ControlStep
  PROVE  QuitFrames' /\ OneQuit'
  <1> USE DEF NodeUse, Keeps
  <1>0. /\ Types /\ Stacks /\ Nodes /\ Fresh /\ QuitFrames /\ OneQuit /\ QuitState
        /\ Main \in Thread /\ Main \notin Conn /\ Free \notin Conn /\ Conn \subseteq Thread
    BY ServerAssumption DEF ServerInv, TypeInv, QuitInv, Thread
  <1>t. thread \in [Conn -> {"none", "running", "done", "joined"}] /\ quits \in Nat
    BY <1>0 DEF Types
  <1>1. ASSUME NEW t \in Thread, NEW from, NEW to, Step(t, from, to),
               from \notin QuitLabels, to \notin QuitLabels, Mild
        PROVE  QuitFrames' /\ OneQuit'
    BY <1>0, <1>1, PlainStep, FramesKept
  <1>2. CASE \/ ClosedStep \/ CheckStep \/ LockStep \/ FailStep
             \/ \E c \in Conn : AcceptStep(c) \/ StartStep(c)
    <2>1. Mild
      BY <1>2 DEF Mild, ClosedStep, CheckStep, LockStep, FailStep, AcceptStep, StartStep
    <2> QED
      BY <1>0, <1>1, <1>2, <2>1 DEF ClosedStep, CheckStep, LockStep, FailStep, AcceptStep, StartStep, QuitLabels
  <1>3. ASSUME NEW t \in Thread, WorkStep(t) PROVE QuitFrames' /\ OneQuit'
    <2>1. Mild
      BY <1>3 DEF Mild, WorkStep
    <2>2. PICK from \in Busy, to \in Busy : Step(t, from, to)
      BY <1>3 DEF WorkStep
    <2>3. from \notin QuitLabels /\ to \notin QuitLabels
      BY DEF Busy, QuitLabels
    <2> QED
      BY <1>1, <2>1, <2>2, <2>3
  <1>4. CASE InsertStep
    <2>1. Step(Main, "insert", "accept") /\ stack[Main][1].at = "insert"
      BY <1>4 DEF InsertStep, Step
    <2>2. Len(stack[Main]) = 1
      <3>1. Len(stack[Main]) \in Nat \ {0}
        BY <2>1 DEF Step, Moved
      <3> QED
        BY <1>0, <2>1, <3>1, LastFrame
    <2>3. NoQuit
      BY <1>0, <2>1, <2>2, MainNoQuit
    <2>4. Moved(Main, stack'[Main][1]) /\ Plain(stack'[Main][1])
      BY <1>0, <2>1, PlainStep DEF QuitLabels
    <2> QED
      BY <1>0, <2>3, <2>4, FramesKept
  <1>5. ASSUME NEW c \in Conn, CreateStep(c) PROVE QuitFrames' /\ OneQuit'
    <2>1. stack[Main][1].at = "create" /\ Created(c) /\ Len(stack[Main]) = 1
      BY <1>5 DEF CreateStep, Created
    <2>2. NoQuit
      BY <1>0, <2>1, MainNoQuit
    <2> QED
      BY <1>0, <2>1, <2>2, CreatedNoQuit
  <1>6. ASSUME NEW c \in Conn, EndStep(c) PROVE QuitFrames' /\ OneQuit'
    <2>1. Popped(c) /\ Works(c)
      BY <1>6, EmptySeq DEF EndStep, Works
    <2>2. thread[c] = "running"
      BY <1>0, <2>1 DEF Fresh
    <2>3. Mild
      BY <1>6, <1>t, <2>2 DEF EndStep, Mild
    <2> QED
      BY <1>0, <2>1, <2>3, FramesKept
  <1>7. ASSUME NEW t \in Thread, StampStep(t) PROVE QuitFrames' /\ OneQuit'
    <2>1. Popped(t) /\ Mild
      BY <1>7 DEF StampStep, Mild
    <2> QED
      BY <1>0, <2>1, FramesKept
  <1>8. ASSUME NEW t \in Thread, AlarmStep(t) PROVE QuitFrames' /\ OneQuit'
    <2>1. Pushed(t, Frame("a_lock", Free, "ALRM")) /\ Mild
      BY <1>8 DEF AlarmStep, Mild
    <2>2. Plain(Frame("a_lock", Free, "ALRM"))
      BY FrameFields DEF Plain, QuitLabels
    <2> QED
      BY <1>0, <2>1, <2>2, FramesKept
  <1>9. ASSUME UNCHANGED stack, Mild PROVE QuitFrames' /\ OneQuit'
    <2>1. Walked \subseteq Walked' /\ UNCHANGED should_quit /\ (quits > 0 => quits' > 0)
      BY <1>0, <1>9, MildKeeps DEF Mild
    <2>2. QuitFrames'
      BY <1>0, <1>9, <2>1 DEF QuitFrames, QuitFrame
    <2> QED
      BY <1>0, <1>9, <2>2 DEF OneQuit
  <1>10. CASE PipeStep \/ IdleStep \/ \E t \in Thread : CrashStep(t)
    <2>1. UNCHANGED stack /\ Mild
      BY <1>10 DEF PipeStep, IdleStep, CrashStep, Mild
    <2> QED
      BY <1>9, <2>1
  <1>11. ASSUME NEW t \in Thread, NEW sig \in {"TERM", "INT"}, TermStep(t, sig) PROVE QuitFrames' /\ OneQuit'
    <2> DEFINE fr == Frame("q_quit", Free, sig)
    <2>1. quits = 0 /\ quits' = 1 /\ ~should_quit /\ UNCHANGED should_quit
      BY <1>0, <1>11, <1>t, ServerAssumption DEF TermStep, QuitState
    <2>2. NoQuit
      BY <1>0, <2>1 DEF NoQuit, QuitFrames, QuitFrame
    <2>3. t = Main
      BY <1>0, <1>11, <2>2 DEF TermStep, Blocked, NoQuit, QuitFrames, QuitFrame
    <2>4. Pushed(t, fr) /\ fr.at = "q_quit" /\ fr.sig = sig
      BY <1>11, FrameFields DEF TermStep
    <2> HIDE DEF fr
    <2>5. OneQuit'
      BY <1>0, <2>2, <2>4, OneQuitKept
    <2>6. ASSUME NEW u \in Thread, NEW i \in 1 .. Len(stack'[u]) PROVE QuitFrame(u, stack[u][i])'
      <3>1. \/ u = t /\ stack'[u][i] = fr
            \/ \E k \in 1 .. Len(stack[u]) : stack'[u][i] = stack[u][k]
        BY <2>4, PushedFrom
      <3>2. CASE u = t /\ stack'[u][i] = fr
        BY <2>1, <2>3, <2>4, <3>2 DEF QuitFrame, QuitLabels
      <3>3. ASSUME NEW k \in 1 .. Len(stack[u]), stack'[u][i] = stack[u][k] PROVE QuitFrame(u, stack[u][i])'
        <4>1. QuitFrame(u, stack[u][k]) /\ stack[u][k].at \notin QuitLabels
          BY <1>0, <2>2 DEF NoQuit, QuitFrames
        <4> QED
          BY <3>3, <4>1 DEF QuitFrame, QuitLabels
      <3> QED
        BY <3>1, <3>2, <3>3
    <2> QED
      BY <2>5, <2>6 DEF QuitFrames
  <1>12. ASSUME NEW t \in Thread, NEW from \in QuitLabels, Step(t, from, "q_join"), UNCHANGED quits,
                should_quit', stack'[t][1].e \in Walked'
         PROVE  QuitFrames' /\ OneQuit'
    <2>1. /\ Moved(t, stack'[t][1]) /\ stack[t][1].at \in QuitLabels /\ 1 \in 1 .. Len(stack[t])
          /\ stack'[t][1].at = "q_join"
      BY <1>12 DEF Step, Moved
    <2>2. t = Main /\ quits > 0
      BY <1>0, <2>1 DEF QuitFrames, QuitFrame
    <2>3. QuitFrame(t, stack[t][1])'
      BY <1>12, <2>1, <2>2 DEF QuitFrame, QuitLabels
    <2> QED
      BY <2>1, <2>3, QuitFrameMoves
  <1>13. ASSUME NEW t \in Thread, QuitStep(t) PROVE QuitFrames' /\ OneQuit'
    <2>1. stack[t][1].at = "q_quit" /\ 1 \in 1 .. Len(stack[t])
      BY <1>13 DEF QuitStep, Step, Moved
    <2>2. ~should_quit
      BY <1>0, <2>1 DEF QuitFrames, QuitFrame
    <2>3. \A c \in Conn : thread[c] # "joined"
      BY <1>0, <2>2 DEF QuitState
    <2>4. First \in Walked'
      BY <1>0, <1>13, <2>3, FirstWalks DEF QuitStep
    <2> QED
      BY <1>12, <1>13, <2>4 DEF QuitStep, QuitLabels
  <1>14. ASSUME NEW t \in Thread, JoinStep(t) PROVE QuitFrames' /\ OneQuit'
    <2> DEFINE e == stack[t][1].e
    <2>1. stack[t][1].at = "q_join" /\ 1 \in 1 .. Len(stack[t])
      BY <1>14 DEF JoinStep, Step, Moved
    <2>2. t = Main /\ should_quit /\ e \in Walked
      BY <1>0, <2>1 DEF QuitFrames, QuitFrame, QuitLabels
    <2>3. e \in Conn
      BY <1>14, <2>2 DEF JoinStep, Walked
    <2>4. thread[e] # "running"
      BY <1>0, <1>14, <2>2, <2>3 DEF JoinStep
    <2>5. After(e) \in Walked'
      BY <1>0, <1>14, <2>2, <2>3, <2>4, JoinWalks DEF JoinStep
    <2> QED
      BY <1>12, <1>14, <2>2, <2>5 DEF JoinStep, QuitLabels
  <1>15. ASSUME NEW t \in Thread, FreeStep(t) PROVE QuitFrames' /\ OneQuit'
    <2>1. stack[t][1].at \in QuitLabels /\ Popped(t)
      BY <1>15 DEF FreeStep, QuitLabels
    <2> QED
      BY <2>1, QuitFrameMoves
  <1> QED
    BY <1>2, <1>3, <1>4, <1>5, <1>6, <1>7, <1>8, <1>10, <1>11, <1>13, <1>14, <1>15 DEF ControlStep


(* Nodes are freed only once the walk is over. *)
LEMMA QuitStateStep ==
  ASSUME ServerInv, QuitInv, ControlStep
  PROVE  QuitState'
  <1> USE DEF NodeUse, Keeps
  <1>0. /\ Types /\ Stacks /\ Nodes /\ Fresh /\ QuitFrames /\ QuitState /\ Conn \subseteq Thread
        /\ Main \in Thread /\ Free \notin Conn
    BY ServerAssumption DEF ServerInv, TypeInv, QuitInv, Thread
  <1>t. /\ thread \in [Conn -> {"none", "running", "done", "joined"}]
        /\ node \in [Conn -> {"none", "live", "freed"}] /\ quits \in Nat
    BY <1>0 DEF Types
  <1>1. CASE UNCHANGED <<should_quit, quits, node, thread>>
    BY <1>0, <1>1 DEF QuitState, Over
  <1>2. CASE LockStep
    <2>1. \A c \in Conn : node'[c] = "freed" => node[c] = "freed"
      BY <1>2, <1>t DEF LockStep
    <2> QED
      BY <1>0, <1>2, <2>1 DEF LockStep, QuitState, Over
  <1>3. ASSUME NEW c \in Conn, CreateStep(c) PROVE QuitState'
    <2>1. Base(Main).at = "create" /\ Base(Main).e = c
      BY <1>3, CreateBase DEF ServerInv
    <2>2. node[c] = "live"
      BY <1>0, <1>3, <2>1 DEF Nodes, CreateStep
    <2> QED
      BY <1>0, <1>3, <1>t, <2>2 DEF CreateStep, QuitState, Over
  <1>4. ASSUME NEW c \in Conn, EndStep(c) PROVE QuitState'
    <2>1. Works(c)
      BY <1>4, EmptySeq DEF EndStep, Works
    <2>2. thread[c] = "running"
      BY <1>0, <2>1 DEF Fresh
    <2>3. node[c] # "freed"
      BY <1>0, <2>2 DEF QuitState, Over
    <2> QED
      BY <1>0, <1>4, <1>t, <2>3 DEF EndStep, QuitState, Over
  <1>5. ASSUME NEW t \in Thread, NEW sig, TermStep(t, sig) PROVE QuitState'
    <2>1. quits' # 0
      BY <1>5, <1>t DEF TermStep
    <2> QED
      BY <1>0, <1>5, <2>1 DEF TermStep, QuitState, Over
  <1>6. ASSUME NEW t \in Thread, 1 \in 1 .. Len(stack[t]), stack[t][1].at \in QuitLabels PROVE quits # 0
    BY <1>0, <1>6, <1>t DEF QuitFrames, QuitFrame
  <1>7. ASSUME NEW t \in Thread, QuitStep(t) PROVE QuitState'
    <2>1. stack[t][1].at \in QuitLabels /\ 1 \in 1 .. Len(stack[t])
      BY <1>7 DEF QuitStep, Step, Moved, QuitLabels
    <2>2. quits' # 0 /\ should_quit' /\ UNCHANGED <<node, thread>>
      BY <1>6, <1>7, <2>1 DEF QuitStep
    <2> QED
      BY <1>0, <2>2 DEF QuitState, Over
  <1>8. ASSUME NEW t \in Thread, JoinStep(t) PROVE QuitState'
    <2>1. stack[t][1].at = "q_join" /\ 1 \in 1 .. Len(stack[t])
      BY <1>8 DEF JoinStep, Step, Moved
    <2>2. should_quit /\ UNCHANGED <<should_quit, quits, node>>
      BY <1>0, <1>8, <2>1 DEF QuitFrames, QuitFrame, JoinStep
    <2>3. \A c \in Conn : Over(c) => Over(c)'
      BY <1>8, <1>t DEF JoinStep, Over
    <2> QED
      BY <1>0, <2>2, <2>3 DEF QuitState
  <1>9. ASSUME NEW t \in Thread, FreeStep(t) PROVE QuitState'
    <2>1. stack[t][1].at = "q_join" /\ 1 \in 1 .. Len(stack[t]) /\ stack[t][1].e = Free
      BY <1>9 DEF FreeStep, Popped
    <2>2. Free \in Walked
      BY <1>0, <2>1 DEF QuitFrames, QuitFrame
    <2>3. \A c \in Conn : Listed(c) => Over(c)
      BY <2>2 DEF Walked, Walk, Listed
    <2>4. \A c \in Conn : node'[c] = "freed" => Listed(c) \/ node[c] = "freed"
      BY <1>9 DEF FreeStep, Listed
    <2>5. \A c \in Conn : node'[c] = "freed" => Over(c)
      BY <1>0, <2>3, <2>4 DEF QuitState
    <2> QED
      BY <1>0, <1>9, <2>5 DEF FreeStep, QuitState, Over
  <1>10. CASE \/ ClosedStep \/ CheckStep \/ FailStep \/ InsertStep \/ PipeStep \/ IdleStep
              \/ \E c \in Conn : AcceptStep(c) \/ StartStep(c)
              \/ \E t \in Thread : WorkStep(t) \/ StampStep(t) \/ CrashStep(t) \/ AlarmStep(t)
    BY <1>1, <1>10 DEF ClosedStep, CheckStep, FailStep, InsertStep, PipeStep, IdleStep, AcceptStep, StartStep,
         WorkStep, StampStep, CrashStep, AlarmStep
  <1> QED
    BY <1>2, <1>3, <1>4, <1>5, <1>7, <1>8, <1>9, <1>10 DEF ControlStep

(* No quit handler runs when the server starts. *)
LEMMA QuitInvInit == Init => QuitInv
  <1> SUFFICES ASSUME Init PROVE QuitInv
    OBVIOUS
  <1>1. ASSUME NEW t \in Thread, NEW i \in 1 .. Len(stack[t])
        PROVE  Plain(stack[t][i])
    <2>1. stack[t] = IF t = Main THEN <<Frame("accept", Free, Free)>> ELSE << >>
      BY DEF Init
    <2>2. CASE t # Main
      <3>1. stack[t] = << >> /\ Len(<< >>) = 0
        BY <2>1, <2>2
      <3> QED
        BY <3>1
    <2>3. CASE t = Main
      <3> DEFINE n == Len(stack[t])
      <3>1. i \in 1 .. n /\ n = 1
        BY <2>1, <2>3
      <3> HIDE DEF n
      <3>2. i = 1
        BY <3>1
      <3>3. stack[t][i] = Frame("accept", Free, Free)
        BY <2>1, <2>3, <3>2
      <3> QED
        BY <3>3, FrameFields, ServerAssumption DEF Plain, QuitLabels
    <2> QED
      BY <2>2, <2>3
  <1>2. QuitFrames
    BY <1>1 DEF QuitFrames, QuitFrame, Plain, QuitLabels
  <1>3. OneQuit
    BY <1>1 DEF OneQuit, Plain
  <1>4. QuitState
    BY DEF Init, QuitState, Over
  <1> QED
    BY <1>2, <1>3, <1>4 DEF QuitInv

(* The invariant of the shutdown, with one quit signal at most. *)
LEMMA QuitInvariant ==
  ASSUME MaxQuits <= 1
  PROVE  Spec => [](ServerInv /\ QuitInv)
  <1>1. Init => ServerInv /\ QuitInv
    BY ServerInvInit, QuitInvInit
  <1>2. (ServerInv /\ QuitInv) /\ [Next]_vars => (ServerInv /\ QuitInv)'
    <2> SUFFICES ASSUME ServerInv, QuitInv, [Next]_vars PROVE (ServerInv /\ QuitInv)'
      OBVIOUS
    <2>1. ServerInv'
      BY ServerInvNext
    <2>2. ControlStep
      BY ControlSteps DEF ServerInv
    <2>3. QuitInv'
      BY <2>2, QuitFramesStep, QuitStateStep DEF QuitInv
    <2> QED
      BY <2>1, <2>3
  <1> QED
    BY <1>1, <1>2, PTL DEF Spec

(* A node is freed only when its worker has been joined, and is listed     *)
(* once and live until then, for any number of connections and alarms and  *)
(* at most one quit signal.  (A second one may be handled by a worker,     *)
(* whose join of itself returns at once.)                                  *)
THEOREM ServerFreedAfterJoin ==
  ASSUME MaxQuits <= 1
  PROVE  Spec => []FreedAfterJoin
  <1>1. ServerInv /\ QuitInv => FreedAfterJoin
    BY DEF ServerInv, Nodes, QuitInv, QuitState, Over, FreedAfterJoin
  <1> QED
    BY <1>1, QuitInvariant, PTL


-----------------------------------------------------------------------------
(* How the process ends. *)

(* A shutdown is walking the list. *)
Joining == \E t \in Thread : \E i \in 1 .. Len(stack[t]) : stack[t][i].at = "q_join"

(* The list holds every running worker but one that was just created; told *)
(* to quit, the server empties it before its main thread goes on.          *)
ExitInv ==
  /\ alive => \A c \in Conn :
       thread[c] = "running" => Listed(c) \/ (Base(Main).at = "insert" /\ Base(Main).e = c)
  /\ alive /\ should_quit /\ ~Joining => list = << >>
  /\ ~alive /\ NoThread = {} => \E x : \A c \in Conn : thread[c] = "running" => c = x

(* A walk that goes on is still there after the step. *)
LEMMA JoiningKept ==
  ASSUME Joining, NEW t \in Thread, NEW fr,
         \/ Moved(t, fr) /\ (stack[t][1].at = "q_join" => fr.at = "q_join")
         \/ Pushed(t, fr)
         \/ Popped(t) /\ stack[t][1].at # "q_join"
  PROVE  Joining'
  <1>0. PICK u \in Thread : \E i \in 1 .. Len(stack[u]) : stack[u][i].at = "q_join"
    BY DEF Joining
  <1>1. PICK i \in 1 .. Len(stack[u]) : stack[u][i].at = "q_join"
    BY <1>0
  <1>2. CASE u # t
    <2>1. stack'[u] = stack[u]
      BY <1>2 DEF Moved, Pushed, Popped
    <2> QED
      BY <1>1, <2>1 DEF Joining
  <1>3. CASE u = t
    <2> DEFINE n == Len(stack[t])
    <2>0. n \in Nat \ {0} /\ i \in 1 .. n
      BY <1>3 DEF Moved, Pushed, Popped
    <2>1. CASE Moved(t, fr) /\ (stack[t][1].at = "q_join" => fr.at = "q_join")
      <3>1. CASE i = 1
        <4>1. 1 \in 1 .. Len(stack'[t]) /\ stack'[t][1].at = "q_join"
          BY <1>1, <1>3, <2>1, <3>1 DEF Moved
        <4> QED
          BY <4>1 DEF Joining
      <3>2. CASE i # 1
        <4>1. i \in 2 .. n
          <5> HIDE DEF n
          <5> QED
            BY <2>0, <3>2
        <4>2. i \in 1 .. Len(stack'[t]) /\ stack'[t][i].at = "q_join"
          BY <1>1, <1>3, <2>1, <4>1 DEF Moved
        <4> QED
          BY <4>2 DEF Joining
      <3> QED
        BY <3>1, <3>2
    <2>2. CASE Pushed(t, fr)
      <3>1. i + 1 \in 1 .. n + 1 /\ i + 1 \in 2 .. n + 1 /\ i + 1 - 1 = i
        <4> HIDE DEF n
        <4> QED
          BY <2>0
      <3>2. i + 1 \in 1 .. Len(stack'[t]) /\ stack'[t][i + 1].at = "q_join"
        BY <1>1, <1>3, <2>2, <3>1 DEF Pushed
      <3> QED
        BY <3>2 DEF Joining
    <2>3. CASE Popped(t) /\ stack[t][1].at # "q_join"
      <3>1. i # 1
        BY <1>1, <1>3, <2>3
      <3>2. i - 1 \in 1 .. n - 1 /\ i - 1 + 1 = i
        <4> HIDE DEF n
        <4> QED
          BY <2>0, <3>1
      <3>3. i - 1 \in 1 .. Len(stack'[t]) /\ stack'[t][i - 1].at = "q_join"
        BY <1>1, <1>3, <2>3, <3>2 DEF Popped
      <3> QED
        BY <3>3 DEF Joining
    <2> QED
      BY <2>1, <2>2, <2>3
  <1> QED
    BY <1>2, <1>3


(* What the end of the process needs of a step that changes no list. *)
LEMMA ExitKept ==
  ASSUME ExitInv, alive, alive', UNCHANGED <<list, should_quit>>, Joining => Joining',
         \A c \in Conn : thread'[c] = "running" =>
           \/ thread[c] = "running" /\ (Base(Main).at = "insert" => Base(Main)' = Base(Main))
           \/ Base(Main)'.at = "insert" /\ Base(Main)'.e = c
  PROVE  ExitInv'
  BY SameList DEF ExitInv

(* Every step keeps the count of workers that the walk can miss at one. *)
LEMMA ExitStep ==
  ASSUME "pipe" \notin Faults, ServerInv, QuitInv, ExitInv, ControlStep
  PROVE  ExitInv'
  <1> USE DEF NodeUse, Keeps
  <1>0. /\ TypeInv /\ Types /\ Stacks /\ Nodes /\ Fresh /\ QuitFrames /\ QuitState /\ Conn \subseteq Thread
        /\ Main \in Thread /\ Free \notin Conn /\ Main \notin Conn
    BY ServerAssumption DEF ServerInv, TypeInv, QuitInv, Thread
  <1>t. /\ thread \in [Conn -> {"none", "running", "done", "joined"}]
        /\ node \in [Conn -> {"none", "live", "freed"}] /\ alive \in BOOLEAN /\ should_quit \in BOOLEAN
    BY <1>0 DEF Types
  <1>m. ASSUME NEW from \in MainLabels, NEW to \in MainLabels, Step(Main, from, to)
        PROVE  /\ alive /\ NoQuit /\ ~Joining
               /\ Base(Main).at = from /\ Base(Main)'.at = to
               /\ Base(Main).e = stack[Main][1].e /\ Base(Main)'.e = stack'[Main][1].e
    <2>1. stack[Main][1].at = from /\ Len(stack[Main]) \in Nat \ {0} /\ alive
      BY <1>m DEF Step, Moved
    <2>2. Len(stack[Main]) = 1
      BY <1>0, <2>1, LastFrame
    <2>3. NoQuit
      BY <1>0, <2>1, <2>2, MainNoQuit
    <2>4. ~Joining
      BY <2>3 DEF NoQuit, Joining, QuitLabels
    <2> QED
      BY <1>0, <1>m, <2>1, <2>3, <2>4, MainBase
  <1>1. ASSUME NEW from \in {"accept", "lock_list", "create"}, NEW to \in MainLabels, Step(Main, from, to),
               UNCHANGED <<list, should_quit, thread, alive>>
        PROVE  ExitInv'
    BY <1>1, <1>m, ExitKept
  <1>2. CASE ClosedStep \/ LockStep \/ FailStep \/ \E c \in Conn : AcceptStep(c)
    BY <1>1, <1>2 DEF ClosedStep, LockStep, FailStep, AcceptStep
  <1>3. CASE CheckStep
    <2>1. /\ alive /\ ~Joining /\ Base(Main).at = "accepted"
          /\ alive' = ~should_quit /\ UNCHANGED <<list, should_quit, thread>>
      BY <1>3, <1>m DEF CheckStep
    <2>2. CASE ~should_quit
      BY <1>t, <2>1, <2>2, ExitKept
    <2>3. CASE should_quit
      <3>1. list = << >> /\ ~alive'
        BY <1>t, <2>1, <2>3 DEF ExitInv
      <3>2. \A c \in Conn : ~Listed(c)
        BY <3>1, EmptySeq DEF Listed
      <3>3. \A c \in Conn : thread'[c] # "running"
        BY <2>1, <3>2 DEF ExitInv
      <3> QED
        BY <3>1, <3>3 DEF ExitInv
    <2> QED
      BY <1>t, <2>2, <2>3
  <1>4. CASE InsertStep
    <2> DEFINE e == stack[Main][1].e
    <2>1. /\ alive /\ ~Joining /\ Base(Main).at = "insert" /\ Base(Main).e = e /\ list' = Append(list, e)
          /\ alive' = ~should_quit /\ UNCHANGED <<should_quit, thread>>
      BY <1>4, <1>m DEF InsertStep
    <2>2. e \in Conn \cup {Free}
      BY <1>0, <2>1 DEF Nodes
    <2>3. \A c : Listed(c)' <=> Listed(c) \/ c = e
      BY <1>0, <2>1, <2>2, AppendList
    <2> HIDE DEF e
    <2>4. CASE ~should_quit
      <3>1. alive' /\ ~should_quit'
        BY <1>t, <2>1, <2>4
      <3>2. \A c \in Conn : thread'[c] = "running" => Listed(c)'
        BY <2>1, <2>3 DEF ExitInv
      <3> QED
        BY <3>1, <3>2 DEF ExitInv
    <2>5. CASE should_quit
      <3>1. list = << >> /\ ~alive'
        BY <1>t, <2>1, <2>5 DEF ExitInv
      <3>2. \A c \in Conn : ~Listed(c)
        BY <3>1, EmptySeq DEF Listed
      <3>3. \A c \in Conn : thread'[c] = "running" => c = e
        BY <2>1, <3>2 DEF ExitInv
      <3> QED
        BY <3>1, <3>3 DEF ExitInv
    <2> QED
      BY <1>t, <2>4, <2>5
  <1>5. ASSUME NEW c \in Conn, CreateStep(c) PROVE ExitInv'
    <2>1. Base(Main).at = "create" /\ Base(Main)'.at = "insert" /\ Base(Main)'.e = c
      BY <1>0, <1>5, CreateBase
    <2>2. alive /\ alive' /\ UNCHANGED <<list, should_quit>> /\ \A d \in Conn : d # c => thread'[d] = thread[d]
      BY <1>5, <1>t DEF CreateStep
    <2>3. stack[Main][1].at = "create" /\ Len(stack[Main]) = 1
      BY <1>5 DEF CreateStep, Created
    <2>4. ~Joining
      BY <1>0, <2>3, MainNoQuit DEF NoQuit, Joining, QuitLabels
    <2> QED
      BY <2>1, <2>2, <2>4, ExitKept
  <1>6. ASSUME NEW c \in Conn, StartStep(c) PROVE ExitInv'
    <2>1. Base(Main)' = Base(Main) /\ alive /\ alive' /\ UNCHANGED <<list, should_quit, thread>>
      BY <1>0, <1>6, StartBase DEF StartStep, Step
    <2>2. Moved(c, stack'[c][1]) /\ stack[c][1].at # "q_join"
      BY <1>6 DEF StartStep, Step
    <2>3. Joining => Joining'
      BY <1>0, <2>2, JoiningKept
    <2> QED
      BY <2>1, <2>3, ExitKept
  <1>7. ASSUME NEW c \in Conn, EndStep(c) PROVE ExitInv'
    <2>1. Base(Main)' = Base(Main) /\ alive /\ alive' /\ UNCHANGED <<list, should_quit>>
      BY <1>0, <1>7, EndBase DEF EndStep
    <2>2. \A d \in Conn : thread'[d] = "running" => thread[d] = "running"
      BY <1>7, <1>t DEF EndStep
    <2>3. Popped(c) /\ stack[c][1].at # "q_join"
      BY <1>7 DEF EndStep
    <2>4. Joining => Joining'
      BY <1>0, <2>3, JoiningKept
    <2> QED
      BY <2>1, <2>2, <2>4, ExitKept
  <1>q. ASSUME \/ PipeStep \/ IdleStep
               \/ \E t \in Thread : \/ WorkStep(t) \/ StampStep(t) \/ QuitStep(t) \/ JoinStep(t) \/ CrashStep(t)
                                    \/ FreeStep(t) \/ AlarmStep(t) \/ \E sig \in {"TERM", "INT"} : TermStep(t, sig)
        PROVE  Base(Main)' = Base(Main)
    BY <1>0, <1>q, QuietBase
  <1>8. ASSUME NEW t \in Thread, WorkStep(t) \/ StampStep(t) \/ AlarmStep(t) PROVE ExitInv'
    <2>1. Base(Main)' = Base(Main) /\ UNCHANGED <<list, should_quit, thread, alive>>
      BY <1>q, <1>8 DEF WorkStep, StampStep, AlarmStep
    <2>2. alive
      BY <1>8 DEF WorkStep, StampStep, AlarmStep, Step
    <2>3. Joining => Joining'
      <3>1. CASE WorkStep(t)
        <4>1. Moved(t, stack'[t][1]) /\ stack[t][1].at # "q_join"
          BY <3>1 DEF WorkStep, Step, Busy
        <4> QED
          BY <4>1, JoiningKept
      <3>2. CASE StampStep(t)
        BY <3>2, JoiningKept DEF StampStep
      <3>3. CASE AlarmStep(t)
        BY <3>3, JoiningKept DEF AlarmStep
      <3> QED
        BY <1>8, <3>1, <3>2, <3>3
    <2> QED
      BY <2>1, <2>2, <2>3, ExitKept
  <1>9. ASSUME NEW t \in Thread, NEW sig \in {"TERM", "INT"}, TermStep(t, sig) PROVE ExitInv'
    <2>1. Base(Main)' = Base(Main) /\ UNCHANGED <<list, should_quit, thread, alive>> /\ alive
      BY <1>q, <1>9 DEF TermStep
    <2>2. Joining => Joining'
      BY <1>9, JoiningKept DEF TermStep
    <2> QED
      BY <2>1, <2>2, ExitKept
  <1>10. ASSUME NEW t \in Thread, QuitStep(t) PROVE ExitInv'
    <2>1. Base(Main)' = Base(Main) /\ UNCHANGED <<list, thread, alive>> /\ alive
      BY <1>q, <1>10 DEF QuitStep, Step
    <2>2. 1 \in 1 .. Len(stack'[t]) /\ stack'[t][1].at = "q_join"
      BY <1>10 DEF QuitStep, Step, Moved
    <2>3. Joining'
      BY <2>2 DEF Joining
    <2> QED
      BY <2>1, <2>3, SameList DEF ExitInv
  <1>11. ASSUME NEW t \in Thread, JoinStep(t) PROVE ExitInv'
    <2>1. Base(Main)' = Base(Main) /\ UNCHANGED <<list, should_quit, alive>> /\ alive
      BY <1>q, <1>11 DEF JoinStep, Step
    <2>2. \A d \in Conn : thread'[d] = "running" => thread[d] = "running"
      BY <1>11, <1>t DEF JoinStep
    <2>3. Moved(t, stack'[t][1]) /\ stack'[t][1].at = "q_join"
      BY <1>11 DEF JoinStep, Step
    <2>4. Joining => Joining'
      BY <2>3, JoiningKept
    <2> QED
      BY <2>1, <2>2, <2>4, ExitKept
  <1>12. ASSUME NEW t \in Thread, FreeStep(t) PROVE ExitInv'
    <2>1. Base(Main)' = Base(Main) /\ UNCHANGED <<thread, should_quit, alive>> /\ alive /\ list' = << >>
      BY <1>q, <1>12 DEF FreeStep
    <2>2. stack[t][1].at = "q_join" /\ 1 \in 1 .. Len(stack[t]) /\ stack[t][1].e = Free
      BY <1>12 DEF FreeStep, Popped
    <2>3. Free \in Walked
      BY <1>0, <2>2 DEF QuitFrames, QuitFrame
    <2>4. \A c \in Conn : Listed(c) => thread[c] # "running"
      BY <2>3 DEF Walked, Walk, Listed, Over
    <2> QED
      BY <2>1, <2>4 DEF ExitInv
  <1>13. ASSUME NEW t \in Thread, CrashStep(t) PROVE ExitInv'
    <2> DEFINE e == stack[t][1].e
    <2>1. /\ stack[t][1].at = "q_join" /\ 1 \in 1 .. Len(stack[t]) /\ e # Free
          /\ thread[e] \in {"none", "joined"} \/ node[e] # "live"
          /\ ~alive' /\ UNCHANGED <<node, thread>>
      BY <1>13 DEF CrashStep
    <2>2. e \in Walked
      BY <1>0, <2>1 DEF QuitFrames, QuitFrame
    <2> HIDE DEF e
    <2>3. PICK k \in 1 .. Len(list) : list[k] = e /\ \A j \in 1 .. Len(list) : j >= k => thread[list[j]] # "joined"
      BY <2>1, <2>2 DEF Walked, Walk
    <2>4. thread[e] # "joined"
      BY <2>3
    <2>5. e \in Conn /\ node[e] = "live"
      BY <1>0, <2>3 DEF Nodes
    <2>6. e \in NoThread'
      BY <2>1, <2>4, <2>5 DEF NoThread
    <2> QED
      BY <2>1, <2>6 DEF ExitInv
  <1>14. CASE PipeStep
    BY <1>14 DEF PipeStep
  <1>15. CASE IdleStep
    <2>1. Base(Main)' = Base(Main) /\ (Joining' <=> Joining) /\ UNCHANGED <<list, should_quit, thread, node, alive>>
      BY <1>q, <1>15 DEF IdleStep, Joining
    <2>2. NoThread' = NoThread
      BY <2>1 DEF NoThread
    <2> QED
      BY <2>1, <2>2, SameList DEF ExitInv
  <1> QED
    BY <1>2, <1>3, <1>4, <1>5, <1>6, <1>7, <1>8, <1>9, <1>10, <1>11, <1>12, <1>13, <1>14, <1>15 DEF ControlStep


(* A shutdown misses at most the worker that was just created when the     *)
(* process ends, whatever fails except sending to a client that hung up,   *)
(* for any number of connections and at most one quit signal.              *)
THEOREM ServerExitLeavesOneWorker ==
  ASSUME MaxQuits <= 1, "pipe" \notin Faults
  PROVE  Spec => []ExitLeavesOneWorker
  <1> DEFINE Inv == ServerInv /\ QuitInv
  <1>1. Init => ExitInv
    <2> SUFFICES ASSUME Init PROVE ExitInv
      OBVIOUS
    <2> QED
      BY DEF Init, ExitInv
  <1>2. Inv /\ ExitInv /\ [Next]_vars => ExitInv'
    BY ControlSteps, ExitStep DEF ServerInv
  <1>3. ExitInv => ExitLeavesOneWorker
    <2> SUFFICES ASSUME ExitInv, ~alive, NoThread = {}
                 PROVE  Cardinality({c \in Conn : thread[c] = "running"}) <= 1
      BY DEF ExitLeavesOneWorker
    <2> DEFINE left == {c \in Conn : thread[c] = "running"}
    <2>1. PICK x : left \subseteq {x}
      BY DEF ExitInv
    <2> HIDE DEF left
    <2>2. left = {} \/ left = {x}
      BY <2>1
    <2>3. Cardinality(left) \in {0, 1}
      BY <2>2, FS_EmptySet, FS_Singleton
    <2> QED
      BY <2>3 DEF left
  <1>4. Spec => []Inv
    BY QuitInvariant
  <1> QED
    BY <1>1, <1>2, <1>3, <1>4, PTL DEF Spec

-----------------------------------------------------------------------------
(* The server is the store that StoreLog promises, until it is told to     *)
(* quit.                                                                   *)

Opened == {"w_write", "d_read", "a_text", "a_newline"}
Serving == {"w_lock", "w_open", "w_write", "w_close", "d_lock", "d_open", "d_read"}
Owing == {"w_close", "d_lock", "d_open", "d_read"}

(* A timestamp without its newline ends the file. *)
Half(f) == Len(f) > 0 /\ f[Len(f)] = Stamp

(* The last items sent, o, are the first items of the file. *)
Echo(off, f, o) ==
  /\ off <= Len(f) /\ off <= Len(o)
  /\ \A i \in 1 .. off : o[Len(o) - off + i] = f[i]

(* What a frame of t says of the clients, the file and the answers. *)
FrameOK(t, fr, cl, se, f, ou) ==
  /\ fr.at # "q_quit"
  /\ fr.at \in Opened => fr.f # 0
  /\ fr.at = "a_newline" => Half(f)
  /\ fr.at \in {"d_lock", "d_open"} => fr.off = 0
  /\ fr.at \in Serving => cl[t] # "out"
  /\ fr.at \in {"w_lock", "w_open", "w_write"} => se[t] \in 1 .. MaxPackets
  /\ fr.at = "d_read" /\ cl[t] = "connected" => Echo(fr.off, f, ou[t])

FramesOK(st, cl, se, f, ou) ==
  \A t \in Thread : \A i \in 1 .. Len(st[t]) : FrameOK(t, st[t][i], cl, se, f, ou)

Stamping(st) == \E t \in Thread : \E i \in 1 .. Len(st[t]) : st[t][i].at = "a_newline"

StoreInv ==
  /\ ~should_quit
  /\ out \in [Conn -> Seq(Thread \X Nat)]
  /\ FramesOK(stack, client, sent, file, out)
  /\ Half(file) => Stamping(stack)

(* Frames other than the top one of t stay right. *)
OthersOK(t) ==
  \A u \in Thread : \A i \in 1 .. Len(stack[u]) :
    (u = t /\ i = 1) \/ FrameOK(u, stack[u][i], client', sent', file', out')

(* What is served, and the answers, of a worker. *)
Served(c) == InWorker(c, Owing)

(* What the store shows is unchanged when its content and every worker's   *)
(* part of it are.                                                         *)
LEMMA StoreKept ==
  ASSUME Content' = Content,
         \A c \in Conn : /\ client'[c] = "gone" <=> client[c] = "gone"
                         /\ Served(c)' <=> Served(c)
                         /\ Answers(c)' = Answers(c)
  PROVE  UNCHANGED Store!vars
  <1>1. [c \in Conn |-> Answers(c)]' = [c \in Conn |-> Answers(c)]
    OBVIOUS
  <1>2. {c \in Conn : InWorker(c, {"w_close", "d_lock", "d_open", "d_read"})}' =
          {c \in Conn : InWorker(c, {"w_close", "d_lock", "d_open", "d_read"})}
    BY DEF Served, Owing
  <1>3. {c \in Conn : client[c] = "gone"}' = {c \in Conn : client[c] = "gone"}
    OBVIOUS
  <1> QED
    BY <1>1, <1>2, <1>3 DEF Store!vars

(* The same, when the file is left alone. *)
LEMMA StoreStutters ==
  ASSUME UNCHANGED file,
         \A c \in Conn : /\ client'[c] = "gone" <=> client[c] = "gone"
                         /\ Served(c)' <=> Served(c)
                         /\ Answers(c)' = Answers(c)
  PROVE  UNCHANGED Store!vars
  <1>1. Content' = Content
    BY DEF Content
  <1> QED
    BY <1>1, StoreKept

(* A packet is put. *)
LEMMA StorePuts ==
  ASSUME NEW c \in Conn, NEW k \in 1 .. MaxPackets, ~Served(c), Served(c)',
         Content' = Append(Content, <<c, k>>),
         \A d \in Conn : /\ client'[d] = "gone" <=> client[d] = "gone"
                         /\ d # c => (Served(d)' <=> Served(d))
                         /\ Answers(d)' = Answers(d)
  PROVE  Store!Put(c)
  <1>1. \E p \in {<<c, j>> : j \in 1 .. MaxPackets} : Content' = Append(Content, p)
    OBVIOUS
  <1>2. [d \in Conn |-> Answers(d)]' = [d \in Conn |-> Answers(d)]
    OBVIOUS
  <1>3. {d \in Conn : InWorker(d, {"w_close", "d_lock", "d_open", "d_read"})}' =
          {d \in Conn : InWorker(d, {"w_close", "d_lock", "d_open", "d_read"})} \cup {c}
    BY DEF Served, Owing
  <1>4. {d \in Conn : client[d] = "gone"}' = {d \in Conn : client[d] = "gone"}
    OBVIOUS
  <1>5. c \notin {d \in Conn : InWorker(d, {"w_close", "d_lock", "d_open", "d_read"})}
    BY DEF Served, Owing
  <1> QED
    BY <1>1, <1>2, <1>3, <1>4, <1>5 DEF Store!Put


(* A timestamp is stored. *)
LEMMA StoreTicks ==
  ASSUME Content' = Content \o <<Stamp, Newline>>,
         \A c \in Conn : /\ client'[c] = "gone" <=> client[c] = "gone"
                         /\ Served(c)' <=> Served(c)
                         /\ Answers(c)' = Answers(c)
  PROVE  Store!Tick
  <1>1. [c \in Conn |-> Answers(c)]' = [c \in Conn |-> Answers(c)]
    OBVIOUS
  <1>2. {c \in Conn : InWorker(c, {"w_close", "d_lock", "d_open", "d_read"})}' =
          {c \in Conn : InWorker(c, {"w_close", "d_lock", "d_open", "d_read"})}
    BY DEF Served, Owing
  <1>3. {c \in Conn : client[c] = "gone"}' = {c \in Conn : client[c] = "gone"}
    OBVIOUS
  <1> QED
    BY <1>1, <1>2, <1>3 DEF Store!Tick

(* A client is answered, or its answer lost. *)
LEMMA StoreAnswers ==
  ASSUME NEW c \in Conn, Served(c), ~Served(c)', UNCHANGED <<file, client>>,
         client[c] = "gone" => Answers(c)' = Answers(c),
         client[c] # "gone" => Answers(c)' = Answers(c) \o Content,
         \A d \in Conn \ {c} : (Served(d)' <=> Served(d)) /\ Answers(d)' = Answers(d)
  PROVE  Store!Answer(c)
  <1> DEFINE answers == [d \in Conn |-> Answers(d)]
             gone == {d \in Conn : client[d] = "gone"}
             owed == {d \in Conn : InWorker(d, {"w_close", "d_lock", "d_open", "d_read"})}
  <1>1. Content' = Content /\ gone' = gone
    BY DEF Content
  <1>2. c \in owed /\ owed' = owed \ {c}
    BY DEF Served, Owing
  <1>3. c \in gone => answers' = answers
    OBVIOUS
  <1>4. c \notin gone => answers' = [answers EXCEPT ![c] = @ \o Content]
    OBVIOUS
  <1>5. answers' = IF c \in gone THEN answers ELSE [answers EXCEPT ![c] = @ \o Content]
    BY <1>3, <1>4
  <1> QED
    BY <1>1, <1>2, <1>5 DEF Store!Answer

(* A client leaves. *)
LEMMA StoreLeaves ==
  ASSUME NEW c \in Conn, UNCHANGED file, client'[c] = "gone", Answers(c)' = << >>,
         \A d \in Conn : Served(d)' <=> Served(d),
         \A d \in Conn \ {c} : (client'[d] = "gone" <=> client[d] = "gone") /\ Answers(d)' = Answers(d)
  PROVE  Store!Leave(c)
  <1> DEFINE answers == [d \in Conn |-> Answers(d)]
             gone == {d \in Conn : client[d] = "gone"}
             owed == {d \in Conn : InWorker(d, {"w_close", "d_lock", "d_open", "d_read"})}
  <1>1. Content' = Content /\ gone' = gone \cup {c} /\ owed' = owed
    BY DEF Content, Served, Owing
  <1>2. answers' = [answers EXCEPT ![c] = << >>]
    OBVIOUS
  <1> QED
    BY <1>1, <1>2 DEF Store!Leave

(* Nothing of a whole answer is left out. *)
LEMMA WholeAnswer ==
  ASSUME NEW o \in Seq(Thread \X Nat)
  PROVE  SubSeq(o, 1, Len(o) - 0) = o
  <1> DEFINE n == Len(o)
  <1>1. n \in Nat /\ SubSeq(o, 1, n) = o
    BY SubSeqFull
  <1>2. n - 0 = n
    <2> HIDE DEF n
    <2> QED
      BY <1>1
  <1> QED
    BY <1>1, <1>2

(* A worker whose own frame stays, and whose client has the same, shows    *)
(* the same.                                                               *)
SameView(c) == (Served(c)' <=> Served(c)) /\ Answers(c)' = Answers(c)

(* SameView needs only the worker's own frame and its client. *)
LEMMA ViewKept ==
  ASSUME NEW c \in Conn, stack'[c] # << >> <=> stack[c] # << >>, Base(c)' = Base(c),
         out'[c] = out[c], client'[c] = "gone" <=> client[c] = "gone"
  PROVE  SameView(c)
  <1>1. \A L : InWorker(c, L)' <=> InWorker(c, L)
    BY DEF InWorker
  <1>2. Served(c)' <=> Served(c)
    BY <1>1 DEF Served, Owing
  <1>3. Answers(c)' = Answers(c)
    BY <1>1 DEF Answers
  <1> QED
    BY <1>2, <1>3 DEF SameView

(* A worker's own step. *)
LEMMA WorkerViews ==
  ASSUME TypeInv, StoreInv, NEW c \in Conn, NEW from \in WorkerLabels, NEW to \in WorkerLabels, Step(c, from, to),
         \A d \in Conn \ {c} : out'[d] = out[d] /\ (client'[d] = "gone" <=> client[d] = "gone"),
         out' \in [Conn -> Seq(Thread \X Nat)]
  PROVE  /\ Served(c) <=> from \in Owing
         /\ Served(c)' <=> to \in Owing
         /\ client[c] = "gone" => Answers(c) = << >>
         /\ client[c] # "gone" => /\ from # "d_read" => Answers(c) = out[c]
                                  /\ from = "d_read" => Answers(c) = SubSeq(out[c], 1, Len(out[c]) - stack[c][1].off)
         /\ client'[c] = "gone" => Answers(c)' = << >>
         /\ client'[c] # "gone" => /\ to # "d_read" => Answers(c)' = out'[c]
                                   /\ to = "d_read" => Answers(c)' = SubSeq(out'[c], 1, Len(out'[c]) - stack'[c][1].off)
         /\ \A d \in Conn \ {c} : SameView(d)
  <1>0. c \in Thread /\ Conn \subseteq Thread /\ from \notin HandlerLabels
    BY DEF Thread
  <1>1. /\ Base(c) = stack[c][1] /\ Base(c)' = stack'[c][1] /\ Base(c).at = from /\ Base(c)'.at = to
        /\ stack[c] # << >> /\ stack'[c] # << >>
        /\ \A u \in Thread \ {c} : stack'[u] = stack[u] /\ Base(u)' = Base(u)
    BY <1>0, OwnStep DEF TypeInv
  <1>2. \A L : (InWorker(c, L) <=> from \in L) /\ (InWorker(c, L)' <=> to \in L)
    BY <1>1 DEF InWorker
  <1>3. \A d \in Conn \ {c} : SameView(d)
    BY <1>0, <1>1, ViewKept
  <1>4. (Served(c) <=> from \in Owing) /\ (Served(c)' <=> to \in Owing)
    BY <1>2 DEF Served, Owing
  <1>5. out[c] \in Seq(Thread \X Nat) /\ out'[c] \in Seq(Thread \X Nat)
    BY DEF StoreInv
  <1>6. SubSeq(out[c], 1, Len(out[c]) - 0) = out[c] /\ SubSeq(out'[c], 1, Len(out'[c]) - 0) = out'[c]
    BY <1>5, WholeAnswer
  <1>7. /\ client[c] = "gone" => Answers(c) = << >>
        /\ client[c] # "gone" => /\ from # "d_read" => Answers(c) = out[c]
                                 /\ from = "d_read" => Answers(c) = SubSeq(out[c], 1, Len(out[c]) - stack[c][1].off)
    BY <1>1, <1>2, <1>6 DEF Answers
  <1>8. /\ client'[c] = "gone" => Answers(c)' = << >>
        /\ client'[c] # "gone" => /\ to # "d_read" => Answers(c)' = out'[c]
                                  /\ to = "d_read" => Answers(c)' = SubSeq(out'[c], 1, Len(out'[c]) - stack'[c][1].off)
    BY <1>1, <1>2, <1>6 DEF Answers
  <1> QED
    BY <1>3, <1>4, <1>7, <1>8


-----------------------------------------------------------------------------
(* What is known of every frame stays true of the frames that do not move. *)

(* Nothing they depend on has changed. *)
LEMMA OthersSame ==
  ASSUME StoreInv, UNCHANGED <<client, sent, file, out>>, NEW t
  PROVE  OthersOK(t)
  BY DEF OthersOK, StoreInv, FramesOK

(* The thread that writes to the file is alone with it. *)
LEMMA OthersOutside ==
  ASSUME StoreInv, Exclusive, NEW t \in Thread, 1 \in 1 .. Len(stack[t]), stack[t][1].at \in FileLabels,
         UNCHANGED <<client, sent, out>>
  PROVE  OthersOK(t)
  <1> SUFFICES ASSUME NEW u \in Thread, NEW i \in 1 .. Len(stack[u]), ~(u = t /\ i = 1)
               PROVE  FrameOK(u, stack[u][i], client', sent', file', out')
    BY DEF OthersOK
  <1>1. stack[u][i].at \notin FileLabels
    BY DEF Exclusive
  <1>2. FrameOK(u, stack[u][i], client, sent, file, out)
    BY DEF StoreInv, FramesOK
  <1> QED
    BY <1>1, <1>2 DEF FrameOK, FileLabels, Opened

(* What a worker does for its own client. *)
LEMMA OthersElsewhere ==
  ASSUME TypeInv, StoreInv, NEW c \in Conn, UNCHANGED file, Len(stack[c]) \in {0, 1},
         \A d \in Conn \ {c} : client'[d] = client[d] /\ sent'[d] = sent[d] /\ out'[d] = out[d]
  PROVE  OthersOK(c)
  <1> SUFFICES ASSUME NEW u \in Thread, NEW i \in 1 .. Len(stack[u]), ~(u = c /\ i = 1)
               PROVE  FrameOK(u, stack[u][i], client', sent', file', out')
    BY DEF OthersOK
  <1>1. FrameOK(u, stack[u][i], client, sent, file, out)
    BY DEF StoreInv, FramesOK
  <1>2. u # c
    <2> DEFINE n == Len(stack[u])
    <2>1. i \in 1 .. n /\ (u = c => n \in {0, 1})
      OBVIOUS
    <2> HIDE DEF n
    <2> QED
      BY <2>1
  <1>3. CASE u \in Conn
    BY <1>1, <1>2, <1>3 DEF FrameOK
  <1>4. CASE u = Main
    <2>1. Fits(u, i, Len(stack[u]), stack[u][i].at)
      BY DEF TypeInv, Stacks
    <2>2. stack[u][i].at \notin WorkerLabels
      <3> DEFINE n == Len(stack[u])
      <3>1. n \in Nat /\ i \in 1 .. n /\ Fits(u, i, n, stack[u][i].at)
        BY <2>1 DEF TypeInv, Stacks
      <3> HIDE DEF n
      <3>2. i < n \/ i = n
        BY <3>1
      <3> QED
        BY <1>4, <3>1, <3>2 DEF Fits
    <2> QED
      BY <1>1, <2>2 DEF FrameOK, Serving
  <1> QED
    BY <1>3, <1>4 DEF Thread

-----------------------------------------------------------------------------
(* The invariant, by what happens to the stacks. *)

(* A thread moves on. *)
LEMMA StoreMoved ==
  ASSUME StoreInv, NEW t \in Thread, NEW fr, Moved(t, fr), OthersOK(t),
         FrameOK(t, fr, client', sent', file', out'),
         ~should_quit', out' \in [Conn -> Seq(Thread \X Nat)],
         Half(file') => (Half(file) /\ stack[t][1].at # "a_newline") \/ fr.at = "a_newline"
  PROVE  StoreInv'
  <1>1. ASSUME NEW u \in Thread, NEW i \in 1 .. Len(stack'[u])
        PROVE  /\ i \in 1 .. Len(stack[u])
               /\ ~(u = t /\ i = 1) => stack'[u][i] = stack[u][i]
               /\ u = t /\ i = 1 => stack'[u][i] = fr
    BY DEF Moved
  <1>2. FramesOK(stack', client', sent', file', out')
    BY <1>1 DEF FramesOK, OthersOK
  <1>3. ASSUME Half(file') PROVE Stamping(stack')
    <2>1. 1 \in 1 .. Len(stack'[t]) /\ stack'[t][1] = fr
      BY DEF Moved
    <2>2. CASE fr.at = "a_newline"
      BY <2>1, <2>2 DEF Stamping
    <2>3. CASE Half(file) /\ stack[t][1].at # "a_newline"
      <3>1. Stamping(stack)
        BY <2>3 DEF StoreInv
      <3>2. PICK u \in Thread : \E i \in 1 .. Len(stack[u]) : stack[u][i].at = "a_newline"
        BY <3>1 DEF Stamping
      <3>3. PICK i \in 1 .. Len(stack[u]) : stack[u][i].at = "a_newline"
        BY <3>2
      <3>4. ~(u = t /\ i = 1)
        BY <2>3, <3>3
      <3>5. i \in 1 .. Len(stack'[u]) /\ stack'[u][i] = stack[u][i]
        BY <3>4 DEF Moved
      <3> QED
        BY <3>3, <3>5 DEF Stamping
    <2> QED
      BY <1>3, <2>2, <2>3
  <1> QED
    BY <1>2, <1>3 DEF StoreInv

(* A handler starts. *)
LEMMA StorePushed ==
  ASSUME StoreInv, NEW t \in Thread, NEW fr, Pushed(t, fr), fr.at = "a_lock",
         UNCHANGED <<client, sent, file, out, should_quit>>
  PROVE  StoreInv'
  <1>1. FramesOK(stack', client', sent', file', out')
    <2> SUFFICES ASSUME NEW u \in Thread, NEW i \in 1 .. Len(stack'[u])
                 PROVE  FrameOK(u, stack'[u][i], client, sent, file, out)
      BY DEF FramesOK
    <2>1. stack'[u][i] = fr \/ \E k \in 1 .. Len(stack[u]) : stack'[u][i] = stack[u][k]
      BY PushedFrom
    <2>2. CASE stack'[u][i] = fr
      BY <2>2 DEF FrameOK, Opened, Serving
    <2> QED
      BY <2>1, <2>2 DEF StoreInv, FramesOK
  <1>2. ASSUME Half(file) PROVE Stamping(stack')
    <2>1. Stamping(stack)
      BY <1>2 DEF StoreInv
    <2>2. PICK u \in Thread : \E i \in 1 .. Len(stack[u]) : stack[u][i].at = "a_newline"
      BY <2>1 DEF Stamping
    <2>3. PICK i \in 1 .. Len(stack[u]) : stack[u][i].at = "a_newline"
      BY <2>2
    <2>4. CASE u # t
      BY <2>3, <2>4 DEF Stamping, Pushed
    <2>5. CASE u = t
      <3> DEFINE n == Len(stack[t])
                 m == Len(stack'[t])
      <3>1. /\ n \in Nat \ {0} /\ m = n + 1 /\ i \in 1 .. n
            /\ \A x \in 2 .. n + 1 : stack'[t][x] = stack[t][x - 1]
        BY <2>5 DEF Pushed
      <3> HIDE DEF n, m
      <3>2. i + 1 \in 2 .. n + 1 /\ i + 1 - 1 = i /\ i + 1 \in 1 .. m
        BY <3>1
      <3>3. stack'[t][i + 1].at = "a_newline"
        BY <2>3, <2>5, <3>1, <3>2
      <3>4. i + 1 \in 1 .. Len(stack'[t])
        BY <3>2 DEF m
      <3> QED
        BY <3>3, <3>4 DEF Stamping
    <2> QED
      BY <2>4, <2>5
  <1> QED
    BY <1>1, <1>2 DEF StoreInv

(* A handler, or a worker, ends. *)
LEMMA StorePopped ==
  ASSUME StoreInv, NEW t \in Thread, Popped(t), stack[t][1].at # "a_newline",
         UNCHANGED <<client, sent, file, out, should_quit>>
  PROVE  StoreInv'
  <1>1. FramesOK(stack', client', sent', file', out')
    <2> SUFFICES ASSUME NEW u \in Thread, NEW i \in 1 .. Len(stack'[u])
                 PROVE  FrameOK(u, stack'[u][i], client, sent, file, out)
      BY DEF FramesOK
    <2>1. \E k \in 1 .. Len(stack[u]) : stack'[u][i] = stack[u][k]
      BY PoppedFrom
    <2> QED
      BY <2>1 DEF StoreInv, FramesOK
  <1>2. ASSUME Half(file) PROVE Stamping(stack')
    <2>1. Stamping(stack)
      BY <1>2 DEF StoreInv
    <2>2. PICK u \in Thread : \E i \in 1 .. Len(stack[u]) : stack[u][i].at = "a_newline"
      BY <2>1 DEF Stamping
    <2>3. PICK i \in 1 .. Len(stack[u]) : stack[u][i].at = "a_newline"
      BY <2>2
    <2>4. CASE u # t
      BY <2>3, <2>4 DEF Stamping, Popped
    <2>5. CASE u = t
      <3> DEFINE n == Len(stack[t])
                 m == Len(stack'[t])
      <3>1. /\ n \in Nat \ {0} /\ m = n - 1 /\ i \in 1 .. n /\ i # 1
            /\ \A x \in 1 .. n - 1 : stack'[t][x] = stack[t][x + 1]
        BY <2>3, <2>5 DEF Popped
      <3> HIDE DEF n, m
      <3>2. i - 1 \in 1 .. n - 1 /\ i - 1 + 1 = i /\ i - 1 \in 1 .. m
        BY <3>1
      <3>3. stack'[t][i - 1].at = "a_newline"
        BY <2>3, <2>5, <3>1, <3>2
      <3>4. i - 1 \in 1 .. Len(stack'[t])
        BY <3>2 DEF m
      <3> QED
        BY <3>3, <3>4 DEF Stamping
    <2> QED
      BY <2>4, <2>5
  <1> QED
    BY <1>1, <1>2 DEF StoreInv


(* A new worker starts. *)
LEMMA StoreCreated ==
  ASSUME TypeInv, StoreInv, NEW c \in Conn, Created(c), stack[Main][1].at = "create", stack[c] = << >>,
         UNCHANGED <<client, sent, file, out, should_quit>>
  PROVE  StoreInv'
  <1>0. Main \in Thread /\ c \in Thread /\ Main # c
    BY ServerAssumption DEF Thread
  <1>1. stack'[Main][1].at = "insert" /\ stack'[c][1].at = "start"
    <2>1. stack[Main][1] \in FrameSet
      BY <1>0, FirstOf DEF TypeInv, Stacks
    <2> QED
      BY <2>1, FrameFields DEF Created, FrameSet
  <1>2. FramesOK(stack', client', sent', file', out')
    <2> SUFFICES ASSUME NEW u \in Thread, NEW i \in 1 .. Len(stack'[u])
                 PROVE  FrameOK(u, stack'[u][i], client, sent, file, out)
      BY DEF FramesOK
    <2>1. CASE u \in {Main, c}
      <3> DEFINE n == Len(stack'[u])
      <3>1. i \in 1 .. n /\ n = 1
        BY <2>1 DEF Created
      <3> HIDE DEF n
      <3>2. i = 1
        BY <3>1
      <3>3. stack'[u][i].at \in {"insert", "start"}
        BY <1>1, <2>1, <3>2
      <3> QED
        BY <3>3 DEF FrameOK, Opened, Serving
    <2>2. CASE u \notin {Main, c}
      <3>1. stack'[u] = stack[u]
        BY <2>2 DEF Created
      <3> QED
        BY <3>1 DEF StoreInv, FramesOK
    <2> QED
      BY <2>1, <2>2
  <1>3. ASSUME Half(file) PROVE Stamping(stack')
    <2>1. Stamping(stack)
      BY <1>3 DEF StoreInv
    <2>2. PICK u \in Thread : \E i \in 1 .. Len(stack[u]) : stack[u][i].at = "a_newline"
      BY <2>1 DEF Stamping
    <2>3. PICK i \in 1 .. Len(stack[u]) : stack[u][i].at = "a_newline"
      BY <2>2
    <2>4. u # Main
      <3> DEFINE n == Len(stack[u])
      <3>1. i \in 1 .. n /\ (u = Main => n = 1)
        BY DEF Created
      <3> HIDE DEF n
      <3>2. u = Main => i = 1
        BY <3>1
      <3> QED
        BY <2>3, <3>2
    <2>5. u # c
      <3> DEFINE n == Len(stack[u])
      <3>1. i \in 1 .. n /\ (u = c => n = 0)
        BY EmptySeq
      <3> HIDE DEF n
      <3> QED
        BY <3>1
    <2>6. stack'[u] = stack[u]
      BY <2>4, <2>5 DEF Created
    <2> QED
      BY <2>3, <2>6 DEF Stamping
  <1> QED
    BY <1>2, <1>3 DEF StoreInv

-----------------------------------------------------------------------------
(* Every step keeps the invariant and is a step of the store, or none. *)

Stored == StoreInv' /\ (Store!Next \/ UNCHANGED Store!vars)

(* The accept loop.  A client that comes is not served yet. *)
LEMMA StoreMainStep ==
  ASSUME TypeInv, StoreInv, NEW from \in MainLabels, NEW to \in MainLabels, Step(Main, from, to),
         UNCHANGED <<sent, file, out, should_quit>>,
         \A c \in Conn : client'[c] = client[c] \/ (client[c] = "out" /\ client'[c] = "connected")
  PROVE  Stored
  <1>0. Main \in Thread /\ Conn \subseteq Thread \ {Main} /\ from \notin HandlerLabels /\ Thread = Conn \cup {Main}
    BY ServerAssumption DEF Thread
  <1>1. /\ Moved(Main, stack'[Main][1]) /\ stack[Main][1].at = from /\ stack'[Main][1].at = to
        /\ Len(stack[Main]) = 1
        /\ \A u \in Thread \ {Main} : stack'[u] = stack[u] /\ Base(u)' = Base(u)
    <2>1. Moved(Main, stack'[Main][1]) /\ stack[Main][1].at = from /\ stack'[Main][1].at = to
      BY DEF Step
    <2> QED
      BY <1>0, <2>1, LastFrame, OwnStep DEF TypeInv, Moved
  <1>2. OthersOK(Main)
    <2> SUFFICES ASSUME NEW u \in Thread, NEW i \in 1 .. Len(stack[u]), ~(u = Main /\ i = 1)
                 PROVE  FrameOK(u, stack[u][i], client', sent, file, out)
      BY DEF OthersOK
    <2>1. u # Main
      <3> DEFINE n == Len(stack[u])
      <3>1. i \in 1 .. n /\ (u = Main => n = 1)
        BY <1>1
      <3> HIDE DEF n
      <3> QED
        BY <3>1
    <2>2. client'[u] = client[u] \/ (client[u] = "out" /\ client'[u] = "connected")
      BY <1>0, <2>1
    <2>3. FrameOK(u, stack[u][i], client, sent, file, out)
      BY DEF StoreInv, FramesOK
    <2> QED
      BY <2>2, <2>3 DEF FrameOK, Serving
  <1>3. FrameOK(Main, stack'[Main][1], client', sent', file', out')
    BY <1>1 DEF FrameOK, Opened, Serving
  <1>4. StoreInv'
    <2>1. stack[Main][1].at # "a_newline" /\ ~should_quit' /\ out' \in [Conn -> Seq(Thread \X Nat)]
      BY <1>1 DEF StoreInv
    <2>2. Half(file') => Half(file)
      OBVIOUS
    <2> QED
      BY <1>0, <1>1, <1>2, <1>3, <2>1, <2>2, StoreMoved
  <1>5. \A c \in Conn : (client'[c] = "gone" <=> client[c] = "gone") /\ SameView(c)
    BY <1>0, <1>1, ViewKept
  <1> QED
    BY <1>4, <1>5, StoreStutters DEF Stored, SameView

(* A handler, on any thread, that leaves the file as it is. *)
LEMMA StoreHandlerStep ==
  ASSUME TypeInv, StoreInv, NEW t \in Thread, NEW fr,
         UNCHANGED <<client, sent, file, out, should_quit>>,
         \/ /\ Moved(t, fr) /\ stack[t][1].at \in HandlerLabels \ {"a_newline"}
            /\ fr.at \in HandlerLabels \ {"q_quit", "a_newline"} /\ (fr.at \in Opened => fr.f # 0)
         \/ Pushed(t, fr) /\ fr.at = "a_lock"
         \/ Popped(t) /\ Len(stack[t]) > 1 /\ stack[t][1].at # "a_newline"
  PROVE  Stored
  <1>1. StoreInv'
    <2>1. CASE Moved(t, fr) /\ stack[t][1].at \in HandlerLabels \ {"a_newline"}
               /\ fr.at \in HandlerLabels \ {"q_quit", "a_newline"} /\ (fr.at \in Opened => fr.f # 0)
      <3>1. FrameOK(t, fr, client', sent', file', out')
        BY <2>1 DEF FrameOK, Serving
      <3>2. OthersOK(t)
        BY OthersSame
      <3>3. stack[t][1].at # "a_newline" /\ ~should_quit' /\ out' \in [Conn -> Seq(Thread \X Nat)]
            /\ (Half(file') => Half(file))
        BY <2>1 DEF StoreInv
      <3> QED
        BY <2>1, <3>1, <3>2, <3>3, StoreMoved
    <2> QED
      BY <2>1, StorePushed, StorePopped
  <1>2. (\A u \in Thread : Base(u)' = Base(u)) /\ WorkersSame({})
    BY SameBase DEF TypeInv
  <1>3. \A c \in Conn : (client'[c] = "gone" <=> client[c] = "gone") /\ SameView(c)
    BY <1>2, ViewKept DEF WorkersSame, Works, Thread
  <1> QED
    BY <1>1, <1>3, StoreStutters DEF Stored, SameView

(* A worker that neither writes, nor sends, nor ends an answer. *)
LEMMA StoreOwnStep ==
  ASSUME TypeInv, StoreInv, NEW c \in Conn, NEW from \in WorkerLabels \ {"d_read"}, NEW to \in WorkerLabels,
         Step(c, from, to), from \in Owing <=> to \in Owing,
         UNCHANGED <<client, file, out, should_quit>>,
         \A d \in Conn \ {c} : sent'[d] = sent[d],
         to \in Opened => stack'[c][1].f # 0,
         to \in {"d_lock", "d_open", "d_read"} => stack'[c][1].off = 0,
         to \in Serving => client[c] # "out",
         to \in {"w_lock", "w_open", "w_write"} => sent'[c] \in 1 .. MaxPackets
  PROVE  Stored
  <1>0. c \in Thread /\ from \notin HandlerLabels /\ stack[c][1].at = from /\ Moved(c, stack'[c][1])
        /\ stack'[c][1].at = to
    BY DEF Thread, Step
  <1>1. Len(stack[c]) = 1
    BY <1>0, LastFrame DEF TypeInv, Moved
  <1>2. OthersOK(c)
    BY <1>1, OthersElsewhere
  <1>3. out \in [Conn -> Seq(Thread \X Nat)] /\ ~should_quit /\ out[c] \in Seq(Thread \X Nat)
    BY DEF StoreInv
  <1>4. FrameOK(c, stack'[c][1], client', sent', file', out')
    <2>1. to = "d_read" => Echo(stack'[c][1].off, file', out'[c])
      <3> SUFFICES ASSUME to = "d_read" PROVE Echo(0, file, out[c])
        OBVIOUS
      <3>1. Len(file) \in Nat /\ Len(out[c]) \in Nat
        BY <1>3 DEF TypeInv, Types
      <3> QED
        BY <3>1 DEF Echo
    <2> QED
      BY <1>0, <2>1 DEF FrameOK
  <1>5. StoreInv'
    <2>1. stack[c][1].at # "a_newline" /\ ~should_quit' /\ out' \in [Conn -> Seq(Thread \X Nat)]
          /\ (Half(file') => Half(file))
      BY <1>0, <1>3
    <2> QED
      BY <1>0, <1>2, <1>4, <2>1, StoreMoved
  <1>6. /\ Served(c) <=> from \in Owing
        /\ Served(c)' <=> to \in Owing
        /\ client[c] = "gone" => Answers(c) = << >> /\ Answers(c)' = << >>
        /\ client[c] # "gone" => /\ Answers(c) = out[c]
                                 /\ to # "d_read" => Answers(c)' = out[c]
                                 /\ to = "d_read" => Answers(c)' = SubSeq(out[c], 1, Len(out[c]) - 0)
        /\ \A d \in Conn \ {c} : SameView(d)
    <2>1. /\ \A d \in Conn \ {c} : out'[d] = out[d] /\ (client'[d] = "gone" <=> client[d] = "gone")
          /\ out' \in [Conn -> Seq(Thread \X Nat)] /\ out'[c] = out[c] /\ client'[c] = client[c]
          /\ from \in WorkerLabels /\ from # "d_read" /\ (to = "d_read" => stack'[c][1].off = 0)
      BY <1>3
    <2> HIDE DEF Served, Answers, SameView, WorkerLabels, Owing
    <2> QED
      BY <2>1, WorkerViews
  <1>7. SameView(c)
    BY <1>3, <1>6, WholeAnswer DEF SameView
  <1> QED
    BY <1>5, <1>6, <1>7, StoreStutters DEF Stored, SameView


(* Going elsewhere keeps the offset in the file. *)
LEMMA GoOffset ==
  ASSUME Stacks, NEW t \in Thread, NEW from, At(t, from), NEW to \in Labels, Go(t, to)
  PROVE  stack'[t][1].off = stack[t][1].off
  <1> DEFINE fr == [stack[t][1] EXCEPT !.at = to]
  <1>1. Moved(t, fr)
    BY GoMoves
  <1>2. stack[t][1] \in FrameSet
    BY AtTop
  <1>3. fr.off = stack[t][1].off
    BY <1>2 DEF FrameSet
  <1> HIDE DEF fr
  <1> QED
    BY <1>1, <1>3 DEF Moved

(* pthread_create: a worker that has no client to serve yet. *)
LEMMA StoreCreate ==
  ASSUME TypeInv, StoreInv, Fresh, NEW c \in Conn, CreateStep(c), UNCHANGED <<client, sent, file, out, should_quit>>
  PROVE  Stored
  <1>1. /\ Base(Main).at = "create" /\ Base(Main).e = c /\ Starting(c)'
    BY CreateBase
  <1>2. thread[c] = "none"
    BY <1>1 DEF Fresh
  <1>3. stack[c] = << >>
    BY <1>2 DEF Fresh, Works
  <1>4. Created(c) /\ stack[Main][1].at = "create"
    BY DEF CreateStep
  <1>5. StoreInv'
    BY <1>3, <1>4, StoreCreated
  <1>6. ~Served(c) /\ ~InWorker(c, {"d_read"})
    BY <1>3 DEF Served, InWorker
  <1>7. ~Served(c)' /\ ~InWorker(c, {"d_read"})'
    BY <1>1 DEF Starting, Served, InWorker, Owing
  <1>8. SameView(c)
    BY <1>6, <1>7 DEF SameView, Answers
  <1>9. \A d \in Conn \ {c} : stack'[d] = stack[d]
    BY <1>4, ServerAssumption DEF Created, Thread
  <1>10. \A d \in Conn \ {c} : SameView(d)
    BY <1>9, ViewKept DEF Base
  <1> QED
    BY <1>5, <1>8, <1>10, StoreStutters DEF Stored, SameView

(* The steps of the accept loop. *)
LEMMA StoreMain ==
  ASSUME TypeInv, StoreInv, Fresh, MainStep \/ \E c \in Conn : accept(c)
  PROVE  Stored
  <1>0. Main \in Thread /\ Main \notin Conn /\ Stacks /\ ~should_quit /\ client \in [Conn -> {"out", "connected", "gone"}]
    BY ServerAssumption DEF Thread, TypeInv, Types, StoreInv
  <1>1. ASSUME NEW c \in Conn, accept(c) PROVE Stored
    <2> DEFINE fr == Frame("accepted", c, Free)
    <2>1. fr \in FrameSet /\ fr.at = "accepted" /\ fr.sig = Free
      BY FrameType, FrameFields
    <2>2. At(Main, "accept") /\ Becomes(Main, fr)
      BY <1>1 DEF accept
    <2> HIDE DEF fr
    <2>3. Step(Main, "accept", "accepted")
      BY <1>0, <2>1, <2>2, BecomesSteps
    <2>4. /\ UNCHANGED <<sent, file, out, should_quit>>
          /\ \A d \in Conn : client'[d] = client[d] \/ (client[d] = "out" /\ client'[d] = "connected")
      BY <1>0, <1>1 DEF accept, control
    <2> QED
      BY <2>3, <2>4, StoreMainStep
  <1>2. CASE accept_closed
    <2>1. Step(Main, "accept", "accepted")
      BY <1>0, <1>2, GoSteps DEF accept_closed
    <2>2. UNCHANGED <<client, sent, file, out, should_quit>>
      BY <1>2 DEF accept_closed, control, files, world
    <2> QED
      BY <2>1, <2>2, StoreMainStep
  <1>3. CASE CheckQuit
    <2>1. Step(Main, "accepted", "lock_list")
      BY <1>0, <1>3, GoSteps DEF CheckQuit
    <2>2. UNCHANGED <<client, sent, file, out, should_quit>>
      BY <1>0, <1>3 DEF CheckQuit, control, files, world
    <2> QED
      BY <2>1, <2>2, StoreMainStep
  <1>4. CASE LockList
    <2>1. Step(Main, "lock_list", "create")
      BY <1>0, <1>4, GoSteps DEF LockList
    <2>2. UNCHANGED <<client, sent, file, out, should_quit>>
      BY <1>4 DEF LockList, control, files, world
    <2> QED
      BY <2>1, <2>2, StoreMainStep
  <1>5. CASE pthread_create
    <2>1. UNCHANGED <<client, sent, file, out, should_quit>>
      BY <1>5 DEF pthread_create, control, files, world
    <2>2. CASE Go(Main, "insert")
      <3>1. Step(Main, "create", "insert")
        BY <1>0, <1>5, <2>2, GoSteps DEF pthread_create
      <3> QED
        BY <2>1, <3>1, StoreMainStep
    <2>3. CASE ~Go(Main, "insert")
      <3> DEFINE c == Top(Main).e
      <3>1. /\ At(Main, "create") /\ thread' = [thread EXCEPT ![c] = "running"]
            /\ stack' = [stack EXCEPT ![Main] = <<[Top(Main) EXCEPT !.at = "insert"]>> \o Tail(@),
                                      ![c] = <<Frame("start", c, Free)>>]
            /\ UNCHANGED <<alive, should_quit, linked_list_mutex, list, node, quits>>
        BY <1>5, <2>3 DEF pthread_create, control, world
      <3>2. alive /\ Top(Main) = stack[Main][1] /\ stack[Main][1].at = "create" /\ c \in Conn \cup {Free}
        BY <1>0, <3>1, AtTop DEF FrameSet
      <3>3. c \in Conn
        BY <1>0, <2>3, <3>1, <3>2, CreateNothing DEF TypeInv
      <3>4. Created(c)
        BY <1>0, <3>1, <3>3, CreateCreates
      <3>5. CreateStep(c)
        BY <3>1, <3>2, <3>4 DEF CreateStep
      <3> QED
        BY <2>1, <3>2, <3>3, <3>5, StoreCreate
    <2> QED
      BY <2>2, <2>3
  <1>6. CASE InsertNode
    <2> DEFINE fr == Frame("accept", Free, Free)
    <2>1. fr \in FrameSet /\ fr.at = "accept" /\ fr.sig = Free
      BY FrameType, FrameFields
    <2>2. At(Main, "insert") /\ Becomes(Main, fr)
      BY <1>6 DEF InsertNode
    <2> HIDE DEF fr
    <2>3. Step(Main, "insert", "accept")
      BY <1>0, <2>1, <2>2, BecomesSteps
    <2>4. UNCHANGED <<client, sent, file, out, should_quit>>
      BY <1>0, <1>6 DEF InsertNode, control, files, world
    <2> QED
      BY <2>3, <2>4, StoreMainStep
  <1> QED
    BY <1>1, <1>2, <1>3, <1>4, <1>5, <1>6 DEF MainStep


(* What is known of the frame a thread is in. *)
LEMMA TopOK ==
  ASSUME TypeInv, StoreInv, NEW t \in Thread, NEW label, At(t, label)
  PROVE  /\ FrameOK(t, stack[t][1], client, sent, file, out)
         /\ stack[t][1].at = label /\ stack[t][1] \in FrameSet /\ Top(t) = stack[t][1]
         /\ 1 \in 1 .. Len(stack[t])
  <1>1. /\ stack[t][1].at = label /\ stack[t][1] \in FrameSet /\ Top(t) = stack[t][1]
        /\ Len(stack[t]) \in Nat \ {0}
    BY AtTop DEF TypeInv
  <1>2. 1 \in 1 .. Len(stack[t])
    BY <1>1
  <1> QED
    BY <1>1, <1>2 DEF StoreInv, FramesOK

(* A thread that is past its open uses a descriptor of the data file. *)
LEMMA FileIsOpen ==
  ASSUME TypeInv, StoreInv, Descriptors, NEW t \in Thread, NEW label \in Opened, At(t, label)
  PROVE  IsOpen(Top(t).f, Mode(label))
  <1>1. /\ FrameOK(t, stack[t][1], client, sent, file, out)
        /\ stack[t][1].at = label /\ stack[t][1] \in FrameSet /\ Top(t) = stack[t][1]
        /\ 1 \in 1 .. Len(stack[t])
    BY TopOK
  <1>2. Holds(stack[t][1])
    BY <1>1 DEF Descriptors, StoreInv, FramesHold
  <1>3. stack[t][1].f # 0 /\ stack[t][1].f \in Fd \cup {0}
    BY <1>1 DEF FrameOK, FrameSet
  <1> QED
    BY <1>1, <1>2, <1>3 DEF Holds, IsOpen

(* Nobody else is in the middle of a timestamp. *)
LEMMA NotHalf ==
  ASSUME StoreInv, Exclusive, NEW t \in Thread, 1 \in 1 .. Len(stack[t]),
         stack[t][1].at \in FileLabels \ {"a_newline"}
  PROVE  ~Half(file)
  <1> SUFFICES ASSUME Half(file) PROVE FALSE
    OBVIOUS
  <1>1. Stamping(stack)
    BY DEF StoreInv
  <1>2. PICK u \in Thread : \E i \in 1 .. Len(stack[u]) : stack[u][i].at = "a_newline"
    BY <1>1 DEF Stamping
  <1>3. PICK i \in 1 .. Len(stack[u]) : stack[u][i].at = "a_newline"
    BY <1>2
  <1>4. t = u /\ 1 = i
    BY <1>3 DEF Exclusive, FileLabels
  <1> QED
    BY <1>3, <1>4

(* Half, as Content tests it. *)
LEMMA HalfIs ==
  ASSUME NEW f \in Seq(Thread \X Nat)
  PROVE  Half(f) <=> f # << >> /\ f[Len(f)] = Stamp
  <1>1. Len(f) \in Nat /\ (f = << >> <=> Len(f) = 0)
    OBVIOUS
  <1> DEFINE n == Len(f)
  <1>2. n \in Nat /\ (f = << >> <=> n = 0) /\ (Half(f) <=> n > 0 /\ f[n] = Stamp)
    BY <1>1 DEF Half
  <1> HIDE DEF n
  <1>3. Half(f) <=> f # << >> /\ f[n] = Stamp
    BY <1>2
  <1> QED
    BY <1>3 DEF n

(* An item at the end of the file. *)
LEMMA AppendHalf ==
  ASSUME NEW f \in Seq(Thread \X Nat), NEW x \in Thread \X Nat
  PROVE  /\ Append(f, x) \in Seq(Thread \X Nat)
         /\ Half(Append(f, x)) <=> x = Stamp
  <1> DEFINE g == Append(f, x)
  <1>1. g \in Seq(Thread \X Nat) /\ Len(g) = Len(f) + 1 /\ g[Len(f) + 1] = x /\ Len(f) \in Nat
    BY AppendProperties
  <1> HIDE DEF g
  <1>2. Len(g) > 0 /\ g[Len(g)] = x
    BY <1>1
  <1>3. Half(g) <=> x = Stamp
    BY <1>2 DEF Half
  <1> QED
    BY <1>1, <1>3 DEF g

(* Locking, in the code of a worker. *)
LEMMA StoreLock ==
  ASSUME TypeInv, StoreInv, NEW c \in Conn,
         LockFile(c, "w_lock", "w_open") \/ LockFile(c, "d_lock", "d_open")
  PROVE  Stored
  <1>0. c \in Thread /\ Stacks
    BY DEF Thread, TypeInv
  <1>1. UNCHANGED <<client, sent, file, out, should_quit>>
    BY DEF LockFile, control, files, world
  <1>2. CASE LockFile(c, "w_lock", "w_open")
    <2>1. At(c, "w_lock") /\ Go(c, "w_open")
      BY <1>2 DEF LockFile
    <2>2. Step(c, "w_lock", "w_open")
      BY <1>0, <2>1, GoSteps
    <2>3. client[c] # "out" /\ sent[c] \in 1 .. MaxPackets
      BY <1>0, <2>1, TopOK DEF FrameOK, Serving
    <2>4. "w_lock" \notin Owing /\ "w_open" \notin Owing /\ "w_open" \notin Opened
      BY DEF Owing, Opened
    <2> QED
      BY <1>1, <2>2, <2>3, <2>4, StoreOwnStep
  <1>3. CASE LockFile(c, "d_lock", "d_open")
    <2>1. At(c, "d_lock") /\ Go(c, "d_open")
      BY <1>3 DEF LockFile
    <2>2. Step(c, "d_lock", "d_open") /\ stack'[c][1].off = stack[c][1].off
      BY <1>0, <2>1, GoSteps, GoOffset
    <2>3. client[c] # "out" /\ stack[c][1].off = 0
      BY <1>0, <2>1, TopOK DEF FrameOK, Serving
    <2>4. "d_lock" \in Owing /\ "d_open" \in Owing /\ "d_open" \notin Opened
      BY DEF Owing, Opened
    <2> QED
      BY <1>1, <2>2, <2>3, <2>4, StoreOwnStep
  <1> QED
    BY <1>2, <1>3

(* Opening the file: where that never fails, the frame has a descriptor. *)
LEMMA OpenHas ==
  ASSUME TypeInv, OpensSucceed, NEW t \in Thread, NEW from \in {"w_open", "d_open", "a_open"}, NEW mode, NEW to \in Labels, NEW unlocks,
         OpenFile(t, from, mode, to, unlocks)
  PROVE  /\ Step(t, from, to) /\ stack'[t][1].f # 0 /\ stack'[t][1].off = stack[t][1].off
         /\ UNCHANGED <<client, sent, file, out, should_quit>>
  <1>1. At(t, from)
    BY DEF OpenFile
  <1>2. Top(t) = stack[t][1] /\ stack[t][1] \in FrameSet
    BY <1>1, AtTop DEF TypeInv
  <1>3. PICK d \in Fd : Becomes(t, [Top(t) EXCEPT !.at = to, !.f = d])
    BY DEF OpenFile, OpensSucceed
  <1> DEFINE fr == [Top(t) EXCEPT !.at = to, !.f = d]
  <1>4. fr \in FrameSet /\ fr.at = to /\ fr.f = d /\ fr.off = stack[t][1].off /\ fr.sig = stack[t][1].sig
    BY <1>2 DEF FrameSet
  <1> HIDE DEF fr
  <1>5. Becomes(t, fr)
    BY <1>3 DEF fr
  <1>6. Step(t, from, to) /\ stack'[t][1] = fr
    BY <1>1, <1>4, <1>5, BecomesSteps DEF TypeInv
  <1>7. d # 0
    BY FdFacts
  <1>8. UNCHANGED <<client, sent, file, out, should_quit>>
    BY DEF OpenFile, control, world
  <1> QED
    BY <1>4, <1>6, <1>7, <1>8

(* Opening, in the code of a worker. *)
LEMMA StoreOpen ==
  ASSUME TypeInv, StoreInv, OpensSucceed, NEW c \in Conn,
         \/ OpenFile(c, "w_open", "write", "w_write", TRUE)
         \/ OpenFile(c, "d_open", "read", "d_read", TRUE)
  PROVE  Stored
  <1>0. c \in Thread /\ Stacks
    BY DEF Thread, TypeInv
  <1>1. CASE OpenFile(c, "w_open", "write", "w_write", TRUE)
    <2>1. /\ Step(c, "w_open", "w_write") /\ stack'[c][1].f # 0
          /\ UNCHANGED <<client, sent, file, out, should_quit>>
      BY <1>0, <1>1, OpenHas
    <2>2. At(c, "w_open")
      BY <1>1 DEF OpenFile
    <2>3. client[c] # "out" /\ sent[c] \in 1 .. MaxPackets
      BY <1>0, <2>2, TopOK DEF FrameOK, Serving
    <2>4. "w_open" \notin Owing /\ "w_write" \notin Owing
      BY DEF Owing
    <2> QED
      BY <2>1, <2>3, <2>4, StoreOwnStep
  <1>2. CASE OpenFile(c, "d_open", "read", "d_read", TRUE)
    <2>1. /\ Step(c, "d_open", "d_read") /\ stack'[c][1].f # 0 /\ stack'[c][1].off = stack[c][1].off
          /\ UNCHANGED <<client, sent, file, out, should_quit>>
      BY <1>0, <1>2, OpenHas
    <2>2. At(c, "d_open")
      BY <1>2 DEF OpenFile
    <2>3. client[c] # "out" /\ stack[c][1].off = 0
      BY <1>0, <2>2, TopOK DEF FrameOK, Serving
    <2>4. "d_open" \in Owing /\ "d_read" \in Owing
      BY DEF Owing
    <2> QED
      BY <2>1, <2>3, <2>4, StoreOwnStep
  <1> QED
    BY <1>1, <1>2


(* A worker writes its packet: it is put. *)
LEMMA StoreWrite ==
  ASSUME TypeInv, StoreInv, Descriptors, Exclusive, NEW c \in Conn,
         WriteFile(c, "w_write", <<c, sent[c]>>, "w_close")
  PROVE  Stored
  <1>0. c \in Thread /\ Stacks /\ c # Main /\ file \in Seq(Thread \X Nat) /\ sent[c] \in Nat
    BY ServerAssumption DEF Thread, TypeInv, Types
  <1> DEFINE item == <<c, sent[c]>>
  <1>1. item \in Thread \X Nat /\ item # Stamp
    BY <1>0 DEF Stamp
  <1>2. At(c, "w_write") /\ Go(c, "w_close") /\ UNCHANGED <<client, sent, out, should_quit>>
    BY DEF WriteFile, control, world
  <1>3. Step(c, "w_write", "w_close") /\ stack'[c][1].at = "w_close" /\ Moved(c, stack'[c][1])
    BY <1>0, <1>2, GoSteps DEF Step
  <1>4. /\ FrameOK(c, stack[c][1], client, sent, file, out)
        /\ stack[c][1].at = "w_write" /\ 1 \in 1 .. Len(stack[c])
    BY <1>0, <1>2, TopOK
  <1>5. sent[c] \in 1 .. MaxPackets /\ client[c] # "out"
    BY <1>4 DEF FrameOK, Serving
  <1>6. IsOpen(Top(c).f, Mode("w_write"))
    BY <1>0, <1>2, FileIsOpen DEF Opened
  <1>7. file' = Append(file, item)
    BY <1>6 DEF WriteFile, Mode
  <1> HIDE DEF item
  <1>8. file' \in Seq(Thread \X Nat) /\ ~Half(file')
    BY <1>0, <1>1, <1>7, AppendHalf
  <1>9. ~Half(file)
    BY <1>0, <1>4, NotHalf DEF FileLabels
  <1>10. Content = file /\ Content' = file'
    BY <1>0, <1>8, <1>9, HalfIs DEF Content
  <1>11. out' \in [Conn -> Seq(Thread \X Nat)] /\ ~should_quit'
    BY <1>2 DEF StoreInv
  <1>12. StoreInv'
    <2>1. OthersOK(c)
      BY <1>0, <1>2, <1>4, OthersOutside DEF FileLabels
    <2>2. FrameOK(c, stack'[c][1], client', sent', file', out')
      BY <1>2, <1>3, <1>5 DEF FrameOK, Opened
    <2> QED
      BY <1>0, <1>3, <1>8, <1>11, <2>1, <2>2, StoreMoved
  <1>13. /\ Served(c) <=> "w_write" \in Owing
         /\ Served(c)' <=> "w_close" \in Owing
         /\ client[c] = "gone" => Answers(c) = << >> /\ Answers(c)' = << >>
         /\ client[c] # "gone" => Answers(c) = out[c] /\ Answers(c)' = out[c]
         /\ \A d \in Conn \ {c} : SameView(d)
    BY <1>2, <1>3, <1>11, WorkerViews
  <1>14. ~Served(c) /\ Served(c)'
    BY <1>13 DEF Owing
  <1>15. Content' = Append(Content, <<c, sent[c]>>)
    BY <1>7, <1>10 DEF item
  <1>16. Store!Put(c)
    BY <1>2, <1>5, <1>13, <1>14, <1>15, StorePuts DEF SameView
  <1> QED
    BY <1>12, <1>16 DEF Stored, Store!Next

(* The packet is stored; the answer is owed. *)
LEMMA StoreClose ==
  ASSUME TypeInv, StoreInv, NEW c \in Conn, WriteClose(c)
  PROVE  Stored
  <1>0. c \in Thread /\ Stacks
    BY DEF Thread, TypeInv
  <1> DEFINE fr == Frame("d_lock", c, Free)
  <1>1. fr \in FrameSet /\ fr.at = "d_lock" /\ fr.off = 0 /\ fr.sig = Free
    BY FrameType DEF Frame
  <1>2. At(c, "w_close") /\ Becomes(c, fr) /\ UNCHANGED <<client, sent, file, out, should_quit>>
    BY DEF WriteClose, control, world
  <1> HIDE DEF fr
  <1>3. Step(c, "w_close", "d_lock") /\ stack'[c][1].off = 0
    BY <1>0, <1>1, <1>2, BecomesSteps
  <1>4. client[c] # "out"
    BY <1>0, <1>2, TopOK DEF FrameOK, Serving
  <1>5. "w_close" \in Owing /\ "d_lock" \in Owing /\ "d_lock" \notin Opened
    BY DEF Owing, Opened
  <1> QED
    BY <1>2, <1>3, <1>4, <1>5, StoreOwnStep

(* What has been sent, o, and the next n items of the file behind it. *)
Further(f, o, off, n) == o \o SubSeq(f, off + 1, off + n)

(* p repeats n items of the file more than o, behind the same earlier answers. *)
Continues(p, f, o, off, n) ==
  /\ p \in Seq(Thread \X Nat) /\ Echo(off + n, f, p)
  /\ SubSeq(p, 1, Len(p) - (off + n)) = SubSeq(o, 1, Len(o) - off)

(* Sending a part of the file more. *)
LEMMA EchoGrows ==
  ASSUME NEW f \in Seq(Thread \X Nat), NEW o \in Seq(Thread \X Nat), NEW off \in Nat, NEW n \in Nat,
         off + n <= Len(f), Echo(off, f, o)
  PROVE  Continues(Further(f, o, off, n), f, o, off, n)
  <1> DEFINE S == Thread \X Nat
             chunk == SubSeq(f, off + 1, off + n)
             p == o \o chunk
             l == Len(o)
             m == Len(f)
  <1>1. /\ l \in Nat /\ m \in Nat /\ off + n <= m /\ off <= l
        /\ \A i \in 1 .. off : o[l - off + i] = f[i]
        /\ \A i \in 1 .. l : o[i] \in S
        /\ \A i \in 1 .. m : f[i] \in S
    BY DEF Echo
  <1>2. chunk \in Seq(S) /\ Len(chunk) = n /\ \A i \in 1 .. n : chunk[i] = f[off + i]
    <2> DEFINE a == off + 1
               b == off + n
    <2>1. a \in Int /\ b \in Int /\ a = off + 1 /\ b = off + n
      OBVIOUS
    <2> HIDE DEF a, b, S, m
    <2>2. \A i \in a .. b : f[i] \in S
      BY <1>1, <2>1
    <2>3. /\ SubSeq(f, a, b) \in Seq(S)
          /\ Len(SubSeq(f, a, b)) = IF a <= b THEN b - a + 1 ELSE 0
          /\ \A i \in 1 .. b - a + 1 : SubSeq(f, a, b)[i] = f[a + i - 1]
      BY <2>1, <2>2, SubSeqProperties
    <2>4. chunk = SubSeq(f, a, b)
      BY DEF a, b
    <2> HIDE DEF chunk
    <2>5. b - a + 1 = n /\ (a <= b \/ n = 0) /\ \A i \in 1 .. n : a + i - 1 = off + i
      BY <2>1
    <2> QED
      BY <2>3, <2>4, <2>5
  <1> HIDE DEF chunk
  <1>3. p \in Seq(S) /\ Len(p) = l + n /\ \A i \in 1 .. l + n : p[i] = IF i <= l THEN o[i] ELSE chunk[i - l]
    <2>1. /\ p \in Seq(S) /\ Len(p) = Len(o) + Len(chunk)
          /\ \A i \in 1 .. Len(o) + Len(chunk) : p[i] = IF i <= Len(o) THEN o[i] ELSE chunk[i - Len(o)]
      BY <1>2, ConcatProperties
    <2> QED
      BY <1>2, <2>1
  <1> HIDE DEF p, l, m, S
  <1>4. ASSUME NEW i \in 1 .. off + n PROVE p[(l + n) - (off + n) + i] = f[i]
    <2>1. CASE i <= off
      <3> DEFINE k == (l + n) - (off + n) + i
      <3>1. i \in 1 .. off /\ k = l - off + i /\ k \in 1 .. l + n /\ k <= l
        BY <1>1, <2>1
      <3> HIDE DEF k
      <3>2. p[k] = o[k] /\ o[k] = f[i]
        BY <1>1, <1>3, <3>1
      <3> QED
        BY <3>2 DEF k
    <2>2. CASE i > off
      <3> DEFINE k == (l + n) - (off + n) + i
      <3>1. i - off \in 1 .. n /\ k \in 1 .. l + n /\ ~(k <= l) /\ k - l = i - off /\ off + (i - off) = i
        BY <1>1, <2>2
      <3> HIDE DEF k
      <3>2. p[k] = chunk[i - off]
        BY <1>3, <3>1
      <3> QED
        BY <1>2, <3>1, <3>2 DEF k
    <2> QED
      BY <2>1, <2>2
  <1>5. Echo(off + n, f, p)
    <2>1. off + n <= Len(f)
      OBVIOUS
    <2>2. off + n <= l + n
      BY <1>1
    <2> DEFINE j == off + n
               lp == Len(p)
    <2>3. lp = l + n /\ j <= Len(f)
      BY <1>3, <2>1
    <2>4. j <= lp /\ \A i \in 1 .. j : p[lp - j + i] = f[i]
      <3>1. j <= l + n /\ \A i \in 1 .. j : p[(l + n) - j + i] = f[i]
        BY <1>4, <2>2
      <3>2. lp = l + n
        BY <2>3
      <3> DEFINE ln == l + n
      <3> HIDE DEF lp, j, ln
      <3>3. j <= ln /\ \A i \in 1 .. j : p[ln - j + i] = f[i]
        BY <3>1 DEF ln
      <3>4. lp = ln
        BY <3>2 DEF ln
      <3> QED
        BY <3>3, <3>4, Zenon
    <2>5. Echo(j, f, p)
      <3> HIDE DEF j
      <3> QED
        BY <2>3, <2>4 DEF Echo
    <2> QED
      BY <2>5
  <1>6. SubSeq(p, 1, Len(p) - (off + n)) = SubSeq(o, 1, l - off)
    <2> DEFINE k == l - off
    <2>1. k \in Nat /\ k <= l /\ Len(p) - (off + n) = k
      BY <1>1, <1>3
    <2> HIDE DEF k
    <2>2. \A i \in 1 .. k : p[i] = o[i]
      BY <1>1, <1>3, <2>1
    <2>3. SubSeq(p, 1, k) = SubSeq(o, 1, k)
      <3> DEFINE a == 1
                 x == SubSeq(p, a, k)
                 y == SubSeq(o, a, k)
      <3>1. a = 1 /\ a \in Int /\ k \in Int
        BY <2>1
      <3> HIDE DEF a
      <3>2. \A i \in a .. k : o[i] \in S /\ p[i] \in S
        <4>1. \A i \in a .. k : i \in 1 .. k /\ i \in 1 .. l
          BY <1>1, <2>1, <3>1
        <4>2. \A i \in a .. k : o[i] \in S /\ p[i] = o[i]
          BY <1>1, <2>2, <4>1
        <4> QED
          BY <4>2
      <3>3. /\ x \in Seq(S) /\ Len(x) = (IF a <= k THEN k - a + 1 ELSE 0)
            /\ \A i \in 1 .. k - a + 1 : x[i] = p[a + i - 1]
        BY <3>1, <3>2, SubSeqProperties
      <3>4. /\ y \in Seq(S) /\ Len(y) = (IF a <= k THEN k - a + 1 ELSE 0)
            /\ \A i \in 1 .. k - a + 1 : y[i] = o[a + i - 1]
        BY <3>1, <3>2, SubSeqProperties
      <3> HIDE DEF x, y
      <3>5. /\ Len(x) = k /\ Len(y) = k /\ k - a + 1 = k /\ \A i \in 1 .. k : a + i - 1 = i
        BY <2>1, <3>1, <3>3, <3>4
      <3>6. \A i \in 1 .. k : x[i] = y[i]
        BY <2>2, <3>3, <3>4, <3>5
      <3>7. x = y
        BY <3>3, <3>4, <3>5, <3>6, SeqEqual
      <3> QED
        BY <3>1, <3>7 DEF x, y
    <2> QED
      BY <2>1, <2>3 DEF k
  <1> QED
    BY <1>3, <1>5, <1>6 DEF p, chunk, l, S, Further, Continues

(* One turn of the loop that sends: the answer is not complete yet. *)
LEMMA StoreRead ==
  ASSUME TypeInv, StoreInv, NEW c \in Conn, ReadAndSend(c)
  PROVE  Stored
  <1>0. /\ c \in Thread /\ Stacks /\ file \in Seq(Thread \X Nat) /\ out[c] \in Seq(Thread \X Nat)
        /\ client[c] \in {"out", "connected", "gone"} /\ out \in [Conn -> Seq(Thread \X Nat)] /\ ~should_quit
    BY DEF Thread, TypeInv, Types, StoreInv
  <1>1. At(c, "d_read") /\ UNCHANGED <<client, sent, file, should_quit>>
    BY DEF ReadAndSend, control, world, Exit
  <1>2. /\ FrameOK(c, stack[c][1], client, sent, file, out)
        /\ stack[c][1].at = "d_read" /\ Top(c) = stack[c][1] /\ stack[c][1] \in FrameSet
    BY <1>0, <1>1, TopOK
  <1>3. client[c] # "out" /\ stack[c][1].f # 0 /\ (client[c] = "connected" => Echo(stack[c][1].off, file, out[c]))
    BY <1>2 DEF FrameOK, Serving, Opened
  <1>4. CASE UNCHANGED <<stack, out>>
    <2>1. StoreInv'
      BY <1>1, <1>4 DEF StoreInv
    <2>2. \A d \in Conn : SameView(d)
      BY <1>1, <1>4, ViewKept DEF Base
    <2> QED
      BY <1>1, <2>1, <2>2, StoreStutters DEF Stored, SameView
  <1>5. CASE ~UNCHANGED <<stack, out>>
    <2> DEFINE off == stack[c][1].off
               left == Len(file) - off
               n == IF left < ReadSize THEN left ELSE ReadSize
               chunk == SubSeq(file, off + 1, off + n)
               fr == [stack[c][1] EXCEPT !.off = off + n]
    <2>1. /\ left > 0
          /\ out' = IF client[c] = "connected" THEN [out EXCEPT ![c] = out[c] \o chunk] ELSE out
          /\ Becomes(c, fr)
      BY <1>2, <1>5 DEF ReadAndSend
    <2>2. off \in Nat /\ n \in Nat /\ off + n <= Len(file)
      <3> DEFINE m == Len(file)
      <3>1. m \in Nat /\ off \in Nat
        BY <1>0, <1>2 DEF FrameSet
      <3> HIDE DEF m, off
      <3>2. m - off > 0 /\ n = IF m - off < ReadSize THEN m - off ELSE ReadSize
        BY <2>1 DEF m
      <3> HIDE DEF n
      <3>3. n \in Nat /\ off + n <= m
        BY <3>1, <3>2, ServerAssumption
      <3> QED
        BY <3>1, <3>3 DEF m
    <2> HIDE DEF n
    <2>3. fr \in FrameSet /\ fr.at = "d_read" /\ fr.off = off + n /\ fr.f = stack[c][1].f /\ fr.sig = stack[c][1].sig
      BY <1>2, <2>2 DEF FrameSet
    <2> HIDE DEF fr
    <2>4. Step(c, "d_read", "d_read") /\ stack'[c][1] = fr
      BY <1>0, <1>1, <2>1, <2>3, BecomesSteps
    <2>5. Moved(c, fr) /\ Len(stack[c]) = 1
      <3>1. Moved(c, fr) /\ stack[c][1].at \notin HandlerLabels
        BY <1>2, <2>4 DEF Step
      <3> QED
        BY <1>0, <3>1, LastFrame DEF Moved
    <2> HIDE DEF off, chunk
    <2>6. ASSUME client[c] = "connected"
          PROVE  /\ out'[c] = out[c] \o chunk /\ out' \in [Conn -> Seq(Thread \X Nat)]
                 /\ Echo(off + n, file, out'[c])
                 /\ SubSeq(out'[c], 1, Len(out'[c]) - (off + n)) = SubSeq(out[c], 1, Len(out[c]) - off)
      <3>1. Echo(off, file, out[c])
        BY <1>3, <2>6 DEF off
      <3>2. out'[c] = out[c] \o chunk
        BY <1>0, <2>1, <2>6
      <3>3. /\ out'[c] \in Seq(Thread \X Nat) /\ Echo(off + n, file, out'[c])
            /\ SubSeq(out'[c], 1, Len(out'[c]) - (off + n)) = SubSeq(out[c], 1, Len(out[c]) - off)
        <4> DEFINE o == out[c]
                   p == Further(file, o, off, n)
        <4>1. o \in Seq(Thread \X Nat) /\ Echo(off, file, o)
          BY <1>0, <3>1
        <4> HIDE DEF o
        <4>2. Continues(p, file, o, off, n)
          <5>1. file \in Seq(Thread \X Nat)
            BY <1>0
          <5> QED
            BY <2>2, <4>1, <5>1, EchoGrows
        <4>3. out'[c] = p
          BY <3>2 DEF o, chunk, Further
        <4> HIDE DEF p
        <4> QED
          BY <4>2, <4>3 DEF o, Continues
      <3> DEFINE new == out[c] \o chunk
      <3>4. new \in Seq(Thread \X Nat) /\ out' = [out EXCEPT ![c] = new]
        BY <2>1, <2>6, <3>2, <3>3
      <3> HIDE DEF new
      <3>5. out' \in [Conn -> Seq(Thread \X Nat)]
        BY <1>0, <3>4
      <3> QED
        BY <3>2, <3>3, <3>5
    <2>7. client[c] # "connected" => out' = out
      BY <2>1
    <2>8. out' \in [Conn -> Seq(Thread \X Nat)] /\ \A d \in Conn \ {c} : out'[d] = out[d]
      BY <1>0, <2>1, <2>6, <2>7
    <2>9. StoreInv'
      <3>1. OthersOK(c)
        BY <1>1, <2>5, <2>8, OthersElsewhere
      <3>2. FrameOK(c, fr, client', sent', file', out')
        BY <1>1, <1>3, <2>3, <2>6 DEF FrameOK, Opened, Serving
      <3>3. stack[c][1].at # "a_newline" /\ ~should_quit' /\ (Half(file') => Half(file))
        BY <1>0, <1>1, <1>2
      <3> QED
        BY <1>0, <2>5, <2>8, <3>1, <3>2, <3>3, StoreMoved
    <2>10. /\ Served(c) <=> "d_read" \in Owing
           /\ Served(c)' <=> "d_read" \in Owing
           /\ client[c] = "gone" => Answers(c) = << >> /\ Answers(c)' = << >>
           /\ client[c] # "gone" => /\ Answers(c) = SubSeq(out[c], 1, Len(out[c]) - stack[c][1].off)
                                    /\ Answers(c)' = SubSeq(out'[c], 1, Len(out'[c]) - stack'[c][1].off)
           /\ \A d \in Conn \ {c} : SameView(d)
      BY <1>1, <2>4, <2>8, WorkerViews
    <2>11. stack'[c][1].off = off + n /\ stack[c][1].off = off
      BY <2>3, <2>4 DEF off
    <2>12. SameView(c)
      <3>1. client[c] = "gone" \/ client[c] = "connected"
        BY <1>0, <1>3
      <3> QED
        BY <2>6, <2>10, <2>11, <3>1 DEF SameView
    <2> QED
      BY <1>1, <2>9, <2>10, <2>12, StoreStutters DEF Stored, SameView
  <1> QED
    BY <1>4, <1>5

(* What has been sent in full: what came before it, then the file. *)
LEMMA EchoEnds ==
  ASSUME NEW f \in Seq(Thread \X Nat), NEW o \in Seq(Thread \X Nat), Echo(Len(f), f, o)
  PROVE  o = SubSeq(o, 1, Len(o) - Len(f)) \o f
  <1> DEFINE S == Thread \X Nat
             l == Len(o)
             m == Len(f)
             k == l - m
             s == SubSeq(o, 1, k)
             p == s \o f
  <1>1. /\ l \in Nat /\ m \in Nat /\ m <= l
        /\ \A i \in 1 .. m : o[l - m + i] = f[i]
        /\ \A i \in 1 .. l : o[i] \in S
    BY DEF Echo
  <1>2. k \in Nat /\ k + m = l /\ k = l - m
    <2> HIDE DEF l, m
    <2> QED
      BY <1>1
  <1> HIDE DEF k, S
  <1>3. s \in Seq(S) /\ Len(s) = k /\ \A i \in 1 .. k : s[i] = o[i]
    <2> DEFINE a == 1
    <2>1. a = 1 /\ a \in Int /\ k \in Int /\ s = SubSeq(o, a, k)
      BY <1>2
    <2> HIDE DEF a, l, m
    <2>2. \A i \in a .. k : i \in 1 .. l
      BY <1>1, <1>2, <2>1
    <2>3. \A i \in a .. k : o[i] \in S
      BY <1>1, <2>2
    <2> HIDE DEF s
    <2>4. /\ s \in Seq(S) /\ Len(s) = (IF a <= k THEN k - a + 1 ELSE 0)
          /\ \A i \in 1 .. k - a + 1 : s[i] = o[a + i - 1]
      BY <2>1, <2>3, SubSeqProperties
    <2>5. k - a + 1 = k /\ (a <= k \/ k = 0) /\ \A i \in 1 .. k : a + i - 1 = i
      BY <1>2, <2>1
    <2> QED
      BY <2>4, <2>5
  <1> HIDE DEF s
  <1>4. f \in Seq(S) /\ o \in Seq(S)
    BY DEF S
  <1>5. p \in Seq(S) /\ Len(p) = l /\ \A i \in 1 .. l : p[i] = IF i <= k THEN s[i] ELSE f[i - k]
    <2>1. /\ p \in Seq(S) /\ Len(p) = Len(s) + Len(f)
          /\ \A i \in 1 .. Len(s) + Len(f) : p[i] = IF i <= Len(s) THEN s[i] ELSE f[i - Len(s)]
      BY <1>3, <1>4, ConcatProperties
    <2>2. Len(s) = k /\ Len(s) + Len(f) = l
      BY <1>2, <1>3
    <2> HIDE DEF p
    <2> QED
      BY <2>1, <2>2
  <1> HIDE DEF p, l, m
  <1>6. ASSUME NEW i \in 1 .. l PROVE p[i] = o[i]
    <2>1. CASE i <= k
      <3>1. i \in 1 .. k
        BY <1>2, <2>1
      <3> QED
        BY <1>3, <1>5, <2>1, <3>1
    <2>2. CASE ~(i <= k)
      <3>1. i - k \in 1 .. m /\ l - m + (i - k) = i
        BY <1>1, <1>2, <2>2
      <3>2. f[i - k] = o[i]
        BY <1>1, <3>1
      <3> QED
        BY <1>5, <2>2, <3>2
    <2> QED
      BY <2>1, <2>2
  <1>7. Len(p) = Len(o) /\ \A i \in 1 .. Len(p) : p[i] = o[i]
    BY <1>5, <1>6 DEF l
  <1>8. p = o
    BY <1>4, <1>5, <1>7, SeqEqual
  <1> QED
    BY <1>2, <1>8 DEF p, s, k, l, m


(* The whole file has been sent: the client is answered. *)
LEMMA StoreReadEnd ==
  ASSUME TypeInv, StoreInv, Descriptors, Exclusive, NEW c \in Conn, ReadEnd(c)
  PROVE  Stored
  <1>0. /\ c \in Thread /\ Stacks /\ file \in Seq(Thread \X Nat) /\ out[c] \in Seq(Thread \X Nat)
        /\ client[c] \in {"out", "connected", "gone"} /\ out \in [Conn -> Seq(Thread \X Nat)] /\ ~should_quit
    BY DEF Thread, TypeInv, Types, StoreInv
  <1> DEFINE fr == Frame("loop", c, Free)
  <1>1. fr \in FrameSet /\ fr.at = "loop" /\ fr.sig = Free
    BY FrameType, FrameFields
  <1>2. At(c, "d_read") /\ Becomes(c, fr) /\ UNCHANGED <<client, sent, file, out, should_quit>>
    BY DEF ReadEnd, control, world
  <1> HIDE DEF fr
  <1>3. Step(c, "d_read", "loop") /\ Moved(c, stack'[c][1]) /\ stack'[c][1].at = "loop"
    BY <1>0, <1>1, <1>2, BecomesSteps DEF Step
  <1>4. /\ FrameOK(c, stack[c][1], client, sent, file, out)
        /\ stack[c][1].at = "d_read" /\ Top(c) = stack[c][1] /\ 1 \in 1 .. Len(stack[c])
    BY <1>0, <1>2, TopOK
  <1>5. IsOpen(Top(c).f, Mode("d_read"))
    BY <1>0, <1>2, FileIsOpen DEF Opened
  <1>6. stack[c][1].off = Len(file)
    BY <1>4, <1>5 DEF ReadEnd, Mode
  <1>7. client[c] # "out" /\ (client[c] = "connected" => Echo(Len(file), file, out[c]))
    BY <1>4, <1>6 DEF FrameOK, Serving
  <1>8. ~Half(file)
    BY <1>0, <1>4, NotHalf DEF FileLabels
  <1>9. Content = file
    BY <1>0, <1>8, HalfIs DEF Content
  <1>10. StoreInv'
    <2>1. OthersOK(c)
      BY <1>2, OthersSame
    <2>2. FrameOK(c, stack'[c][1], client', sent', file', out')
      BY <1>3 DEF FrameOK, Opened, Serving
    <2>3. ~should_quit' /\ out' \in [Conn -> Seq(Thread \X Nat)] /\ ~Half(file')
      BY <1>0, <1>2, <1>8
    <2> QED
      BY <1>0, <1>3, <2>1, <2>2, <2>3, StoreMoved
  <1>11. /\ Served(c) <=> "d_read" \in Owing
         /\ Served(c)' <=> "loop" \in Owing
         /\ client[c] = "gone" => Answers(c) = << >> /\ Answers(c)' = << >>
         /\ client[c] # "gone" => /\ Answers(c) = SubSeq(out[c], 1, Len(out[c]) - stack[c][1].off)
                                  /\ Answers(c)' = out[c]
         /\ \A d \in Conn \ {c} : SameView(d)
    BY <1>0, <1>2, <1>3, WorkerViews
  <1>12. Served(c) /\ ~Served(c)'
    BY <1>11 DEF Owing
  <1>13. client[c] # "gone" => Answers(c)' = Answers(c) \o Content
    <2> SUFFICES ASSUME client[c] # "gone" PROVE Answers(c)' = Answers(c) \o Content
      OBVIOUS
    <2> DEFINE o == out[c]
    <2>1. o \in Seq(Thread \X Nat) /\ Echo(Len(file), file, o)
      BY <1>0, <1>7
    <2>2. Answers(c) = SubSeq(o, 1, Len(o) - Len(file)) /\ Answers(c)' = o
      BY <1>6, <1>11
    <2> HIDE DEF o
    <2>3. o = SubSeq(o, 1, Len(o) - Len(file)) \o file
      BY <1>0, <2>1, EchoEnds
    <2> QED
      BY <1>9, <2>2, <2>3
  <1>14. Store!Answer(c)
    BY <1>2, <1>11, <1>12, <1>13, StoreAnswers DEF SameView
  <1> QED
    BY <1>10, <1>14 DEF Stored, Store!Next

(* A worker ends. *)
LEMMA StoreEnd ==
  ASSUME TypeInv, StoreInv, NEW c \in Conn, WorkerEnd(c)
  PROVE  Stored
  <1>0. c \in Thread /\ Stacks
    BY DEF Thread, TypeInv
  <1>1. At(c, "end") /\ Return(c) /\ UNCHANGED <<client, sent, file, out, should_quit>>
    BY DEF WorkerEnd, control, world
  <1>2. stack[c][1].at = "end" /\ Len(stack[c]) = 1 /\ stack[c] # << >>
    BY <1>0, <1>1, AtTop
  <1>3. Popped(c)
    BY <1>0, <1>1, <1>2, ReturnPops
  <1>4. StoreInv'
    BY <1>0, <1>1, <1>2, <1>3, StorePopped
  <1>5. stack'[c] = << >>
    BY <1>0, <1>2, <1>3, EmptySeq DEF Popped
  <1>6. ~Served(c) /\ ~InWorker(c, {"d_read"})
    BY <1>2 DEF Served, InWorker, Base, Owing
  <1>7. ~Served(c)' /\ ~InWorker(c, {"d_read"})'
    BY <1>5 DEF Served, InWorker
  <1>8. SameView(c)
    BY <1>1, <1>6, <1>7 DEF SameView, Answers
  <1>9. \A d \in Conn \ {c} : stack'[d] = stack[d]
    BY <1>3 DEF Popped, Thread
  <1>10. \A d \in Conn \ {c} : SameView(d)
    BY <1>1, <1>9, ViewKept DEF Base
  <1> QED
    BY <1>1, <1>4, <1>8, <1>10, StoreStutters DEF Stored, SameView

(* The steps of a worker. *)
LEMMA StoreWorker ==
  ASSUME TypeInv, StoreInv, Descriptors, Exclusive, OpensSucceed, NEW c \in Conn,
         WorkerStep(c) \/ recv(c)
  PROVE  Stored
  <1>0. c \in Thread /\ Stacks /\ ~should_quit /\ sent \in [Conn -> Nat]
    BY DEF Thread, TypeInv, Types, StoreInv
  <1>l. {"start", "loop", "recv", "end", "w_lock"} \cap (Owing \cup Opened) = {}
        /\ {"start", "loop", "recv", "end"} \cap Serving = {}
    BY DEF Owing, Opened, Serving
  <1>1. ASSUME NEW from \in {"start", "loop", "recv"}, NEW to \in {"loop", "recv", "end"}, At(c, from), Go(c, to),
               UNCHANGED <<client, sent, file, out, should_quit>>
        PROVE  Stored
    <2>1. Step(c, from, to)
      BY <1>0, <1>1, GoSteps
    <2> QED
      BY <1>1, <1>l, <2>1, StoreOwnStep
  <1>2. CASE WorkerStart(c)
    BY <1>1, <1>2 DEF WorkerStart, control, files, world
  <1>3. CASE WorkerLoop(c)
    BY <1>0, <1>1, <1>3 DEF WorkerLoop, control, world
  <1>4. CASE recv_end(c)
    BY <1>1, <1>4 DEF recv_end, control, files, world
  <1>5. CASE recv(c)
    <2>1. /\ At(c, "recv") /\ client[c] = "connected" /\ sent[c] < MaxPackets
          /\ UNCHANGED <<client, file, out, should_quit>>
      BY <1>5 DEF recv, control, files
    <2>2. CASE Go(c, "loop") /\ UNCHANGED sent
      BY <1>1, <2>1, <2>2
    <2>3. CASE Go(c, "w_lock") /\ sent' = [sent EXCEPT ![c] = @ + 1]
      <3>1. Step(c, "recv", "w_lock")
        BY <1>0, <2>1, <2>3, GoSteps
      <3>2. sent'[c] \in 1 .. MaxPackets /\ \A d \in Conn \ {c} : sent'[d] = sent[d]
        BY <1>0, <2>1, <2>3, ServerAssumption
      <3> QED
        BY <1>l, <2>1, <3>1, <3>2, StoreOwnStep
    <2> QED
      BY <1>5, <2>2, <2>3 DEF recv
  <1>6. CASE dump_buffer_to_file(c)
    BY <1>6, StoreLock, StoreOpen, StoreWrite, StoreClose DEF dump_buffer_to_file
  <1>7. CASE dump_file_to_socket(c)
    BY <1>7, StoreLock, StoreOpen, StoreRead, StoreReadEnd DEF dump_file_to_socket
  <1> QED
    BY <1>2, <1>3, <1>4, <1>5, <1>6, <1>7, StoreEnd DEF WorkerStep


(* A file that ends in a timestamp's text, and the newline behind it. *)
LEMMA StampEnds ==
  ASSUME NEW f \in Seq(Thread \X Nat), Half(f)
  PROVE  Append(f, Newline) = SubSeq(f, 1, Len(f) - 1) \o <<Stamp, Newline>>
  <1> DEFINE S == Thread \X Nat
             n == Len(f)
             k == n - 1
             s == SubSeq(f, 1, k)
             e == <<Stamp, Newline>>
             p == s \o e
             g == Append(f, Newline)
  <1>0. Stamp \in S /\ Newline \in S
    BY DEF Stamp, Newline, Thread
  <1>1. n \in Nat /\ n > 0 /\ f[n] = Stamp /\ f \in Seq(S) /\ \A i \in 1 .. n : f[i] \in S
    BY DEF Half
  <1>2. e \in Seq(S) /\ Len(e) = 2 /\ e[1] = Stamp /\ e[2] = Newline
    BY <1>0
  <1> HIDE DEF S, n
  <1>3. k \in Nat /\ k + 1 = n
    BY <1>1
  <1> HIDE DEF k
  <1>4. s \in Seq(S) /\ Len(s) = k /\ \A i \in 1 .. k : s[i] = f[i]
    <2> DEFINE a == 1
    <2>1. a = 1 /\ a \in Int /\ k \in Int /\ s = SubSeq(f, a, k)
      BY <1>3
    <2> HIDE DEF a
    <2>2. \A i \in a .. k : f[i] \in S
      BY <1>1, <1>3, <2>1
    <2> HIDE DEF s
    <2>3. /\ s \in Seq(S) /\ Len(s) = (IF a <= k THEN k - a + 1 ELSE 0)
          /\ \A i \in 1 .. k - a + 1 : s[i] = f[a + i - 1]
      BY <2>1, <2>2, SubSeqProperties
    <2>4. k - a + 1 = k /\ (a <= k \/ k = 0) /\ \A i \in 1 .. k : a + i - 1 = i
      BY <1>3, <2>1
    <2> QED
      BY <2>3, <2>4
  <1> HIDE DEF s, e
  <1>5. p \in Seq(S) /\ Len(p) = k + 2 /\ \A i \in 1 .. k + 2 : p[i] = IF i <= k THEN s[i] ELSE e[i - k]
    <2>1. /\ p \in Seq(S) /\ Len(p) = Len(s) + Len(e)
          /\ \A i \in 1 .. Len(s) + Len(e) : p[i] = IF i <= Len(s) THEN s[i] ELSE e[i - Len(s)]
      BY <1>2, <1>4, ConcatProperties
    <2> HIDE DEF p
    <2> QED
      BY <1>2, <1>4, <2>1
  <1>6. g \in Seq(S) /\ Len(g) = n + 1 /\ g[n + 1] = Newline /\ \A i \in 1 .. n : g[i] = f[i]
    BY <1>0, <1>1, AppendProperties DEF n
  <1> HIDE DEF p, g
  <1>7. ASSUME NEW i \in 1 .. k + 2 PROVE g[i] = p[i]
    <2>1. CASE i \in 1 .. k
      <3>1. i \in 1 .. n /\ i <= k
        BY <1>3, <2>1
      <3> QED
        BY <1>4, <1>5, <1>6, <2>1, <3>1
    <2>2. CASE i = k + 1
      <3>1. i = n /\ i \in 1 .. n /\ ~(i <= k) /\ i - k = 1
        BY <1>3, <2>2
      <3> QED
        BY <1>1, <1>2, <1>5, <1>6, <3>1
    <2>3. CASE i = k + 2
      <3>1. i = n + 1 /\ ~(i <= k) /\ i - k = 2
        BY <1>3, <2>3
      <3> QED
        BY <1>2, <1>5, <1>6, <3>1
    <2> QED
      BY <1>3, <2>1, <2>2, <2>3
  <1>8. Len(g) = Len(p) /\ \A i \in 1 .. Len(g) : g[i] = p[i]
    <2>1. Len(g) = k + 2 /\ Len(p) = k + 2
      BY <1>3, <1>5, <1>6
    <2> QED
      BY <1>7, <2>1
  <1>9. g = p
    BY <1>5, <1>6, <1>8, SeqEqual
  <1> QED
    BY <1>9 DEF g, p, s, e, k, n

(* The text of a timestamp, which is not stored until its newline is. *)
LEMMA TextHidden ==
  ASSUME NEW f \in Seq(Thread \X Nat)
  PROVE  LET g == Append(f, Stamp)
         IN  g \in Seq(Thread \X Nat) /\ Half(g) /\ SubSeq(g, 1, Len(g) - 1) = f
  <1> DEFINE S == Thread \X Nat
             n == Len(f)
             g == Append(f, Stamp)
             s == SubSeq(g, 1, n)
  <1>0. Stamp \in S /\ f \in Seq(S) /\ n \in Nat
    BY DEF Stamp, Thread
  <1>1. g \in Seq(S) /\ Half(g)
    BY <1>0, AppendHalf
  <1> HIDE DEF S
  <1>2. Len(g) = n + 1 /\ \A i \in 1 .. n : g[i] = f[i]
    BY <1>0, AppendProperties
  <1> HIDE DEF n, g
  <1>3. s \in Seq(S) /\ Len(s) = n /\ \A i \in 1 .. n : s[i] = g[i]
    <2> DEFINE a == 1
    <2>1. a = 1 /\ a \in Int /\ n \in Int /\ s = SubSeq(g, a, n)
      BY <1>0
    <2> HIDE DEF a, s
    <2>2. \A i \in a .. n : g[i] \in S
      <3>1. \A i \in a .. n : i \in 1 .. n /\ f[i] \in S
        BY <1>0, <2>1 DEF n
      <3> QED
        BY <1>2, <3>1
    <2>3. /\ s \in Seq(S) /\ Len(s) = (IF a <= n THEN n - a + 1 ELSE 0)
          /\ \A i \in 1 .. n - a + 1 : s[i] = g[a + i - 1]
      BY <2>1, <2>2, SubSeqProperties
    <2>4. n - a + 1 = n /\ (a <= n \/ n = 0) /\ \A i \in 1 .. n : a + i - 1 = i
      BY <1>0, <2>1
    <2> QED
      BY <2>3, <2>4
  <1> HIDE DEF s
  <1>4. Len(s) = Len(f) /\ \A i \in 1 .. Len(s) : s[i] = f[i]
    BY <1>2, <1>3 DEF n
  <1>5. s = f
    BY <1>0, <1>3, <1>4, SeqEqual
  <1>6. Len(g) - 1 = n
    BY <1>0, <1>2
  <1>7. SubSeq(g, 1, Len(g) - 1) = f
    BY <1>5, <1>6 DEF s
  <1> QED
    BY <1>1, <1>7 DEF g, S


(* The writes of a timestamp: its text changes nothing yet, its newline    *)
(* stores both.                                                            *)
LEMMA StoreStamp ==
  ASSUME TypeInv, StoreInv, Descriptors, Exclusive, NEW t \in Thread,
         \/ WriteFile(t, "a_text", Stamp, "a_newline")
         \/ WriteFile(t, "a_newline", Newline, "a_close")
  PROVE  Stored
  <1>0. /\ Stacks /\ file \in Seq(Thread \X Nat) /\ out \in [Conn -> Seq(Thread \X Nat)] /\ ~should_quit
        /\ Newline \in Thread \X Nat /\ Newline # Stamp
    BY DEF TypeInv, Types, StoreInv, Stamp, Newline, Thread
  <1>1. UNCHANGED <<client, sent, out, should_quit>>
    BY DEF WriteFile, control, world
  <1>2. PICK from \in {"a_text", "a_newline"}, to \in {"a_newline", "a_close"} :
          /\ At(t, from) /\ Go(t, to)
          /\ \/ from = "a_text" /\ to = "a_newline" /\ WriteFile(t, "a_text", Stamp, "a_newline")
             \/ from = "a_newline" /\ to = "a_close" /\ WriteFile(t, "a_newline", Newline, "a_close")
    BY DEF WriteFile
  <1>3. Step(t, from, to) /\ SameFile(t) /\ Moved(t, stack'[t][1]) /\ stack'[t][1].at = to
    BY <1>0, <1>2, GoSteps DEF Step
  <1>4. /\ FrameOK(t, stack[t][1], client, sent, file, out)
        /\ stack[t][1].at = from /\ 1 \in 1 .. Len(stack[t])
    BY <1>2, TopOK
  <1>5. IsOpen(Top(t).f, "write")
    BY <1>2, FileIsOpen DEF Opened, Mode
  <1>6. OthersOK(t)
    BY <1>1, <1>4, OthersOutside DEF FileLabels
  <1>7. stack'[t][1].f # 0
    BY <1>3, <1>4 DEF SameFile, FrameOK, Opened
  <1>8. \A c \in Conn : (client'[c] = "gone" <=> client[c] = "gone") /\ SameView(c)
    <2>1. (\A u \in Thread : Base(u)' = Base(u)) /\ WorkersSame({})
      BY <1>0, <1>2, <1>3, <1>4, SameBase
    <2> QED
      BY <1>1, <2>1, ViewKept DEF WorkersSame, Works, Thread
  <1>9. CASE from = "a_text"
    <2>1. file' = Append(file, Stamp)
      <3>1. WriteFile(t, "a_text", Stamp, "a_newline")
        BY <1>2, <1>9
      <3> QED
        BY <1>5, <3>1 DEF WriteFile
    <2>2. Half(file') /\ file' \in Seq(Thread \X Nat) /\ SubSeq(file', 1, Len(file') - 1) = file
      BY <1>0, <2>1, TextHidden
    <2>3. ~Half(file)
      BY <1>4, <1>9, NotHalf DEF FileLabels
    <2>4. Content = file /\ Content' = file
      BY <1>0, <2>2, <2>3, HalfIs DEF Content
    <2>5. FrameOK(t, stack'[t][1], client', sent', file', out')
      BY <1>2, <1>3, <1>7, <1>9, <2>2 DEF FrameOK, Serving
    <2>6. StoreInv'
      BY <1>0, <1>1, <1>2, <1>3, <1>6, <1>9, <2>5, StoreMoved
    <2> QED
      BY <1>8, <2>4, <2>6, StoreKept DEF Stored, SameView
  <1>10. CASE from = "a_newline"
    <2>1. file' = Append(file, Newline)
      <3>1. WriteFile(t, "a_newline", Newline, "a_close")
        BY <1>2, <1>10
      <3> QED
        BY <1>5, <3>1 DEF WriteFile
    <2>2. Half(file)
      BY <1>4, <1>10 DEF FrameOK
    <2>3. file' \in Seq(Thread \X Nat) /\ ~Half(file')
      BY <1>0, <2>1, AppendHalf
    <2>4. Content = SubSeq(file, 1, Len(file) - 1) /\ Content' = file'
      BY <1>0, <2>2, <2>3, HalfIs DEF Content
    <2>5. Content' = Content \o <<Stamp, Newline>>
      BY <1>0, <2>1, <2>2, <2>4, StampEnds
    <2>6. FrameOK(t, stack'[t][1], client', sent', file', out')
      BY <1>2, <1>3, <1>10 DEF FrameOK, Opened, Serving
    <2>7. StoreInv'
      BY <1>0, <1>1, <1>3, <1>6, <2>3, <2>6, StoreMoved
    <2>8. Store!Tick
      BY <1>8, <2>5, StoreTicks DEF SameView
    <2> QED
      BY <2>7, <2>8 DEF Stored, Store!Next
  <1> QED
    BY <1>2, <1>9, <1>10

(* The steps of the handlers.  The one that quits never runs. *)
LEMMA StoreHandler ==
  ASSUME TypeInv, StoreInv, Descriptors, Exclusive, OpensSucceed, NEW t \in Thread, HandlerStep(t)
  PROVE  Stored
  <1>0. Stacks /\ ~should_quit
    BY DEF TypeInv, StoreInv
  <1>1. CASE LockFile(t, "a_lock", "a_open")
    <2>1. At(t, "a_lock") /\ Go(t, "a_open") /\ UNCHANGED <<client, sent, file, out, should_quit>>
      BY <1>1 DEF LockFile, control, files, world
    <2>2. Moved(t, stack'[t][1]) /\ stack[t][1].at = "a_lock" /\ stack'[t][1].at = "a_open"
      BY <1>0, <2>1, GoSteps DEF Step
    <2>3. "a_open" \notin Opened
      BY DEF Opened
    <2> QED
      BY <2>1, <2>2, <2>3, StoreHandlerStep
  <1>2. CASE OpenFile(t, "a_open", "write", "a_text", FALSE)
    <2>1. /\ Step(t, "a_open", "a_text") /\ stack'[t][1].f # 0
          /\ UNCHANGED <<client, sent, file, out, should_quit>>
      BY <1>2, OpenHas
    <2>2. Moved(t, stack'[t][1]) /\ stack[t][1].at = "a_open" /\ stack'[t][1].at = "a_text"
      BY <2>1 DEF Step
    <2> QED
      BY <2>1, <2>2, StoreHandlerStep
  <1>3. ASSUME At(t, "a_close"), Return(t), UNCHANGED <<client, sent, file, out, should_quit>> PROVE Stored
    <2>1. stack[t][1].at = "a_close" /\ Len(stack[t]) > 1 /\ stack[t] # << >>
      BY <1>0, <1>3, AtTop
    <2>2. Popped(t)
      BY <1>0, <1>3, <2>1, ReturnPops
    <2> QED
      BY <1>3, <2>1, <2>2, StoreHandlerStep
  <1>4. CASE sigint_handler(t)
    <2>1. At(t, "q_quit")
      BY <1>4 DEF sigint_handler
    <2> QED
      BY <2>1, TopOK DEF FrameOK
  <1>5. CASE cleanup(t)
    <2>1. At(t, "q_join")
      BY <1>5 DEF cleanup, JoinNode, JoinCrash, FreeNodes
    <2>2. stack[t][1].at = "q_join" /\ 1 \in 1 .. Len(stack[t])
      BY <2>1, TopOK
    <2> QED
      BY <1>0, <2>2 DEF Descriptors, FramesHold, Holds
  <1>6. CASE print_time_to_file(t)
    <2>1. CASE At(t, "a_close") /\ Return(t)
               /\ UNCHANGED <<control, linked_list_mutex, nodes, file, out, world>>
      BY <1>3, <2>1 DEF control, world
    <2> QED
      BY <1>1, <1>2, <1>6, <2>1, StoreStamp DEF print_time_to_file
  <1> QED
    BY <1>4, <1>5, <1>6 DEF HandlerStep

(* Signals and hangups. *)
LEMMA StoreWorld ==
  ASSUME TypeInv, StoreInv, MaxQuits = 0, SIGALRM \/ SIGTERM \/ \E c \in Conn : Hangup(c)
  PROVE  Stored
  <1>1. CASE SIGALRM
    <2>1. PICK t \in Thread : Pushed(t, Frame("a_lock", Free, "ALRM"))
      BY <1>1, DeliverPushes DEF SIGALRM, TypeInv
    <2>2. Frame("a_lock", Free, "ALRM").at = "a_lock"
      BY FrameFields
    <2>3. UNCHANGED <<client, sent, file, out, should_quit>>
      BY <1>1 DEF SIGALRM, control, files
    <2> QED
      BY <2>1, <2>2, <2>3, StoreHandlerStep
  <1>2. CASE SIGTERM
    <2>1. quits \in Nat /\ quits < 0
      BY <1>2 DEF SIGTERM, TypeInv, Types
    <2> QED
      BY <2>1
  <1>3. ASSUME NEW c \in Conn, Hangup(c) PROVE Stored
    <2>1. /\ client[c] = "connected" /\ client' = [client EXCEPT ![c] = "gone"]
          /\ UNCHANGED <<stack, sent, file, out, should_quit>>
      BY <1>3 DEF Hangup, control, files
    <2>2. client'[c] = "gone" /\ \A d \in Conn \ {c} : client'[d] = client[d]
      BY <2>1 DEF TypeInv, Types
    <2>3. StoreInv'
      <3>1. ASSUME NEW u \in Thread, NEW i \in 1 .. Len(stack[u])
            PROVE  FrameOK(u, stack[u][i], client', sent, file, out)
        <4>1. FrameOK(u, stack[u][i], client, sent, file, out)
          BY DEF StoreInv, FramesOK
        <4>2. CASE u = c
          BY <2>2, <4>1, <4>2 DEF FrameOK
        <4>3. CASE u \in Conn \ {c}
          BY <2>2, <4>1, <4>3 DEF FrameOK
        <4>4. CASE u = Main
          <5> DEFINE n == Len(stack[u])
          <5>1. n \in Nat /\ i \in 1 .. n /\ Fits(u, i, n, stack[u][i].at)
            BY DEF TypeInv, Stacks
          <5> HIDE DEF n
          <5>2. i < n \/ i = n
            BY <5>1
          <5>3. stack[u][i].at \notin WorkerLabels
            BY <4>4, <5>1, <5>2 DEF Fits
          <5> QED
            BY <4>1, <5>3 DEF FrameOK, Serving
        <4> QED
          BY <4>2, <4>3, <4>4 DEF Thread
      <3> QED
        BY <2>1, <3>1 DEF StoreInv, FramesOK
    <2>4. \A d \in Conn : Served(d)' <=> Served(d)
      BY <2>1 DEF Served, InWorker, Base
    <2>5. \A d \in Conn \ {c} : SameView(d)
      BY <2>1, <2>2, ViewKept DEF Base
    <2>6. Answers(c)' = << >>
      BY <2>2 DEF Answers
    <2>7. Store!Leave(c)
      BY <2>1, <2>2, <2>4, <2>5, <2>6, StoreLeaves DEF SameView
    <2> QED
      BY <2>3, <2>7 DEF Stored, Store!Next
  <1> QED
    BY <1>1, <1>2, <1>3

(* Nothing is stored, sent or owed when the server starts. *)
LEMMA StoreInit == Init => StoreInv /\ Store!Init
  <1> SUFFICES ASSUME Init PROVE StoreInv /\ Store!Init
    OBVIOUS
  <1>1. /\ stack[Main] = <<Frame("accept", Free, Free)>> /\ \A c \in Conn : stack[c] = << >>
        /\ file = << >> /\ out = [c \in Conn |-> << >>] /\ client = [c \in Conn |-> "out"] /\ ~should_quit
    BY ServerAssumption DEF Init, Thread
  <1>2. ASSUME NEW t \in Thread, NEW i \in 1 .. Len(stack[t]) PROVE stack[t][i].at = "accept"
    <2>1. CASE t # Main
      <3>1. stack[t] = << >> /\ Len(<< >>) = 0
        BY <1>1, <2>1 DEF Thread
      <3> QED
        BY <3>1
    <2>2. CASE t = Main
      <3> DEFINE n == Len(stack[t])
      <3>1. i \in 1 .. n /\ n = 1
        BY <1>1, <2>2
      <3> HIDE DEF n
      <3>2. i = 1
        BY <3>1
      <3> QED
        BY <1>1, <2>2, <3>2, FrameFields
    <2> QED
      BY <2>1, <2>2
  <1>3. FramesOK(stack, client, sent, file, out)
    BY <1>2 DEF FramesOK, FrameOK, Opened, Serving
  <1>4. ~Half(file) /\ file \in Seq(Thread \X Nat) /\ << >> \in Seq(Thread \X Nat)
    BY <1>1 DEF Half
  <1>5. StoreInv
    BY <1>1, <1>3, <1>4 DEF StoreInv
  <1>6. Content = << >>
    BY <1>1 DEF Content
  <1>7. \A c \in Conn : ~InWorker(c, {"w_close", "d_lock", "d_open", "d_read"}) /\ ~InWorker(c, {"d_read"})
    BY <1>1 DEF InWorker
  <1>8. \A c \in Conn : Answers(c) = << >>
    <2>1. SubSeq(<< >>, 1, Len(<< >>) - 0) = << >>
      BY <1>4, WholeAnswer
    <2> QED
      BY <1>1, <1>7, <2>1 DEF Answers
  <1>9. Store!Init
    BY <1>1, <1>6, <1>7, <1>8 DEF Store!Init
  <1> QED
    BY <1>5, <1>9

(* Where opening the data file never fails, and until it is told to quit,  *)
(* the server is the store of StoreLog: packets and timestamps are never   *)
(* mixed, and an answer is the whole file at one moment after its packet   *)
(* was stored; for any number of connections, packets and timer signals,   *)
(* and for any buffer the file is read with.                               *)
THEOREM ServerRefinesStore ==
  ASSUME OpensSucceed, MaxQuits = 0
  PROVE  Spec => RefinesStore
  <1> DEFINE Inv == TypeInv /\ Fresh /\ Descriptors /\ Exclusive /\ StoreInv
  <1>1. Init => Inv /\ Store!Init
    BY InitTypes, FreshInit, DescriptorsInit, ExclusiveInit, StoreInit
  <1>2. Inv /\ [Next]_vars => Inv' /\ [Store!Next]_(Store!vars)
    <2> SUFFICES ASSUME Inv, [Next]_vars PROVE Inv' /\ [Store!Next]_(Store!vars)
      OBVIOUS
    <2>1. TypeInv' /\ Fresh' /\ Descriptors' /\ Exclusive'
      BY NextTypes, ControlSteps, FileSteps, FreshStep, DescriptorsStep, ExclusiveStep
    <2>2. Stored
      <3>1. CASE UNCHANGED vars
        <4>1. UNCHANGED <<stack, client, sent, file, out, should_quit>>
          BY <3>1 DEF vars, control, files, world
        <4>2. StoreInv'
          BY <4>1 DEF StoreInv
        <4>3. \A c \in Conn : SameView(c)
          BY <4>1, ViewKept DEF Base
        <4> QED
          BY <4>1, <4>2, <4>3, StoreStutters DEF Stored, SameView
      <3> QED
        BY <3>1, StoreMain, StoreWorker, StoreHandler, StoreWorld DEF Next
    <2> QED
      BY <2>1, <2>2 DEF Stored
  <1> HIDE DEF Inv
  <1> QED
    BY <1>1, <1>2, PTL DEF Spec, RefinesStore, Store!Spec
=============================================================================
