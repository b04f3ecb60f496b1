----------------------------- MODULE ScannerWalk -----------------------------
(***************************************************************************)
(* The recursion of process_directory: it leaves out nothing that the      *)
(* system let it see, and takes up nothing twice, on every tree, cyclic    *)
(* links included.                                                         *)
(***************************************************************************)
EXTENDS ScannerTyping

Parent(p) == SubSeq(p, 1, Len(p) - 1)

LEMMA ParentAppend ==
  ASSUME NEW d \in Path, NEW n \in Name
  PROVE  /\ Append(d, n) \in Path
         /\ Parent(Append(d, n)) = d
         /\ Len(Append(d, n)) = Len(d) + 1
         /\ Append(d, n) # Root
  BY DEF Path, Parent, Root

\* Returning from a call, and working in the topmost frame.
LEMMA FramePop ==
  ASSUME NEW S, NEW s \in Seq(S), s # << >>
  PROVE  LET t == SubSeq(s, 1, Len(s) - 1)
         IN  /\ Len(s) \in Nat /\ Len(s) >= 1
             /\ Len(t) = Len(s) - 1
             /\ DOMAIN t = 1..Len(t)
             /\ DOMAIN s = 1..Len(s)
             /\ \A k \in 1..Len(t) : t[k] = s[k]
<1>1. Len(s) \in Nat /\ Len(s) # 0
  OBVIOUS
<1>2. PICK n \in Nat : Len(s) = n + 1
  <2>1. Len(s) - 1 \in Nat /\ Len(s) = (Len(s) - 1) + 1
    BY <1>1
  <2> QED
    BY <2>1
<1> DEFINE t == SubSeq(s, 1, n)
<1>3. Len(t) = n /\ DOMAIN t = 1..n /\ \A k \in 1..n : t[k] = s[k]
  BY <1>2
<1>4. Len(s) - 1 = n /\ Len(s) >= 1 /\ DOMAIN s = 1..Len(s)
  BY <1>2
<1> QED
  BY <1>1, <1>3, <1>4

LEMMA FrameUpdate ==
  ASSUME NEW S, NEW s \in Seq(SUBSET S), s # << >>, NEW p
  PROVE  LET t == [s EXCEPT ![Len(s)] = @ \ {p}]
         IN  /\ Len(s) \in 1..Len(s)
             /\ Len(t) = Len(s)
             /\ DOMAIN t = DOMAIN s
             /\ DOMAIN s = 1..Len(s)
             /\ s[Len(s)] \subseteq S
             /\ \A k \in 1..Len(s) :
                   t[k] = IF k = Len(s) THEN s[k] \ {p} ELSE s[k]
<1> DEFINE t == [s EXCEPT ![Len(s)] = @ \ {p}]
<1>1. Len(s) \in Nat /\ Len(s) # 0 /\ DOMAIN s = 1..Len(s)
  OBVIOUS
<1>2. Len(s) \in 1..Len(s)
  BY <1>1
<1>3. s[Len(s)] \in SUBSET S
  BY <1>2
<1>4. t \in Seq(SUBSET S)
  BY <1>2, <1>3
<1>5. DOMAIN t = DOMAIN s
  OBVIOUS
<1>6. Len(t) = Len(s)
  BY <1>1, <1>4, <1>5
<1>7. \A k \in 1..Len(s) : t[k] = IF k = Len(s) THEN s[k] \ {p} ELSE s[k]
  BY <1>1
<1> QED
  BY <1>1, <1>2, <1>3, <1>5, <1>6, <1>7

\* What the frames of process_directory have still to do.
Todo == UNION {stack[k] : k \in DOMAIN stack}

Walking == {"list", "walk", "read", "lock", "unlock"}
Later == {"begin_check", "check", "create", "write", "ok"}

\* Every entry of a directory that was taken up, and not denied by is_dir, is done,
\* left out by read_dir, or in a frame; the directory about to be listed is the exception.
Covered == pc \in Walking \cup Later =>
             /\ Root \in walked \ missed
             /\ \A d \in walked \ missed :
                  IsDir(d) => \/ pc = "list" /\ d = arg
                              \/ Listing(d) \subseteq walked \cup skipped \cup Todo

NoFrameLeft == pc \in Later => stack = << >>

\* A frame holds paths as deep as it lies in the stack, each in a directory
\* that was taken up; so were the directories around whatever was taken up.
FrameDepth == \A k \in 1..Len(stack) : \A p \in stack[k] :
                 Len(p) = k /\ Parent(p) \in walked
WalkedDown == \A p \in walked : p # Root => Parent(p) \in walked

\* The directory about to be listed is fresh: nothing in it was taken up.
ListsFresh == pc = "list" => /\ arg \in walked
                             /\ Len(arg) = Len(stack)
                             /\ \A n \in Name : Append(arg, n) \notin walked

WalkInv == /\ TypeInv
           /\ Covered /\ NoFrameLeft
           /\ FrameDepth /\ WalkedDown /\ ListsFresh
           /\ NoPathTwice

-----------------------------------------------------------------------------
LEMMA WalkInit == Init => WalkInv
<1> SUFFICES ASSUME Init PROVE WalkInv
  OBVIOUS
<1>1. TypeInv
  BY TypeInit
<1> QED
  BY <1>1 DEF Init, WalkInv, Covered, NoFrameLeft, FrameDepth, WalkedDown,
              ListsFresh, NoPathTwice, Walking, Later

\* A step that leaves the frames alone and does not come to "list".
LEMMA WalkSame ==
  ASSUME WalkInv, TypeInv', UNCHANGED <<stack, walked, skipped, missed>>,
         pc # "list" \/ UNCHANGED <<pc, arg>>,
         \/ UNCHANGED <<pc, arg>>
         \/ pc \in Walking /\ pc' \in Walking \ {"list"}
         \/ pc \in Later /\ pc' \in Later
  PROVE  WalkInv'
<1>1. Todo' = Todo
  BY DEF Todo
<1>2. Covered'
  BY <1>1 DEF WalkInv, Covered, Walking, Later, Listing, IsDir
<1>3. NoFrameLeft'
  BY DEF WalkInv, NoFrameLeft, Walking, Later
<1>4. FrameDepth' /\ WalkedDown' /\ NoPathTwice'
  BY DEF WalkInv, FrameDepth, WalkedDown, NoPathTwice
<1>5. ListsFresh'
  BY DEF WalkInv, ListsFresh, Walking, Later
<1> QED
  BY <1>2, <1>3, <1>4, <1>5 DEF WalkInv

LEMMA WalkStop ==
  ASSUME WalkInv, TypeInv', NEW how \in {"err", "panic", "killed"}, Stop(how)
  PROVE  WalkInv'
<1>1. /\ stack' = << >> /\ walked' = walked /\ pc' = how
  BY DEF Stop, history
<1> QED
  BY <1>1 DEF WalkInv, Covered, NoFrameLeft, FrameDepth, WalkedDown,
              ListsFresh, NoPathTwice, Walking, Later

LEMMA WalkReadDir ==
  ASSUME WalkInv, TypeInv', ReadDir
  PROVE  WalkInv'
<1>1. PICK entries \in SUBSET Listing(arg) :
        /\ stack' = Append(stack, entries)
        /\ skipped' = skipped \cup (Listing(arg) \ entries)
  BY DEF ReadDir
<1>2. /\ pc = "list" /\ pc' = "walk" /\ walked' = walked /\ missed' = missed /\ arg' = arg
      /\ arg \in Path /\ IsDir(arg) /\ stack \in Seq(SUBSET Path)
  BY DEF ReadDir, WalkInv, TypeInv, TypeOK
<1>3. \A p \in entries : /\ Len(p) = Len(stack) + 1
                         /\ Parent(p) = arg
                         /\ p \notin walked
  <2> TAKE p \in entries
  <2>1. PICK n \in DOMAIN Entries[Resolve(arg)] : p = Append(arg, n)
    BY DEF Listing
  <2>2. n \in Name
    BY <1>2, FileTreeAssumption DEF IsDir
  <2> QED
    BY <1>2, <2>1, <2>2, ParentAppend DEF WalkInv, ListsFresh
<1>4. /\ Len(stack') = Len(stack) + 1
      /\ DOMAIN stack' = 1..Len(stack')
      /\ DOMAIN stack = 1..Len(stack)
      /\ \A k \in 1..Len(stack') : stack'[k] = IF k = Len(stack) + 1 THEN entries ELSE stack[k]
  BY <1>1, <1>2, ListingTyped
<1>5. Todo' = Todo \cup entries
  <2>1. Len(stack) \in Nat
    BY <1>2
  <2> QED
    BY <1>4, <2>1 DEF Todo
<1>6. Covered'
  BY <1>1, <1>2, <1>5 DEF WalkInv, Covered, Walking, Later
<1>7. FrameDepth' /\ NoPathTwice'
  BY <1>2, <1>3, <1>4 DEF WalkInv, FrameDepth, NoPathTwice, ListsFresh
<1>8. NoFrameLeft' /\ WalkedDown' /\ ListsFresh'
  BY <1>2 DEF WalkInv, NoFrameLeft, WalkedDown, ListsFresh, Later
<1> QED
  BY <1>6, <1>7, <1>8 DEF WalkInv

LEMMA WalkLeave ==
  ASSUME WalkInv, TypeInv', LeaveDirectory
  PROVE  WalkInv'
<1>1. /\ pc = "walk" /\ pc' \in {"walk", "begin_check"}
      /\ stack' = SubSeq(stack, 1, Len(stack) - 1)
      /\ stack \in Seq(SUBSET Path) /\ stack # << >>
      /\ stack[Len(stack)] = {}
      /\ UNCHANGED <<walked, skipped, missed, arg>>
  BY DEF LeaveDirectory, WalkInv, TypeInv, TypeOK, Top, history
<1>2. /\ Len(stack) \in Nat /\ Len(stack) >= 1
      /\ Len(stack') = Len(stack) - 1
      /\ DOMAIN stack' = 1..Len(stack')
      /\ DOMAIN stack = 1..Len(stack)
      /\ \A k \in 1..Len(stack') : stack'[k] = stack[k]
  BY <1>1, FramePop
<1>3. Todo' = Todo
  <2>1. \A k \in 1..Len(stack) : k \in 1..Len(stack') \/ stack[k] = {}
    BY <1>1, <1>2
  <2> QED
    BY <1>2, <2>1 DEF Todo
<1>4. Covered'
  BY <1>1, <1>3 DEF WalkInv, Covered, Walking, Later
<1>5. FrameDepth' /\ NoPathTwice'
  BY <1>1, <1>2 DEF WalkInv, FrameDepth, NoPathTwice
<1>6. NoFrameLeft'
  <2>1. pc' \in Later => Len(stack') = 0
    BY <1>1, <1>2 DEF LeaveDirectory, Later
  <2> QED
    BY <1>1, <2>1 DEF NoFrameLeft
<1>7. WalkedDown' /\ ListsFresh'
  BY <1>1 DEF WalkInv, WalkedDown, ListsFresh
<1> QED
  BY <1>4, <1>5, <1>6, <1>7 DEF WalkInv

LEMMA WalkTakeUp ==
  ASSUME WalkInv, TypeInv', NEW p,
         EnterDirectory(p) \/ OpenFile(p) \/ SkipEntry(p)
  PROVE  WalkInv'
<1>1. PICK dir \in BOOLEAN : TakeUp(p, dir) /\ (dir <=> EnterDirectory(p))
  <2>1. EnterDirectory(p) => TakeUp(p, TRUE)
    BY DEF EnterDirectory
  <2>2. OpenFile(p) \/ SkipEntry(p) => TakeUp(p, FALSE) /\ pc' # "list"
    BY DEF OpenFile, SkipEntry, TakeUp
  <2>3. EnterDirectory(p) => pc' = "list"
    BY DEF EnterDirectory
  <2> QED
    BY <2>1, <2>2, <2>3
<1>2. /\ pc = "walk" /\ pc' \in {"list", "read", "walk"}
      /\ pc' = "list" => arg' = p
      /\ IsDir(p) => pc' = "list" \/ p \in missed'
      /\ missed \subseteq missed' /\ missed' \subseteq missed \cup {p}
  BY <1>1 DEF EnterDirectory, OpenFile, SkipEntry, TakeUp
<1>3. /\ stack \in Seq(SUBSET Path) /\ stack # << >>
      /\ p \in stack[Len(stack)]
      /\ stack' = [stack EXCEPT ![Len(stack)] = @ \ {p}]
      /\ walked' = walked \cup {p}
      /\ skipped' = skipped
      /\ walked \subseteq Path
  BY <1>1 DEF TakeUp, Top, WalkInv, TypeInv, TypeOK
<1>4. /\ Len(stack) \in 1..Len(stack)
      /\ Len(stack') = Len(stack)
      /\ DOMAIN stack' = DOMAIN stack
      /\ DOMAIN stack = 1..Len(stack)
      /\ \A k \in 1..Len(stack) :
            stack'[k] = IF k = Len(stack) THEN stack[k] \ {p} ELSE stack[k]
      /\ stack[Len(stack)] \subseteq Path
  BY <1>3, FrameUpdate
<1>5. /\ p \in Path /\ p \notin walked
      /\ Len(p) = Len(stack) /\ Parent(p) \in walked
  BY <1>3, <1>4 DEF WalkInv, NoPathTwice, FrameDepth
<1>6. Todo \subseteq Todo' \cup {p}
  BY <1>4 DEF Todo
<1>7. Covered'
  <2>1. /\ Root \in walked \ missed
        /\ \A d \in walked \ missed :
             IsDir(d) => Listing(d) \subseteq walked \cup skipped \cup Todo
    BY <1>2 DEF WalkInv, Covered, Walking
  <2>2. p # Root
    BY <1>5, <2>1
  <2> QED
    BY <1>2, <1>3, <1>6, <2>1, <2>2 DEF Covered
<1>8. FrameDepth'
  BY <1>3, <1>4 DEF WalkInv, FrameDepth
<1>9. WalkedDown'
  BY <1>3, <1>5 DEF WalkInv, WalkedDown
<1>10. NoPathTwice'
  <2> SUFFICES ASSUME NEW k \in 1..Len(stack), NEW q \in stack'[k] PROVE q \notin walked'
    BY <1>4 DEF NoPathTwice
  <2>1. q \in stack[k] /\ q \notin walked /\ Len(q) = k
    BY <1>4 DEF WalkInv, NoPathTwice, FrameDepth
  <2>2. q # p
    BY <1>4, <1>5, <2>1
  <2> QED
    BY <1>3, <2>1, <2>2
<1>11. ListsFresh'
  <2>1. ASSUME NEW n \in Name PROVE Append(p, n) \notin walked'
    <3>1. /\ Parent(Append(p, n)) = p
          /\ Append(p, n) # Root
          /\ Len(Append(p, n)) = Len(p) + 1
      BY <1>5, ParentAppend
    <3>2. Append(p, n) \notin walked
      BY <1>5, <3>1 DEF WalkInv, WalkedDown
    <3>3. Append(p, n) # p
      <4>1. Len(p) \in Nat
        BY <1>5 DEF Path
      <4>2. Len(p) # Len(p) + 1
        BY <4>1
      <4> QED
        BY <3>1, <4>2
    <3> QED
      BY <1>3, <3>2, <3>3
  <2> QED
    BY <1>2, <1>3, <1>4, <1>5, <2>1 DEF ListsFresh
<1>12. NoFrameLeft'
  BY <1>2 DEF NoFrameLeft, Later
<1> QED
  BY <1>7, <1>8, <1>9, <1>10, <1>11, <1>12 DEF WalkInv

LEMMA WalkInductive == WalkInv /\ [Next]_vars => WalkInv'
<1> SUFFICES ASSUME WalkInv, [Next]_vars PROVE WalkInv'
  OBVIOUS
<1>0. TypeInv'
  BY TypeInductive DEF WalkInv
<1>1. CASE ReadDir
  BY <1>0, <1>1, WalkReadDir
<1>2. CASE LeaveDirectory
  BY <1>0, <1>2, WalkLeave
<1>3. ASSUME NEW p, EnterDirectory(p) \/ OpenFile(p) \/ SkipEntry(p) PROVE WalkInv'
  BY <1>0, <1>3, WalkTakeUp
<1>4. CASE ReadFile \/ LockAndInsert \/ ReturnFromFile
  <2>1. /\ pc \in Walking /\ pc # "list" /\ pc' \in Walking \ {"list"}
        /\ UNCHANGED <<stack, walked, skipped, missed>>
    BY <1>4 DEF ReadFile, LockAndInsert, ReturnFromFile, history, Walking
  <2> QED
    BY <1>0, <2>1, WalkSame
<1>5. CASE \/ BeginCheck \/ EndCheck \/ (\E k \in pending : CheckOne(k[1], k[2]))
           \/ Create \/ BeginLine \/ EndLine \/ Announce
  <2>1. /\ pc \in Later /\ pc # "list" /\ pc' \in Later
        /\ UNCHANGED <<stack, walked, skipped, missed>>
    BY <1>5 DEF BeginCheck, EndCheck, CheckOne, Create, BeginLine, EndLine, Announce,
                AllWritten, volatile, history, Later
  <2> QED
    BY <1>0, <2>1, WalkSame
<1>6. CASE WalkPanics \/ AnnouncePanics \/ Fails \/ Kill
  <2>1. \E how \in {"err", "panic", "killed"} : Stop(how)
    BY <1>6 DEF WalkPanics, AnnouncePanics, Fails, Kill
  <2> QED
    BY <1>0, <2>1, WalkStop
<1>7. CASE Start
  <2>1. /\ stack' = << >> /\ walked' = {Root} /\ missed' = {} /\ pc' = "list" /\ arg' = Root
    BY <1>7 DEF Start
  <2>2. \A n \in Name : Append(Root, n) # Root
    BY RootIsDir, ParentAppend
  <2>3. Len(Root) = 0 /\ Len(stack') = 0
    BY <2>1 DEF Root
  <2> QED
    BY <1>0, <2>1, <2>2, <2>3 DEF WalkInv, Covered, NoFrameLeft, FrameDepth, WalkedDown,
                 ListsFresh, NoPathTwice, Later
<1>8. ASSUME NEW i, NEW content, Edit(i, content) PROVE WalkInv'
  BY <1>0, <1>8, WalkSame DEF Edit, volatile
<1>9. CASE UNCHANGED vars
  BY <1>0, <1>9, WalkSame DEF vars, volatile, history
<1> QED
  BY <1>1, <1>2, <1>3, <1>4, <1>5, <1>6, <1>7, <1>8, <1>9 DEF Next, Program, Over

\* The invariant of the walk, for any number of runs.
THEOREM WalkInvariant == Spec => []WalkInv
  BY WalkInit, WalkInductive, PTL DEF Spec

\* A run that comes to the check has followed every directory it took up, unless
\* its metadata could not be read: each entry was taken up too, or read_dir failed
\* to produce it.
THEOREM WalkIsClosed == Spec => []WalkClosed
<1>1. WalkInv => WalkClosed
  <2> SUFFICES ASSUME WalkInv, pc \in Later
               PROVE  /\ Root \in walked \ missed
                      /\ \A d \in walked \ missed :
                            IsDir(d) => Listing(d) \subseteq walked \cup skipped
    BY DEF WalkClosed, Later
  <2>1. Todo = {}
    BY DEF WalkInv, NoFrameLeft, Todo
  <2> QED
    BY <2>1 DEF WalkInv, Covered, Later
<1> QED
  BY <1>1, WalkInvariant, PTL

\* process_directory never takes up a path twice, however links lead around in
\* the tree.
THEOREM WalkTakesUpOnce == Spec => []NoPathTwice
<1>1. WalkInv => NoPathTwice
  BY DEF WalkInv
<1> QED
  BY <1>1, WalkInvariant, PTL
=============================================================================
