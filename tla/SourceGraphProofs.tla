--------------------------- MODULE SourceGraphProofs ---------------------------
(***************************************************************************)
(* Proofs about SourceGraph for every set of files, every limit and every  *)
(* way the files import one another: a graph without the mark is complete. *)
(***************************************************************************)
EXTENDS SourceGraph, TLAPS

LEMMA WalkInitial == Init => WalkInv
<1> SUFFICES ASSUME Init PROVE WalkInv
  OBVIOUS
<1>1. WalkTypes
  <2>1. imports \in [Paths -> Seq(Specifiers)] /\ maxDepth \in Int /\ maxFiles \in Int
    BY GraphAssumption DEF GraphAssumption, Init
  <2>2. truncated \in BOOLEAN
    BY Zenon DEF Init
  <2>3. QED
    BY <2>1, <2>2 DEF Init, WalkTypes
<1>2. ListedOnce /\ EntryKept /\ Fresh /\ Drained /\ StackListed /\ Covered
  BY DEF Init, ListedOnce, EntryKept, Fresh, Drained, StackListed, Covered, Listed
<1>3. QED
  BY <1>1, <1>2 DEF WalkInv

\* A file that is appended is listed, and those before it stay.
LEMMA ListedAfter ==
  ASSUME files \in Seq(Paths), NEW file \in Paths, files' = Append(files, file)
  PROVE  Listed' = Listed \cup {file} /\ files' \in Seq(Paths)
<1>1. files' \in Seq(Paths) /\ DOMAIN files' = DOMAIN files \cup {Len(files) + 1}
  OBVIOUS
<1>2. files'[Len(files) + 1] = file /\ \A n \in DOMAIN files : files'[n] = files[n]
  OBVIOUS
<1>3. QED
  BY <1>1, <1>2 DEF Listed

LEMMA ListedPaths == ASSUME WalkTypes PROVE Listed \subseteq Paths
  BY DEF WalkTypes, Listed

LEMMA StillOnce ==
  ASSUME files \in Seq(Paths), ListedOnce, NEW file \in Paths \ Listed,
         files' = Append(files, file)
  PROVE  ListedOnce'
<1>1. DOMAIN files' = DOMAIN files \cup {Len(files) + 1}
  OBVIOUS
<1>2. files'[Len(files) + 1] = file /\ \A n \in DOMAIN files : files'[n] = files[n]
  OBVIOUS
<1>3. \A n \in DOMAIN files : files[n] # file
  BY DEF Listed
<1>4. QED
  BY <1>1, <1>2, <1>3 DEF ListedOnce

\* The call in its loop that is on top of the stack goes on, the others stay as they are.
LEMMA Advanced ==
  ASSUME stack \in Seq(Frames), stack # <<>>, Advance
  PROVE  /\ stack' \in Seq(Frames) /\ DOMAIN stack' = DOMAIN stack /\ Len(stack) \in DOMAIN stack
         /\ \A k \in DOMAIN stack : stack'[k].file = stack[k].file
         /\ \A k \in DOMAIN stack : k # Len(stack) => stack'[k].next = stack[k].next
         /\ stack'[Len(stack)].next = Top.next + 1
<1> DEFINE top == stack[Len(stack)]
           new == [file |-> top.file, next |-> top.next + 1]
<1>1. Len(stack) \in Nat \ {0} /\ DOMAIN stack = 1..Len(stack)
  OBVIOUS
<1>2. top \in Frames
  BY <1>1
<1>3. new \in Frames /\ [top EXCEPT !.next = top.next + 1] = new
  BY <1>2 DEF Frames
<1>4. stack' = [stack EXCEPT ![Len(stack)] = new]
  BY <1>3 DEF Advance
<1> HIDE DEF new
<1>5. stack' \in Seq(Frames) /\ DOMAIN stack' = DOMAIN stack
  BY <1>1, <1>3, <1>4
<1>6. stack'[Len(stack)] = new /\ \A k \in DOMAIN stack : k # Len(stack) => stack'[k] = stack[k]
  BY <1>1, <1>4
<1>7. new.file = top.file /\ new.next = top.next + 1
  BY DEF new
<1>8. QED
  BY <1>1, <1>5, <1>6, <1>7 DEF Top

\* walk() returns: the call on top of the stack is gone.
LEMMA Returned ==
  ASSUME stack \in Seq(Frames), stack # <<>>, stack' = SubSeq(stack, 1, Len(stack) - 1)
  PROVE  /\ stack' \in Seq(Frames) /\ DOMAIN stack' = DOMAIN stack \ {Len(stack)}
         /\ \A k \in DOMAIN stack' : stack'[k] = stack[k]
<1>1. Len(stack) \in Nat \ {0} /\ DOMAIN stack = 1..Len(stack)
  OBVIOUS
<1>2. stack' = [k \in 1..Len(stack) - 1 |-> stack[k]]
  BY <1>1
<1>3. \A k \in 1..Len(stack) - 1 : stack[k] \in Frames
  BY <1>1
<1>4. stack' \in Seq(Frames)
  BY <1>1, <1>2, <1>3
<1>5. QED
  BY <1>1, <1>2, <1>4

\* walk() enters its loop: the call is on top of the stack, at its first import.
LEMMA Entered ==
  ASSUME stack \in Seq(Frames), NEW file \in Paths,
         stack' = Append(stack, [file |-> file, next |-> 1])
  PROVE  /\ stack' \in Seq(Frames) /\ DOMAIN stack' = DOMAIN stack \cup {Len(stack) + 1}
         /\ \A k \in DOMAIN stack : stack'[k] = stack[k]
         /\ stack'[Len(stack) + 1].file = file /\ stack'[Len(stack) + 1].next = 1
<1> DEFINE new == [file |-> file, next |-> 1]
<1>1. new \in Frames /\ new.file = file /\ new.next = 1
  BY DEF Frames
<1>2. stack' = Append(stack, new)
  OBVIOUS
<1> HIDE DEF new
<1>3. stack' \in Seq(Frames) /\ DOMAIN stack' = DOMAIN stack \cup {Len(stack) + 1}
  BY <1>1, <1>2
<1>4. stack'[Len(stack) + 1] = new /\ \A k \in DOMAIN stack : stack'[k] = stack[k]
  BY <1>1, <1>2
<1>5. QED
  BY <1>1, <1>3, <1>4

\* What WalkFile does to the stack and to the mark.
LEMMA WalkFileCases ==
  ASSUME WalkFile
  PROVE  /\ ~truncated' => ~truncated
         /\ \/ stack' = stack /\ (~truncated' => ~(Len(imports[call]) > 0))
            \/ stack' = Append(stack, [file |-> call, next |-> 1])
  BY Zenon DEF WalkFile

\* The types are kept by every step.
LEMMA WalkTypesKept == ASSUME WalkTypes, Next PROVE WalkTypes'
<1> USE DEF WalkTypes, options
<1>1. CASE Start
  BY <1>1, GraphAssumption DEF Start, GraphAssumption
<1>2. CASE WalkLimit
  BY <1>2 DEF WalkLimit
<1>3. CASE WalkVisited
  BY <1>3 DEF WalkVisited
<1>4. CASE WalkThrows
  BY <1>4 DEF WalkThrows
<1>5. CASE WalkFile
  <2>1. call \in Paths
    BY <1>5 DEF WalkFile
  <2>2. truncated' \in BOOLEAN
    BY <1>5, Zenon DEF WalkFile
  <2>3. files' \in Seq(Paths)
    BY <1>5, <2>1 DEF WalkFile
  <2>4. stack' \in Seq(Frames)
    BY <1>5, <2>1, WalkFileCases, Entered
  <2>5. QED
    BY <1>5, <2>2, <2>3, <2>4 DEF WalkFile
<1>6. CASE NextImport
  <2>1. stack' \in Seq(Frames)
    BY <1>6, Advanced DEF NextImport, More
  <2>2. call' \in Paths \cup {NoFile}
    BY <1>6 DEF NextImport
  <2>3. QED
    BY <1>6, <2>1, <2>2 DEF NextImport
<1>7. CASE Return
  <2>1. stack' \in Seq(Frames)
    BY <1>7, Returned DEF Return
  <2>2. QED
    BY <1>7, <2>1 DEF Return
<1>8. QED
  BY <1>1, <1>2, <1>3, <1>4, <1>5, <1>6, <1>7 DEF Next

\* An import resolves to one path at most.
LEMMA ResolvesToOne ==
  ASSUME NEW specifier \in Specifiers, NEW a, NEW b, Resolves(specifier, a), Resolves(specifier, b)
  PROVE  a = b
<1>1. Found(specifier) \subseteq Nat
  BY DEF Found, Specifiers
<1>2. QED
  BY <1>1 DEF Resolves

\* The invariant is kept by every step.
LEMMA WalkStepInv == ASSUME WalkInv, [Next]_graphVars PROVE WalkInv'
<1> USE DEF WalkInv
<1>1. CASE UNCHANGED graphVars
  BY <1>1 DEF WalkTypes, ListedOnce, EntryKept, Fresh, Drained, StackListed, Covered, ToCome,
     graphVars, options, Listed
<1>2. CASE Next
  <2>t. WalkTypes'
    BY <1>2, WalkTypesKept
  <2>1. CASE Start
    <3>1. files' = <<>> /\ stack' = <<>> /\ result' \notin {"none", "ok"}
      BY <2>1 DEF Start, Fresh
    <3>2. result' = "walking" => call' = Entry
      BY <2>1 DEF Start
    <3>3. Listed' = {}
      BY <3>1 DEF Listed
    <3>4. QED
      BY <2>t, <3>1, <3>2, <3>3
      DEF ListedOnce, EntryKept, Fresh, Drained, StackListed, Covered
  <2>2. CASE WalkLimit
    BY <2>t, <2>2
    DEF WalkLimit, ListedOnce, EntryKept, Fresh, Drained, StackListed, Covered, Listed
  <2>3. CASE WalkVisited
    BY <2>t, <2>3 DEF WalkVisited, ListedOnce, EntryKept, Fresh, Drained, StackListed, Covered,
       ToCome, Listed, options
  <2>4. CASE WalkThrows
    <3>1. call \in Paths \ Listed /\ files' = Append(files, call)
      BY <2>4 DEF WalkThrows, WalkTypes
    <3>2. Listed' = Listed \cup {call} /\ ListedOnce'
      BY <3>1, ListedAfter, StillOnce DEF WalkTypes
    <3>3. QED
      BY <2>t, <2>4, <3>2 DEF WalkThrows, EntryKept, Fresh, Drained, StackListed, Covered
  <2>5. CASE WalkFile
    <3>1. call \in Paths \ Listed /\ files' = Append(files, call)
      BY <2>5 DEF WalkFile, WalkTypes
    <3>2. Listed' = Listed \cup {call} /\ ListedOnce'
      BY <3>1, ListedAfter, StillOnce DEF WalkTypes
    <3>3. EntryKept' /\ Fresh' /\ Drained'
      BY <2>5, <3>2 DEF WalkFile, EntryKept, Fresh, Drained
    <3>4. /\ \A k \in DOMAIN stack : k \in DOMAIN stack' /\ stack'[k] = stack[k]
          /\ \A k \in DOMAIN stack' : k \in DOMAIN stack \/ stack'[k].file = call
          /\ stack' # stack => \E k \in DOMAIN stack' : stack'[k].file = call /\ stack'[k].next = 1
      BY <2>5, <3>1, WalkFileCases, Entered DEF WalkTypes
    <3>5. StackListed'
      BY <3>2, <3>4 DEF StackListed
    <3>6. ASSUME result' \in {"walking", "ok"}, ~truncated',
                 NEW file \in Listed', NEW n \in DOMAIN imports'[file], NEW path \in Paths,
                 Resolves(imports'[file][n], path)
          PROVE  path \in Listed' \cup {call'} \/ ToCome(file, n)'
      <4>1. imports' = imports /\ result = "walking" /\ ~truncated
        BY <2>5, <3>6, WalkFileCases DEF WalkFile, options
      <4>2. CASE file \in Listed
        BY <3>2, <3>4, <3>6, <4>1, <4>2 DEF Covered, ToCome
      <4>3. CASE file = call
        <5>1. Len(imports[call]) \in Nat /\ n \in 1..Len(imports[call])
          BY <3>1, <3>6, <4>1, <4>3 DEF WalkTypes
        <5>2. stack' # stack
          BY <2>5, <3>6, <5>1, WalkFileCases, Entered, <3>1 DEF WalkTypes
        <5>3. QED
          BY <3>4, <4>3, <5>1, <5>2 DEF ToCome
      <4>4. QED
        BY <3>2, <4>2, <4>3
    <3>7. Covered'
      BY <3>6 DEF Covered
    <3>8. QED
      BY <2>t, <3>2, <3>3, <3>5, <3>7
  <2>6. CASE NextImport
    <3>1. /\ stack # <<>> /\ Advance /\ call = NoFile /\ result = "walking"
          /\ UNCHANGED <<imports, files, truncated, result>>
      BY <2>6 DEF NextImport, More, options
    <3>2. Listed' = Listed /\ ListedOnce' /\ EntryKept' /\ Fresh' /\ Drained'
      BY <3>1, GraphAssumption
      DEF Listed, ListedOnce, EntryKept, Fresh, Drained, GraphAssumption
    <3>3. /\ DOMAIN stack' = DOMAIN stack /\ Len(stack) \in DOMAIN stack
          /\ \A k \in DOMAIN stack : stack'[k].file = stack[k].file
          /\ \A k \in DOMAIN stack : k # Len(stack) => stack'[k].next = stack[k].next
          /\ stack'[Len(stack)].next = Top.next + 1
      BY <3>1, Advanced DEF WalkTypes
    <3>4. StackListed'
      BY <3>2, <3>3 DEF StackListed
    <3>5. ASSUME ~truncated, NEW file \in Listed, NEW n \in DOMAIN imports[file],
                 NEW path \in Paths, Resolves(imports[file][n], path)
          PROVE  path \in Listed \cup {call'} \/ ToCome(file, n)'
      <4>1. path \in Listed \/ ToCome(file, n)
        BY <3>1, <3>5, GraphAssumption DEF Covered, GraphAssumption
      <4>2. CASE ToCome(file, n)
        <5>1. PICK k \in DOMAIN stack : stack[k].file = file /\ stack[k].next <= n
          BY <4>2 DEF ToCome
        <5>2. n \in Nat /\ imports[file][n] \in Specifiers /\ stack[k].next \in Nat
          <6>1. imports[file] \in Seq(Specifiers)
            BY <3>5, ListedPaths DEF WalkTypes
          <6>2. n \in Nat /\ imports[file][n] \in Specifiers
            BY <3>5, <6>1
          <6>3. stack[k] \in Frames
            BY DEF WalkTypes
          <6>4. QED
            BY <6>2, <6>3 DEF Frames
        <5>3. CASE k # Len(stack) \/ stack[k].next # n
          BY <3>3, <5>1, <5>2, <5>3 DEF ToCome, Top
        <5>4. CASE k = Len(stack) /\ stack[k].next = n
          <6>1. imports[Top.file][Top.next] = imports[file][n]
            BY <5>1, <5>4 DEF Top
          <6>2. Found(imports[file][n]) # {}
            BY <3>5 DEF Resolves
          <6>3. Resolves(imports[file][n], call')
            BY <2>6, <6>1, <6>2 DEF NextImport
          <6>4. QED
            BY <3>5, <5>2, <6>3, ResolvesToOne
        <5>5. QED
          BY <5>3, <5>4
      <4>3. QED
        BY <4>1, <4>2
    <3>6. Covered'
      BY <3>1, <3>2, <3>5 DEF Covered
    <3>7. QED
      BY <2>t, <3>2, <3>4, <3>6
  <2>7. CASE Return
    <3>1. call = NoFile /\ ~More /\ UNCHANGED <<imports, files, call, truncated>> /\ result = "walking"
      BY <2>7 DEF Return, options
    <3>2. Listed' = Listed /\ ListedOnce'
      BY <3>1 DEF Listed, ListedOnce
    <3>3. CASE stack = <<>>
      BY <2>t, <2>7, <3>1, <3>2, <3>3
      DEF Return, EntryKept, Fresh, Drained, StackListed, Covered, ToCome
    <3>4. CASE stack # <<>>
      <4>1. result' = result /\ stack' = SubSeq(stack, 1, Len(stack) - 1)
        BY <2>7, <3>4 DEF Return
      <4>2. /\ DOMAIN stack' = DOMAIN stack \ {Len(stack)}
            /\ \A k \in DOMAIN stack' : stack'[k] = stack[k]
        BY <3>4, <4>1, Returned DEF WalkTypes
      <4>3. EntryKept' /\ Fresh' /\ Drained' /\ StackListed'
        BY <3>1, <3>2, <4>1, <4>2 DEF EntryKept, Fresh, Drained, StackListed
      <4>4. ASSUME NEW file \in Listed, NEW n \in DOMAIN imports[file], ToCome(file, n)
            PROVE  ToCome(file, n)'
        <5>1. PICK k \in DOMAIN stack : stack[k].file = file /\ stack[k].next <= n
          BY <4>4 DEF ToCome
        <5>2. n \in Nat /\ n <= Len(imports[file]) /\ Len(imports[file]) \in Nat
              /\ stack[k].next \in Nat
          <6>1. imports[file] \in Seq(Specifiers)
            BY <4>4, ListedPaths DEF WalkTypes
          <6>2. n \in Nat /\ n <= Len(imports[file]) /\ Len(imports[file]) \in Nat
            BY <4>4, <6>1
          <6>3. stack[k] \in Frames
            BY DEF WalkTypes
          <6>4. QED
            BY <6>2, <6>3 DEF Frames
        <5>3. k # Len(stack)
          BY <3>1, <3>4, <5>1, <5>2 DEF More, Top
        <5>4. QED
          BY <4>2, <5>1, <5>3 DEF ToCome
      <4>5. Covered'
        BY <3>1, <3>2, <4>1, <4>4 DEF Covered
      <4>6. QED
        BY <2>t, <3>2, <4>3, <4>5
    <3>5. QED
      BY <3>3, <3>4
  <2>8. QED
    BY <1>2, <2>1, <2>2, <2>3, <2>4, <2>5, <2>6, <2>7 DEF Next
<1>3. QED
  BY <1>1, <1>2

\* The walk keeps its invariant for every graph and all limits.
THEOREM WalkInvariant == Spec => []WalkInv
  BY WalkInitial, WalkStepInv, PTL DEF Spec

\* A graph that is not marked as truncated has everything the entry reaches.
THEOREM GraphComplete == Spec => []CompleteUnlessTruncated
<1>1. WalkInv => CompleteUnlessTruncated
  <2> SUFFICES ASSUME WalkInv, result = "ok", ~truncated
               PROVE  /\ Entry \in Listed
                      /\ \A file \in Listed, path \in Paths : Imports(file, path) => path \in Listed
    BY DEF CompleteUnlessTruncated
  <2>1. call = NoFile /\ stack = <<>>
    BY DEF WalkInv, Drained
  <2>2. Entry \in Listed
    BY <2>1, GraphAssumption DEF WalkInv, EntryKept, GraphAssumption
  <2>3. \A file, n : ~ToCome(file, n)
    BY <2>1 DEF ToCome
  <2>4. QED
    BY <2>1, <2>2, <2>3, GraphAssumption DEF WalkInv, Covered, Imports, GraphAssumption
<1>2. QED
  BY <1>1, WalkInvariant, PTL

\* Where the file comes from that walk() is about to be called with.
CallReached ==
    result = "walking" /\ call # NoFile =>
        (files = <<>> /\ call = Entry) \/ \E m \in DOMAIN files : Imports(files[m], call)

\* A file is listed: it is the entry, or one listed before it imports it.
LEMMA ReachedAppend ==
  ASSUME WalkInv, OnlyReached, CallReached, result = "walking", call \in Paths,
         Len(files) < maxFiles, files' = Append(files, call), imports' = imports,
         maxFiles' = maxFiles, result' # "limit"
  PROVE  OnlyReached'
<1>1. files \in Seq(Paths) /\ maxFiles \in Int
  BY DEF WalkInv, WalkTypes
<1>2. Len(files) \in Nat /\ DOMAIN files = 1..Len(files)
  BY <1>1
<1>3. DOMAIN files' = 1..Len(files) + 1 /\ Len(files') = Len(files) + 1
      /\ files'[Len(files) + 1] = call /\ \A n \in DOMAIN files : files'[n] = files[n]
  BY <1>1, <1>2
<1>4. ASSUME NEW n \in DOMAIN files'
      PROVE  (files[n] = Entry \/ \E m \in 1..n - 1 : Imports(files[m], files[n]))'
  <2>1. CASE n \in DOMAIN files
    <3>1. files[n] = Entry \/ \E m \in 1..n - 1 : Imports(files[m], files[n])
      BY <2>1 DEF OnlyReached
    <3>2. files'[n] = files[n] /\ \A m \in 1..n - 1 : files'[m] = files[m]
      BY <2>1, <1>2, <1>3
    <3>3. CASE files[n] = Entry
      BY <3>2, <3>3
    <3>4. ASSUME NEW m \in 1..n - 1, Imports(files[m], files[n])
          PROVE  Imports(files[m], files[n])'
      <4>1. files'[m] = files[m] /\ files'[n] = files[n]
        BY <3>2
      <4>2. QED
        BY <3>4, <4>1 DEF Imports, Resolves, Found
    <3>5. QED
      BY <3>1, <3>3, <3>4
  <2>2. CASE n = Len(files) + 1
    <3>1. files'[n] = call /\ 1..n - 1 = DOMAIN files
      BY <2>2, <1>2, <1>3
    <3>2. call # NoFile
      BY GraphAssumption DEF GraphAssumption
    <3>3. call = Entry \/ \E m \in DOMAIN files : Imports(files[m], call)
      BY <3>2 DEF CallReached
    <3>4. CASE call = Entry
      BY <3>1, <3>4
    <3>5. ASSUME NEW m \in DOMAIN files, Imports(files[m], call)
          PROVE  m \in 1..n - 1 /\ Imports(files[m], files[n])'
      <4>1. files'[m] = files[m] /\ files'[n] = call
        BY <3>1, <1>3
      <4>2. QED
        BY <3>1, <3>5, <4>1 DEF Imports, Resolves, Found
    <3>6. QED
      BY <3>3, <3>4, <3>5
  <2>3. QED
    BY <2>1, <2>2, <1>2, <1>3
<1>5. Len(files') <= maxFiles'
  BY <1>1, <1>2, <1>3
<1>6. QED
  BY <1>4, <1>5 DEF OnlyReached

LEMMA ReachedStep ==
  ASSUME WalkInv, OnlyReached, CallReached, [Next]_graphVars
  PROVE  OnlyReached' /\ CallReached'
<1>1. CASE UNCHANGED graphVars
  BY <1>1 DEF graphVars, options, OnlyReached, CallReached, Imports, Resolves, Found, Listed
<1>2. CASE Start
  <2>1. files = <<>> /\ files' = <<>> /\ call = NoFile
    BY <1>2 DEF Start, WalkInv, Fresh
  <2>2. result' = "walking" => call' = Entry
    BY <1>2 DEF Start
  <2>3. QED
    BY <2>1, <2>2 DEF OnlyReached, CallReached
<1>3. CASE WalkLimit
  <2>1. UNCHANGED <<imports, maxFiles, call, files>> /\ result' = "limit"
    BY <1>3 DEF WalkLimit, options
  <2>2. call \in Paths \ Listed /\ Len(files) >= maxFiles
        /\ files \in Seq(Paths) /\ maxFiles \in Int
    BY <1>3 DEF WalkLimit, WalkInv, WalkTypes
  <2>3. files # <<>> => Len(files) = maxFiles
    BY <2>2 DEF OnlyReached
  <2>4. files # <<>> => \E file \in Listed : Imports(file, call)
    BY <1>3 DEF WalkLimit, CallReached, Listed
  <2>5. QED
    BY <2>1, <2>2, <2>3, <2>4 DEF OnlyReached, CallReached, Imports, Resolves, Found, Listed
<1>4. CASE WalkVisited
  BY <1>4 DEF WalkVisited, options, OnlyReached, CallReached, Imports, Resolves, Found, Listed
<1>5. CASE WalkThrows
  <2>1. OnlyReached'
    BY <1>5, ReachedAppend DEF WalkThrows, options, WalkInv, WalkTypes
  <2>2. QED
    BY <2>1, <1>5 DEF WalkThrows, CallReached
<1>6. CASE WalkFile
  <2>1. OnlyReached'
    BY <1>6, ReachedAppend DEF WalkFile, options, WalkInv, WalkTypes
  <2>2. QED
    BY <2>1, <1>6 DEF WalkFile, CallReached
<1>7. CASE NextImport
  <2>1. UNCHANGED <<imports, maxFiles, files, result>>
    BY <1>7 DEF NextImport, options
  <2>2. OnlyReached'
    BY <2>1, <1>7 DEF NextImport, OnlyReached, Imports, Resolves, Found, Listed
  <2>3. call' = call \/ \E m \in DOMAIN files : Imports(files[m], call')
    <3>1. stack \in Seq(Frames) /\ stack # <<>>
      BY <1>7 DEF NextImport, More, WalkInv, WalkTypes
    <3>2. Len(stack) \in DOMAIN stack /\ Top \in Frames
      BY <3>1 DEF Top
    <3>3. Top.file \in Listed
      BY <3>2 DEF WalkInv, StackListed, Top
    <3>4. Top.file \in Paths /\ imports[Top.file] \in Seq(Specifiers) /\ Top.next \in Nat \ {0}
      BY <3>2 DEF Frames, WalkInv, WalkTypes
    <3>5. Top.next \in DOMAIN imports[Top.file]
      BY <3>4, <1>7 DEF NextImport, More
    <3>6. call' = call \/ Imports(Top.file, call')
      BY <3>5, <1>7 DEF NextImport, Imports
    <3>7. QED
      BY <3>3, <3>6 DEF Listed
  <2>4. call = NoFile
    BY <1>7 DEF NextImport
  <2>5. QED
    BY <2>1, <2>2, <2>3, <2>4 DEF CallReached, Imports, Resolves, Found
<1>8. CASE Return
  <2>1. UNCHANGED <<imports, maxFiles, call, files>> /\ call = NoFile
        /\ (result' = "limit" => result = "limit")
    BY <1>8 DEF Return, options
  <2>2. QED
    BY <2>1 DEF OnlyReached, CallReached, Imports, Resolves, Found, Listed
<1>9. QED
  BY <1>1, <1>2, <1>3, <1>4, <1>5, <1>6, <1>7, <1>8 DEF Next

\* Nothing is listed that cannot be reached from the entry, and the limit is reported only
\* when another file is imported.
THEOREM GraphReached == Spec => []OnlyReached
<1>1. Init => OnlyReached /\ CallReached
  BY DEF Init, OnlyReached, CallReached
<1>2. WalkInv /\ (OnlyReached /\ CallReached) /\ [Next]_graphVars
         => (OnlyReached /\ CallReached)'
  BY ReachedStep
<1>3. QED
  BY <1>1, <1>2, WalkInvariant, PTL DEF Spec
================================================================================
