------------------------------ MODULE SourceGraph ------------------------------
(***************************************************************************)
(* core/evidence/source-graph.ts: the files a screen is made of, collected *)
(* by walking the relative imports of its entry file, depth first, with a  *)
(* limit on the depth and on the number of files.  One action is one       *)
(* readFile or one resolution of an import; the recursion of walk() is a   *)
(* stack, whose height is the depth.                                       *)
(***************************************************************************)
EXTENDS Integers, Sequences, FiniteSets

CONSTANTS
    Paths,            \* everything that can be named
    Existing,         \* the paths access() finds: files, and ...
    Unreadable,       \* ... those readFile() fails for: directories, files deleted since
    Entry,            \* options.entry
    Graphs,           \* the import statements there may be in the files
    Depths, Limits    \* values of maxDepth and maxFiles

\* A specifier is the sequence of its candidates: the path itself, without .js, with the
\* entry extensions, and as the index file of a directory.
Specifiers == Seq(Paths)
NoFile == "no file"

ASSUME GraphAssumption ==
    /\ NoFile \notin Paths
    /\ Existing \subseteq Paths /\ Unreadable \subseteq Existing /\ Entry \in Existing
    /\ \A imports \in Graphs : imports \in [Paths -> Seq(Specifiers)]
    /\ Depths \subseteq Int /\ Limits \subseteq Int

VARIABLES
    imports,          \* findRelativeImports of each file
    maxDepth, maxFiles,
    call,             \* the file walk() has just been called with, or NoFile
    stack,            \* the calls of walk() in their loop: the file, and the next import
    files,            \* the files collected; the set visited has the same elements
    truncated, result

options == <<imports, maxDepth, maxFiles>>
graphVars == <<options, call, stack, files, truncated, result>>

Listed == {files[n] : n \in DOMAIN files}

Init ==
    /\ imports \in Graphs /\ maxDepth \in Depths /\ maxFiles \in Limits
    /\ call = NoFile /\ stack = <<>> /\ files = <<>>
    /\ truncated = FALSE
    /\ result = "none"

\* buildSourceGraph up to its call of collectGraph: the extension, the source of the entry
\* file, and the two limits
Start ==
    /\ result = "none"
    /\ \/ /\ result' \in {"unsupported", "malformed", "threw"}
          /\ UNCHANGED call
       \/ /\ maxDepth < 1 /\ result' = "depth" /\ UNCHANGED call
       \/ /\ maxDepth >= 1 /\ maxFiles < 1 /\ result' = "limit" /\ UNCHANGED call
       \/ /\ maxDepth >= 1 /\ maxFiles >= 1 /\ Entry \notin Unreadable
          /\ result' = "walking" /\ call' = Entry
    /\ UNCHANGED <<options, stack, files, truncated>>

\* mutant: the limit is looked at before visited
WalkLimitFirst ==
    /\ result = "walking" /\ call # NoFile
    /\ Len(files) >= maxFiles
    /\ result' = "limit"
    /\ UNCHANGED <<options, call, stack, files, truncated>>

\* walk() fails with the limit, and so do all the calls below it
WalkLimit ==
    /\ result = "walking" /\ call # NoFile
    /\ call \notin Listed /\ Len(files) >= maxFiles
    /\ result' = "limit"
    /\ UNCHANGED <<options, call, stack, files, truncated>>

\* walk() returns at once
WalkVisited ==
    /\ result = "walking" /\ call # NoFile
    /\ call \in Listed
    /\ call' = NoFile
    /\ UNCHANGED <<options, stack, files, truncated, result>>

\* the file is listed before it is read
WalkThrows ==
    /\ result = "walking" /\ call # NoFile
    /\ call \notin Listed /\ Len(files) < maxFiles
    /\ files' = Append(files, call)
    /\ call \in Unreadable
    /\ result' = "threw"
    /\ UNCHANGED <<options, call, stack, truncated>>

\* mutant: a file at the last level without imports takes the mark back
WalkFileForgets ==
    /\ result = "walking" /\ call # NoFile
    /\ call \notin Listed /\ Len(files) < maxFiles /\ call \notin Unreadable
    /\ files' = Append(files, call)
    /\ IF Len(stack) + 1 >= maxDepth
       THEN /\ truncated' = (Len(imports[call]) > 0)
            /\ UNCHANGED stack
       ELSE /\ stack' = Append(stack, [file |-> call, next |-> 1])
            /\ UNCHANGED truncated
    /\ call' = NoFile
    /\ UNCHANGED <<options, result>>

\* mutant: visited is not asked
WalkFileAgain ==
    /\ result = "walking" /\ call # NoFile
    /\ Len(files) < maxFiles /\ call \notin Unreadable
    /\ files' = Append(files, call)
    /\ IF Len(stack) + 1 >= maxDepth
       THEN /\ truncated' = (truncated \/ Len(imports[call]) > 0)
            /\ UNCHANGED stack
       ELSE /\ stack' = Append(stack, [file |-> call, next |-> 1])
            /\ UNCHANGED truncated
    /\ call' = NoFile
    /\ UNCHANGED <<options, result>>

\* the file is listed and read; at the last level its imports are left out
WalkFile ==
    /\ result = "walking" /\ call # NoFile
    /\ call \notin Listed /\ Len(files) < maxFiles /\ call \notin Unreadable
    /\ files' = Append(files, call)
    /\ IF Len(stack) + 1 >= maxDepth
       THEN /\ truncated' = (truncated \/ Len(imports[call]) > 0)
            /\ UNCHANGED stack
       ELSE /\ stack' = Append(stack, [file |-> call, next |-> 1])
            /\ UNCHANGED truncated
    /\ call' = NoFile
    /\ UNCHANGED <<options, result>>

--------------------------------------------------------------------------------

Found(specifier) == {n \in DOMAIN specifier : specifier[n] \in Existing}

\* resolveImport: path is the first of the candidates that exists
Resolves(specifier, path) ==
    \E n \in Found(specifier) : /\ specifier[n] = path
                                /\ \A other \in Found(specifier) : n <= other

Top == stack[Len(stack)]
More == stack # <<>> /\ Top.next <= Len(imports[Top.file])
Advance == stack' = [stack EXCEPT ![Len(stack)].next = @ + 1]

\* the loop over the imports: one that is not found is passed over
NextImport ==
    /\ result = "walking" /\ call = NoFile /\ More
    /\ LET specifier == imports[Top.file][Top.next] IN
          \/ Found(specifier) = {} /\ UNCHANGED call
          \/ \E path \in Paths : Resolves(specifier, path) /\ call' = path
    /\ Advance
    /\ UNCHANGED <<options, files, truncated, result>>

\* the loop is through: walk() returns to the call below it, or to collectGraph
Return ==
    /\ result = "walking" /\ call = NoFile /\ ~More
    /\ IF stack = <<>> THEN result' = "ok" /\ UNCHANGED stack
       ELSE stack' = SubSeq(stack, 1, Len(stack) - 1) /\ UNCHANGED result
    /\ UNCHANGED <<options, call, files, truncated>>

Next ==
    \/ Start
    \/ WalkLimit \/ WalkVisited \/ WalkThrows \/ WalkFile
    \/ NextImport \/ Return

Spec == Init /\ [][Next]_graphVars

--------------------------------------------------------------------------------
(* Properties.                                                               *)

\* file has an import statement that resolves to path
Imports(file, path) == \E n \in DOMAIN imports[file] : Resolves(imports[file][n], path)

\* A graph that is not marked as truncated is complete: the entry is listed, and with a
\* file everything its imports resolve to, however the walk came to the file.
CompleteUnlessTruncated ==
    result = "ok" /\ ~truncated =>
        /\ Entry \in Listed
        /\ \A file \in Listed, path \in Paths : Imports(file, path) => path \in Listed

\* Nothing but what can be reached from the entry is listed, no more than maxFiles, and the
\* failure ERR_GRAPH_FILE_LIMIT_EXCEEDED is real: another file is imported.
OnlyReached ==
    /\ \A n \in DOMAIN files : files[n] = Entry \/ \E m \in 1..n - 1 : Imports(files[m], files[n])
    /\ files # <<>> => Len(files) <= maxFiles
    /\ result = "limit" /\ files # <<>> =>
          /\ Len(files) = maxFiles
          /\ \E file \in Listed, path \in Paths \ Listed : Imports(file, path)

Frames == [file : Paths, next : Nat \ {0}]

WalkTypes ==
    /\ imports \in [Paths -> Seq(Specifiers)] /\ maxDepth \in Int /\ maxFiles \in Int
    /\ call \in Paths \cup {NoFile}
    /\ stack \in Seq(Frames)
    /\ files \in Seq(Paths) /\ truncated \in BOOLEAN
    /\ result \in {"none", "unsupported", "malformed", "depth", "limit", "threw", "walking", "ok"}

ListedOnce == \A m, n \in DOMAIN files : files[m] = files[n] => m = n

EntryKept == result \in {"walking", "ok"} => Entry \in Listed \cup {call}

Fresh == result = "none" => call = NoFile /\ stack = <<>> /\ files = <<>>

Drained == result = "ok" => call = NoFile /\ stack = <<>>

StackListed == \A n \in DOMAIN stack : stack[n].file \in Listed

\* a call of walk() for file has its import number n before it
ToCome(file, n) == \E k \in DOMAIN stack : stack[k].file = file /\ stack[k].next <= n

Covered ==
    result \in {"walking", "ok"} /\ ~truncated =>
        \A file \in Listed : \A n \in DOMAIN imports[file] : \A path \in Paths :
           Resolves(imports[file][n], path) => path \in Listed \cup {call} \/ ToCome(file, n)

\* Nothing is listed twice, and each import of a listed file is listed, is about to be
\* walked, comes later in the loop of a call on the stack, or is marked as left out.
WalkInv == WalkTypes /\ ListedOnce /\ EntryKept /\ Fresh /\ Drained /\ StackListed /\ Covered
================================================================================
