------------------------------- MODULE Reply -------------------------------
(***************************************************************************)
(* What a role's reply says and what becomes of it: which files it sends   *)
(* (src/forge/patch.py), whether they were sent readably, and what the     *)
(* files that land lose or dangle (src/forge/manifests.py, imports.py).    *)
(*                                                                         *)
(* A file is the set of its lines.  A block of a reply is a file whole, or *)
(* the lines to look for in it and what to put in their place.             *)
(***************************************************************************)
EXTENDS Integers, FiniteSets, SequencesExt

CONSTANTS
    Files, Absent,
    Lines,         \* the lines a file may hold
    Manifests,     \* the build manifests among them
    Dependencies,  \* the lines of a manifest that declare something
    Garble,        \* a line with which a file does not parse
    Marker,        \* the lines that mark a search and its replacement
    Repeated,      \* the lines that occur in a file more than once
    ImportOf,      \* of a line that imports: the paths it may mean
    Untestable,    \* the files no test can be about
    TestFiles,     \* test files by their path
    Foreign,       \* a line that binds the code under test as a foreign library
    Helper, Through,  \* a line that defines a reshaping helper, and one that asserts through it
    Refused

\* A block: the path it is sent under, where the path stands, whether its fence
\* is too short for what it holds, its lines or its searches.
Block(path, where, short, content, hunks) ==
    [path |-> path, where |-> where, short |-> short, content |-> content, hunks |-> hunks]
Hunk(search, replace) == [search |-> search, replace |-> replace]

\* A reply: what it declares, its blocks in order, whether it names a file it
\* does not fence, whether it is a tool call written out, whether it was cut.
ReplyOf(says, blocks, bare, call, cut) ==
    [says |-> says, blocks |-> blocks, bare |-> bare, call |-> call, cut |-> cut]

Content == SUBSET Lines
HunkRecord == [search : Lines, replace : Content]
BlockRecord == [path : Files, where : {"above", "inside", "nowhere"}, short : BOOLEAN,
                content : Content, hunks : Seq(HunkRecord)]
EditRecord == [path : Files, content : Content, hunks : Seq(HunkRecord)]

ASSUME ReplyAssumption ==
    /\ \A content \in Content : content # Absent /\ content # Refused
    /\ Marker \in Lines

Parsed(edits, truncated, blocked, impossible) ==
    [edits |-> edits, truncated |-> truncated, blocked |-> blocked, impossible |-> impossible]

\* The elements of a sequence at some of its places, in their order.
Pick(seq, S) ==
    LET order == CHOOSE o \in [1..Cardinality(S) -> S] :
                    \A i, j \in 1..Cardinality(S) : i < j => o[i] < o[j]
    IN [i \in 1..Cardinality(S) |-> seq[order[i]]]

-----------------------------------------------------------------------------
(* Reading a reply.                                                        *)

Literal(b) ==
    IF b.hunks = <<>> THEN b.content
    ELSE {Marker} \cup UNION {{b.hunks[i].search} \cup b.hunks[i].replace : i \in DOMAIN b.hunks}

Edit(b) == [path |-> b.path, content |-> b.content, hunks |-> b.hunks]

\* A path inside the fence: what follows it is the file, searches included.
Verbatim(b) == [path |-> b.path, content |-> Literal(b), hunks |-> <<>>]

\* What an edit is compared by: its lines, or its replacements alone.
Sent(e) == IF e.hunks = <<>> THEN <<e.content>> ELSE [i \in DOMAIN e.hunks |-> e.hunks[i].replace]
LinesOf(e) == UNION {Sent(e)[i] : i \in DOMAIN Sent(e)}

\* An edit is dropped that says what the one before it on its path said.
DropRepeats(edits) ==
    LET before(i) == {j \in DOMAIN edits : j < i /\ edits[j].path = edits[i].path}
        last(i) == CHOOSE j \in before(i) : \A k \in before(i) : k <= j
    IN Pick(edits, {i \in DOMAIN edits :
                      before(i) = {} \/ Sent(edits[last(i)]) # Sent(edits[i])})

Standing(r, where) == Pick(r.blocks, {i \in DOMAIN r.blocks : r.blocks[i].where = where})
Above(r) == Standing(r, "above")
Inside(r) == Standing(r, "inside")
Whole(blocks) == Pick(blocks, {i \in DOMAIN blocks : ~blocks[i].short})
Short(blocks) == {blocks[i].path : i \in {j \in DOMAIN blocks : blocks[j].short}}

\* The paths before the fences, or else inside them.
Sending(r) ==
    IF Above(r) # <<>>
    THEN Parsed(DropRepeats([i \in DOMAIN Whole(Above(r)) |-> Edit(Whole(Above(r))[i])]),
                Short(Above(r)), FALSE, r.says = "impossible")
    ELSE Parsed(DropRepeats([i \in DOMAIN Whole(Inside(r)) |-> Verbatim(Whole(Inside(r))[i])]),
                Short(Inside(r)), FALSE, FALSE)

\* A declaration the reply begins with is all there is to it; one further down
\* is that when no block has a path before it.  One that gives no reason on its
\* line declares nothing, and the blocks with their path inside are not read.
Parse(r) ==
    CASE r.says = "blockedFirst" -> Parsed(<<>>, {}, TRUE, FALSE)
      [] r.says = "impossibleFirst" -> Parsed(<<>>, {}, FALSE, TRUE)
      [] r.says = "blocked" /\ Above(r) = <<>> -> Parsed(<<>>, {}, TRUE, FALSE)
      [] r.says = "impossible" /\ Above(r) = <<>> -> Parsed(<<>>, {}, FALSE, TRUE)
      [] r.says = "bare" /\ Above(r) = <<>> -> Parsed(<<>>, {}, FALSE, FALSE)
      [] OTHER -> Sending(r)

IsEmpty(p) == p.edits = <<>> /\ ~p.blocked /\ ~p.impossible

\* (mutant) a tool call written out is a reply with nothing to write
DescribedFences(r) == Above(r) = <<>> /\ (r.bare \/ r.blocks # <<>>)

\* There is something to say about a reply no file came of.
Described(r) == Above(r) = <<>> /\ (r.call \/ r.bare \/ r.blocks # <<>>)

NamesAFile(r) == Above(r) # <<>> \/ r.bare

DuplicatePaths(p) ==
    {p.edits[i].path : i \in {j \in DOMAIN p.edits :
                                \E k \in DOMAIN p.edits : k < j /\ p.edits[k].path = p.edits[j].path}}

Malformed(p, r) ==
    IF p.blocked THEN FALSE
    ELSE IF p.truncated # {} /\ p.edits = <<>> THEN TRUE
    ELSE IF IsEmpty(p) THEN Described(r)
    ELSE DuplicatePaths(p) # {}

\* The longest block, when it holds four fifths of what is on disk.
Inferred(r, current) ==
    LET size(b) == Cardinality(Literal(b))
        longest == {i \in DOMAIN r.blocks :
                      \A j \in DOMAIN r.blocks :
                        size(r.blocks[j]) < size(r.blocks[i])
                          \/ (size(r.blocks[j]) = size(r.blocks[i]) /\ i <= j)}
    IN IF current = Absent \/ current = {} \/ longest = {} THEN Refused
       ELSE LET body == Literal(r.blocks[CHOOSE i \in longest : TRUE])
            IN IF 5 * Cardinality(current \cap body) < 4 * Cardinality(current) THEN Refused
               ELSE body

-----------------------------------------------------------------------------
(* Landing it.                                                             *)

\* A ticket that writes one file, a reply that holds it without saying so.
RecoverUnlabelled(r, scope, disk) ==
    IF Cardinality(scope) # 1 THEN Refused
    ELSE LET path == CHOOSE f \in scope : TRUE
             body == Inferred(r, disk[path])
         IN IF body = Refused THEN Refused
            ELSE Parsed(<<[path |-> path, content |-> body, hunks |-> <<>>]>>, {}, FALSE, FALSE)

\* (mutant) whatever a reply names is written
Everything(p, scope, never) == p.edits

InScope(p, scope, never) ==
    Pick(p.edits, {i \in DOMAIN p.edits : p.edits[i].path \in scope \ never})

\* Every search has to match once in the file as the ones before it left it.
Replace(body, h) ==
    IF body = Refused \/ h.search \notin body \/ h.search \in Repeated THEN Refused
    ELSE (body \ {h.search}) \cup h.replace

Replaced(content, hunks) ==
    LET body[i \in 0..Len(hunks)] ==
          IF i = 0 THEN IF content = Absent THEN Refused ELSE content
          ELSE Replace(body[i - 1], hunks[i])
    IN body[Len(hunks)]

Body(disk, e) == IF e.hunks = <<>> THEN e.content ELSE Replaced(disk[e.path], e.hunks)

\* One file after another; a refusal leaves those before it written.
Apply(done, e) ==
    IF done.torn \/ Body(done.disk, e) = Refused THEN [done EXCEPT !.torn = TRUE]
    ELSE [done EXCEPT !.disk[e.path] = Body(done.disk, e), !.written = @ \cup {e.path}]

ApplyEdits(disk, edits) ==
    LET done[i \in 0..Len(edits)] ==
          IF i = 0 THEN [disk |-> disk, written |-> {}, torn |-> FALSE]
          ELSE Apply(done[i - 1], edits[i])
    IN done[Len(edits)]

\* What a manifest declares, when it can be read at all.
Declared(content) ==
    IF content = Absent \/ Garble \in content THEN Absent ELSE content \cap Dependencies

Dropped(before, after) ==
    IF Declared(before) = Absent \/ Declared(after) = Absent THEN {}
    ELSE Declared(before) \ Declared(after)

\* (mutant) the manifests are read for the first time once the reply has landed
ReadLate(before, after, paths) == UNION {Dropped(after[f], after[f]) : f \in paths \cap Manifests}

\* The manifests a reply writes are read before it lands, and after.
Losses(before, after, paths) ==
    UNION {Dropped(before[f], after[f]) : f \in paths \cap Manifests}

\* An import of a file that lands means nothing on disk and nothing any ticket
\* is to write; a file that does not parse imports nothing.
Targets(content) == IF Garble \in content THEN {} ELSE content \cap DOMAIN ImportOf
Unresolved(disk, written, owned) ==
    {e \in written \X DOMAIN ImportOf :
        /\ e[2] \in Targets(disk[e[1]])
        /\ \A path \in ImportOf[e[2]] : path \notin owned /\ (path \in Files => disk[path] = Absent)}

-----------------------------------------------------------------------------
(* A test that checks what it says.                                        *)

ForeignBindings(lines) == lines \cap Foreign
Laundered(lines) == {Helper, Through} \subseteq lines

\* A criterion's own call is asserted against something else than its value.
Weakened(lines, criteria) == {c \in criteria : c.call \in lines /\ c.value \notin lines}

Honest(lines, criteria) ==
    ForeignBindings(lines) = {} /\ ~Laundered(lines) /\ Weakened(lines, criteria) = {}

\* Where a ticket's tests go: the test file it may write, else a file of its own
\* when it wrote something a test can be about.
TestTarget(scope, written, own) ==
    LET designated == scope \cap TestFiles
    IN IF designated # {} THEN CHOOSE f \in designated : TRUE
       ELSE IF written \subseteq Untestable THEN Absent ELSE own
=============================================================================
