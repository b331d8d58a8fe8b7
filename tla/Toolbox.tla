------------------------------ MODULE Toolbox ------------------------------
(***************************************************************************)
(* What a role is given when it asks to read (src/forge/tools.py).  A tree *)
(* is its paths with what the tools tell apart in them; a result is        *)
(* whether it was given, its first and last line, and its length in the    *)
(* units the window is counted in.                                         *)
(***************************************************************************)
EXTENDS Integers, FiniteSets, SequencesExt

CONSTANTS
    Kind,        \* of a path: text, python, binary, directory, missing, outside
    LineCount,   \* of a file that is text
    Defined,     \* of a file of Python: the span of each name; Garbled when it does not parse
    Entries,     \* of a directory: how many it lists
    Matching,    \* of a pattern: per path, how many lines match; Garbled when it is none
    Garbled,
    DefaultLines, MaxMatches, MaxEntries, MaxContext,  \* tools.py
    MaxResult,   \* MAX_RESULT_CHARS
    NoticeSize   \* a refusal

Refusal == [ok |-> FALSE, first |-> 0, last |-> 0, size |-> NoticeSize]
Given(first, last, size) == [ok |-> TRUE, first |-> first, last |-> last, size |-> size]

IsText(path) == Kind[path] \in {"text", "python"}

\* The path a model wrote is in the tree (absolute and escaping ones are outside).
Resolves(path) == Kind[path] # "outside"

\* What was not asked for, or not as a positive number, is the default.
Asked(n, default) == IF n > 0 THEN n ELSE default

\* A range beyond the end is clipped; one that begins beyond it is refused.  A
\* last line before the first gives none.
ReadFile(call) ==
    LET first == Asked(call.first, 1)
        wanted == Asked(call.last, first + DefaultLines - 1)
        last == IF wanted < LineCount[call.path] THEN wanted ELSE LineCount[call.path]
    IN IF ~Resolves(call.path) \/ ~IsText(call.path) \/ first > LineCount[call.path]
       THEN Refusal
       ELSE Given(first, last, IF last < first THEN 0 ELSE last + 1 - first)

\* A definition whole, by name, from a file of Python that parses.
ReadSymbol(call) ==
    IF \/ ~Resolves(call.path) \/ Kind[call.path] # "python"
       \/ Defined[call.path] = Garbled \/ call.name \notin DOMAIN Defined[call.path]
    THEN Refusal
    ELSE LET span == Defined[call.path][call.name]
         IN Given(span[1], span[2], span[2] + 1 - span[1])

\* Matching lines with their context, up to one match more than the limit.
Grep(call) ==
    IF Matching[call.pattern] = Garbled THEN Refusal
    ELSE LET found == FoldSet(LAMBDA path, n : n + Matching[call.pattern][path], 0,
                              {path \in DOMAIN Matching[call.pattern] : IsText(path)})
             shown == IF found > MaxMatches THEN MaxMatches ELSE found
             around == IF call.context < 0 THEN 0
                       ELSE IF call.context > MaxContext THEN MaxContext ELSE call.context
         IN Given(0, 0, IF shown = 0 THEN NoticeSize ELSE shown * (1 + 2 * around))

ListDir(call) ==
    IF Kind[call.path] # "directory" THEN Refusal
    ELSE Given(0, 0, IF Entries[call.path] > MaxEntries THEN MaxEntries ELSE Entries[call.path])

\* A result longer than the limit is cut and says so; every call has one, a call
\* of a tool that does not exist too.
Cut(result) ==
    IF result.size > MaxResult THEN [result EXCEPT !.size = MaxResult + NoticeSize] ELSE result

Run(call) ==
    Cut(CASE call.tool = "read_file" -> ReadFile(call)
          [] call.tool = "read_symbol" -> ReadSymbol(call)
          [] call.tool = "grep" -> Grep(call)
          [] call.tool = "list_dir" -> ListDir(call)
          [] OTHER -> Refusal)
=============================================================================
