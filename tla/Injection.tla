------------------------------ MODULE Injection ------------------------------
(***************************************************************************)
(* How the sub-agent hook (inject-subagent-context.py) assembles the       *)
(* context of one agent: the files and folders of the task's manifest,     *)
(* then the task's artifacts, one after another.  A file that is too long  *)
(* is cut at a cap, without splitting a UTF-8 character; a file that would *)
(* exceed the total is replaced by a notice.                               *)
(*                                                                         *)
(* A file's content is a sequence of byte classes.                         *)
(***************************************************************************)
EXTENDS Naturals, Sequences, FiniteSets

CONSTANTS Places,             \* directories items lie in
          FileNames,          \* names of items
          Contents,           \* what files may hold
          None,               \* what is read where no file is
          MaxFileBytes,       \* the limits; 0 is none
          MaxArtifactBytes,
          MaxTotalBytes,
          MaxFiles,           \* of a folder
          HeaderBytes,        \* length of a block's header
          NoticeBytes         \* length of a notice

VARIABLES phase,    \* "idle", "entries" or "artifacts"
          todo,     \* the items still to be read
          used,     \* _Budget.used
          blocks,   \* the blocks of the context so far
          inlined   \* history: the bytes of those with file content

injectionVars == <<phase, todo, used, blocks, inlined>>

Byte == {"ascii", "nul", "lead2", "lead3", "lead4", "more"}
Item == [kind : {"file", "folder", "artifact"}, dir : Places, name : FileNames]
File == [kind : {"file"}, dir : Places, name : FileNames]

\* What users of this module assume of its constants.
InjectionAssumption ==
    /\ Contents \subseteq Seq(Byte) /\ None \notin Contents
    /\ {MaxFileBytes, MaxArtifactBytes, MaxTotalBytes, MaxFiles,
        HeaderBytes, NoticeBytes} \subseteq Nat

-----------------------------------------------------------------------------
(* Characters.                                                             *)

Width(b) == CASE b = "lead2" -> 2 [] b = "lead3" -> 3 [] b = "lead4" -> 4 [] OTHER -> 1

\* The last position up to n that is not a continuation byte, 0 if none.
LastStart(data, n) ==
    CHOOSE i \in 0..n :
        /\ i = 0 \/ data[i] # "more"
        /\ \A k \in (i + 1)..n : data[k] = "more"

\* The character that begins at i is all there.
Complete(data, i) ==
    /\ i + Width(data[i]) - 1 <= Len(data)
    /\ \A k \in (i + 1)..(i + Width(data[i]) - 1) : data[k] = "more"

\* Position i belongs to the character that begins at the last start.
Reaches(data, i) ==
    LET j == LastStart(data, i) IN j > 0 /\ i < j + Width(data[j])

Whole(data, i) == Reaches(data, i) /\ Complete(data, LastStart(data, i))

IsText(data) == \A i \in DOMAIN data : Whole(data, i)

\* _is_binary_content.
Binary(data) == ~IsText(data) \/ \E i \in DOMAIN data : data[i] = "nul"

\* Bytes after decoding with errors="replace": three for each piece that is
\* not a character.
DecodedBytes(data) ==
    LET good == {i \in DOMAIN data : Whole(data, i)}
        bad == {i \in DOMAIN data \ good : data[i] # "more" \/ ~Reaches(data, i)}
    IN  Cardinality(good) + 3 * Cardinality(bad)

(* Mutation: the lead byte that was found is taken for the character. *)
CutInside(data, cap) ==
    IF cap = 0 \/ Len(data) <= cap THEN Len(data) ELSE LastStart(data, cap)

\* truncate_utf8: how much is kept.  The lead byte is dropped if its
\* character did not fit; if it did, only the lead byte is kept.
Cut(data, cap) ==
    IF cap = 0 \/ Len(data) <= cap THEN Len(data)
    ELSE LET i == LastStart(data, cap)
         IN  IF i > 0 /\ (i - 1) + Width(data[i]) > cap THEN i - 1 ELSE i

Truncate(data, cap) == SubSeq(data, 1, Cut(data, cap))

-----------------------------------------------------------------------------
(* Blocks.                                                                 *)

Cap(item) == IF item.kind = "artifact" THEN MaxArtifactBytes ELSE MaxFileBytes

Given(item, data) == Truncate(data, Cap(item))

BlockBytes(item, data) ==
    HeaderBytes + DecodedBytes(Given(item, data))
        + (IF Len(Given(item, data)) < Len(data) THEN NoticeBytes ELSE 0)

(* Mutation: the budget is only closed once it has been overdrawn. *)
HasRoomLeft(size) == MaxTotalBytes = 0 \/ used <= MaxTotalBytes

HasRoom(size) == MaxTotalBytes = 0 \/ used + size <= MaxTotalBytes

Block(item, how, data) == [item |-> item, how |-> how, data |-> data]

\* The block that says that the manifest has no curated entry.
Uncurated == [how |-> "uncurated"]

Notice(how, data) ==
    /\ used' = used + NoticeBytes
    /\ blocks' = Append(blocks, Block(Head(todo), how, data))
    /\ UNCHANGED inlined

Inline(data) ==
    LET size == BlockBytes(Head(todo), data)
    IN  /\ used' = used + size
        /\ inlined' = inlined + size
        /\ blocks' = Append(blocks, Block(Head(todo), "inlined", data))

\* _materialize_file and _materialize_artifact; only a file of the manifest
\* may be binary.
Materialize(data) ==
    LET item == Head(todo)
    IN  \/ /\ data = None
           /\ UNCHANGED <<used, blocks, inlined>>
        \/ /\ data # None /\ item.kind = "file" /\ Binary(data)
           /\ Notice("binary", data)
        \/ /\ data # None
           /\ item.kind = "file" => ~Binary(data)
           /\ IF HasRoom(BlockBytes(item, data)) THEN Inline(data)
              ELSE Notice("full", data)

-----------------------------------------------------------------------------
(* Steps.                                                                  *)

\* read_jsonl_entries.
Begin(entries) ==
    /\ phase = "idle" /\ phase' = "entries"
    /\ todo' = entries
    /\ UNCHANGED <<used, blocks, inlined>>

TakeFile(data) ==
    /\ todo # <<>> /\ Head(todo).kind # "folder"
    /\ Materialize(data)
    /\ todo' = Tail(todo)
    /\ UNCHANGED phase

\* _materialize_directory: the first files of a folder, and not a word about
\* the others.
TakeFolder(files) ==
    /\ todo # <<>> /\ Head(todo).kind = "folder"
    /\ todo' = SubSeq(files, 1, IF Len(files) < MaxFiles THEN Len(files) ELSE MaxFiles)
                   \o Tail(todo)
    /\ UNCHANGED <<phase, used, blocks, inlined>>

\* get_agent_context: the notice that there was no entry is not budgeted.
EndEntries(artifacts) ==
    /\ phase = "entries" /\ todo = <<>> /\ phase' = "artifacts"
    /\ todo' = artifacts
    /\ blocks' = IF blocks = <<>> THEN <<Uncurated>> ELSE blocks
    /\ UNCHANGED <<used, inlined>>

\* The context is complete.
Ready == phase = "artifacts" /\ todo = <<>>

\* The prompt is built and handed to the host, and the hook ends.
Deliver ==
    /\ Ready /\ phase' = "idle"
    /\ used' = 0 /\ blocks' = <<>> /\ inlined' = 0
    /\ UNCHANGED todo

Init ==
    /\ phase = "idle" /\ todo = <<>>
    /\ used = 0 /\ blocks = <<>> /\ inlined = 0

Next ==
    \/ todo' \in Seq(Item) /\ Begin(todo')
    \/ \E data \in Contents \cup {None} : TakeFile(data)
    \/ \E files \in Seq(File) : TakeFolder(files)
    \/ todo' \in Seq(Item) /\ EndEntries(todo')
    \/ Deliver

Spec == Init /\ [][Next]_injectionVars

-----------------------------------------------------------------------------
(* Properties.                                                             *)

(* What the hook knows of its progress is of the right kind.               *)
TypeOK ==
    /\ phase \in {"idle", "entries", "artifacts"}
    /\ todo \in Seq(Item)
    /\ used \in Nat /\ inlined \in Nat
    /\ blocks \in Seq([item : Item, how : {"binary", "full", "inlined"}, data : Contents]
                          \cup {Uncurated})

(* The content of all files together stays within the total limit; only    *)
(* notices may exceed it.                                                  *)
WithinBudget ==
    /\ inlined <= used
    /\ MaxTotalBytes > 0 => inlined <= MaxTotalBytes

\* As much of data as is at most cap bytes and whole characters.
LongestWhole(data, cap) ==
    CHOOSE n \in 0..cap :
        /\ IsText(SubSeq(data, 1, n))
        /\ \A m \in (n + 1)..cap : ~IsText(SubSeq(data, 1, m))

\* A character of several bytes ends exactly at the cap.
EndsAt(data, cap) == data[cap] = "more" /\ data[cap + 1] # "more"

(* A text longer than its cap is cut to the longest run of whole           *)
(* characters that fits, except where a character of several bytes ends    *)
(* exactly at the cap: there the cut falls behind its lead byte, which the *)
(* agent sees as a replacement character, of three bytes.                  *)
CutsWholeCharacters ==
    \A n \in DOMAIN blocks : blocks[n].how = "inlined" =>
        LET data == blocks[n].data
            cap == Cap(blocks[n].item)
        IN  cap > 0 /\ Len(data) > cap /\ IsText(data) =>
                IF EndsAt(data, cap)
                THEN Cut(data, cap) = LastStart(data, cap)
                     /\ ~IsText(Truncate(data, cap))
                     /\ DecodedBytes(Truncate(data, cap)) <= cap + 1
                ELSE Cut(data, cap) = LongestWhole(data, cap)
=============================================================================
