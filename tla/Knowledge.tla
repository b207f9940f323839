----------------------------- MODULE Knowledge -----------------------------
(***************************************************************************)
(* The document index of a workspace (internal/knowledge): the folder,     *)
(* which others write at any moment, the index in memory and the one on    *)
(* disk, and the run that brings them together.  A run holds the store's   *)
(* lock from its walk to its save, and searches wait for it.               *)
(*                                                                         *)
(* A file is its contents and its timestamp; its size tells nothing more,  *)
(* as contents that differ may have one size.  What a provider returns for *)
(* the passages of a file is its contents again.                           *)
(***************************************************************************)
EXTENDS Naturals, FiniteSets

CONSTANTS
    Documents,      \* how many documents there may be: 1..Documents, in the order of their paths
    Contents,       \* what a document may say
    MaxEdits,       \* bound: changes to the folder
    MaxReopens      \* bound: reopens of the daemon

ASSUME KnowledgeAssumption == {Documents, MaxEdits, MaxReopens} \subseteq Nat

VARIABLES
    folder,         \* the documents there are: [says, time]
    cached,         \* Store.ix, if it is loaded: per document its hash and timestamp
    loaded,         \* it is
    onDisk,           \* the index on disk
    dirty,          \* Store.dirty
    run,            \* idle, or the document the run comes to next
    seen,           \* what the run's walk found: the timestamps
    settled,        \* history: nothing changed or was passed over since the last walk, and its run succeeded
    edits, reopens

indexVars == <<cached, loaded, onDisk, dirty, run, seen, settled>>
knowledgeVars == <<folder, indexVars, edits, reopens>>

Docs == 1..Documents
AtRest == 0
Empty == [d \in {} |-> 0]
Entries == [says : Contents, time : 0..MaxEdits]
Less(f, D) == [d \in DOMAIN f \ D |-> f[d]]
With(f, d, e) == [x \in DOMAIN f \cup {d} |-> IF x = d THEN e ELSE f[x]]

KnowledgeInit ==
    /\ \E D \in SUBSET Docs : folder \in [D -> [says : Contents, time : {0}]]
    /\ cached = Empty /\ loaded = FALSE /\ onDisk = Empty /\ dirty = FALSE
    /\ run = AtRest /\ seen = Empty /\ settled = FALSE /\ edits = 0 /\ reopens = 0

IsIndex(f) == DOMAIN f \subseteq Docs /\ \A d \in DOMAIN f : f[d] \in Entries
KnowledgeTypeOK ==
    /\ IsIndex(folder) /\ IsIndex(cached) /\ IsIndex(onDisk)
    /\ DOMAIN seen \subseteq Docs /\ run \in 0..Documents + 1
    /\ {loaded, dirty, settled} \subseteq BOOLEAN /\ edits \in 0..MaxEdits /\ reopens \in 0..MaxReopens

-----------------------------------------------------------------------------
(* Someone writes a document, or only touches it, or takes it away. *)
Changed == edits < MaxEdits /\ edits' = edits + 1 /\ settled' = FALSE
           /\ UNCHANGED <<cached, loaded, onDisk, dirty, run, seen, reopens>>
WriteDoc(d) == Changed /\ \E c \in Contents : folder' = With(folder, d, [says |-> c, time |-> edits + 1])
RemoveDoc(d) == d \in DOMAIN folder /\ folder' = Less(folder, {d}) /\ Changed

(* load *)
Index == IF loaded THEN cached ELSE onDisk

\* Fault: what a run has changed stays in memory.
GiveUpKeeps(ix, changed) ==
    /\ run' = AtRest /\ settled' = FALSE /\ dirty' = FALSE
    /\ loaded' = TRUE /\ cached' = ix
    /\ UNCHANGED <<folder, onDisk, seen, edits, reopens>>

(* A run that does not get to its save drops what it has changed. *)
GiveUp(ix, changed) ==
    /\ run' = AtRest /\ settled' = FALSE /\ dirty' = FALSE
    /\ loaded' = ~changed /\ cached' = IF changed THEN Empty ELSE ix
    /\ UNCHANGED <<folder, onDisk, seen, edits, reopens>>

(* Index: the folder is listed, and what it no longer has is dropped. *)
Begin ==
    /\ run = AtRest /\ run' = 1
    /\ seen' = [d \in DOMAIN folder |-> folder[d].time]
    /\ loaded' = TRUE /\ cached' = Less(Index, Docs \ DOMAIN folder)
    /\ dirty' = (cached' # Index) /\ settled' = TRUE
    /\ UNCHANGED <<folder, onDisk, edits, reopens>>
(* The folder cannot be listed: the index has been loaded for nothing. *)
BeginFails == run = AtRest /\ GiveUp(Index, FALSE)

(* One document, in the order of the paths.  What the walk did not find is  *)
(* not looked for; a timestamp the index knows is not looked behind; what   *)
(* cannot be read, or is gone since, is passed over.                        *)
ToNext == run' = run + 1 /\ UNCHANGED <<folder, loaded, onDisk, seen, edits, reopens>>
Known(d) == d \in DOMAIN cached
AsSeen(d) == Known(d) /\ cached[d].time = seen[d]
Visit(d) == run = d
Skip(d) ==
    /\ Visit(d) /\ (d \notin DOMAIN seen \/ AsSeen(d))
    /\ ToNext /\ UNCHANGED <<cached, dirty, settled>>
Unreadable(d) ==
    /\ Visit(d) /\ d \in DOMAIN seen /\ ~AsSeen(d)
    /\ settled' = FALSE /\ ToNext /\ UNCHANGED <<cached, dirty>>
Reads(d) == Visit(d) /\ d \in DOMAIN seen /\ ~AsSeen(d) /\ d \in DOMAIN folder
SaysTheSame(d) == Known(d) /\ cached[d].says = folder[d].says
\* The entry has the timestamp of the walk, and the contents of now.
Entered(d) == With(cached, d, [says |-> folder[d].says, time |-> seen[d]])
Touch(d) ==
    /\ Reads(d) /\ SaysTheSame(d)
    /\ cached' = Entered(d) /\ dirty' = TRUE /\ ToNext /\ UNCHANGED settled
Embed(d) ==
    /\ Reads(d) /\ ~SaysTheSame(d)
    /\ cached' = Entered(d) /\ dirty' = TRUE /\ ToNext /\ UNCHANGED settled
(* It cannot be split, is too much, or its passages cannot be embedded. *)
EmbedFails(d) == Reads(d) /\ ~SaysTheSame(d) /\ GiveUp(cached, dirty)

Ending == run = Documents + 1
Save ==
    /\ Ending /\ run' = AtRest
    /\ onDisk' = IF dirty THEN cached ELSE onDisk
    /\ dirty' = FALSE
    /\ UNCHANGED <<folder, cached, loaded, seen, settled, edits, reopens>>
SaveFails == Ending /\ dirty /\ GiveUp(cached, dirty)

(* Search, Stats, Paths: they load, under the same lock. *)
Search ==
    /\ run = AtRest /\ loaded' = TRUE /\ cached' = Index
    /\ UNCHANGED <<folder, onDisk, dirty, run, seen, settled, edits, reopens>>

Reopen ==
    /\ reopens < MaxReopens /\ reopens' = reopens + 1
    /\ loaded' = FALSE /\ cached' = Empty /\ dirty' = FALSE /\ run' = AtRest
    /\ settled' = (settled /\ run = AtRest)
    /\ UNCHANGED <<folder, onDisk, seen, edits>>

KnowledgeNext ==
    \/ \E d \in Docs : \/ WriteDoc(d) \/ RemoveDoc(d) \/ Skip(d) \/ Unreadable(d)
                       \/ Touch(d) \/ Embed(d) \/ EmbedFails(d)
    \/ Begin \/ BeginFails \/ Save \/ SaveFails \/ Search \/ Reopen

KnowledgeSpec == KnowledgeInit /\ [][KnowledgeNext]_knowledgeVars
-----------------------------------------------------------------------------
(* What is searched is what is saved: between runs the cache is nothing but *)
(* the index on disk.  Were it ahead, the next run would pass over what the *)
(* last one embedded and never persisted.                                   *)
CacheIsSaved == run = AtRest => ~dirty /\ (loaded => cached = onDisk)

(* A run that succeeded, with the folder at rest since its walk and nothing *)
(* passed over, leaves an index that says what the folder says, whatever    *)
(* changed under the runs before it, failed in them or was lost with them.  *)
IndexFollowsFolder ==
    settled /\ run = AtRest =>
        /\ DOMAIN onDisk = DOMAIN folder
        /\ \A d \in DOMAIN folder : onDisk[d].says = folder[d].says

KnowledgeHolds == KnowledgeTypeOK /\ CacheIsSaved /\ IndexFollowsFolder
=============================================================================
