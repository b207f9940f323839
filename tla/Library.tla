------------------------------ MODULE Library ------------------------------
(***************************************************************************)
(* The catalog a daemon installs from (internal/library): the copy in      *)
(* hand, the one cached on disk, and the memory of serials that keeps a    *)
(* signed entry from going backwards (freshness.go).  Devices ask for the  *)
(* catalog on their own goroutines; nothing holds a lock across a fetch.   *)
(*                                                                         *)
(* One entry stands for all.  A catalog is the serial it offers the entry  *)
(* at, Bare if it does not offer it; a set of at most one catalog says     *)
(* that there may be none.  The source is remote, so every entry is signed *)
(* and those that are not never get here (signature.go).                   *)
(***************************************************************************)
EXTENDS Naturals, FiniteSets

CONSTANTS
    Lookups,        \* goroutines that ask for the catalog
    MaxSerial,      \* bound: serials 1..MaxSerial
    Unfit,          \* serials whose payloads this build cannot read
    MaxRestarts     \* bound: restarts of the daemon

ASSUME LibraryAssumption ==
    MaxSerial \in Nat \ {0} /\ MaxRestarts \in Nat /\ Unfit \subseteq 1..MaxSerial

VARIABLES
    published,      \* the newest serial the source has had; it may serve any older catalog
    held,           \* Store.catalog
    cache,          \* the copy on disk, if it can be read
    floor,          \* freshness.seen, 0 if the entry was never seen
    floorOnDisk,    \* its file
    stage,             \* per lookup: where it is
    copy,           \* per lookup: what was held when it began
    got,            \* per lookup: what it parses, installs and returns
    answer,         \* history: the last answer, the one before it, where it is from, and the most there was
    calm,           \* history: lookups did not overlap, and each floor that was raised was written
    saved,          \* history: calm, and every catalog was cached before the daemon could stop
    restarts

libraryVars == <<published, held, cache, floor, floorOnDisk, stage, copy, got, answer, calm, saved,
                 restarts>>

Bare == 0
Catalogs == 0..MaxSerial
NoCopy == {}
Stages == {"away", "fetching", "checking", "raising", "taking", "caching"}

NoAnswer == [now |-> Bare, before |-> Bare, from |-> "source", most |-> Bare]

LibraryInit ==
    /\ published = 1 /\ held = NoCopy /\ cache = NoCopy /\ floor = 0 /\ floorOnDisk = 0
    /\ stage = [r \in Lookups |-> "away"] /\ copy = [r \in Lookups |-> NoCopy]
    /\ got = [r \in Lookups |-> [serial |-> Bare, from |-> "disk"]]
    /\ answer = NoAnswer /\ calm = TRUE /\ saved = TRUE /\ restarts = 0

Copies == {C \in SUBSET Catalogs : Cardinality(C) <= 1}
Origins == {"source", "disk"}
LibraryTypeOK ==
    /\ {published, floor, floorOnDisk} \subseteq Catalogs /\ {held, cache} \subseteq Copies
    /\ stage \in [Lookups -> Stages] /\ copy \in [Lookups -> Copies]
    /\ got \in [Lookups -> [serial : Catalogs, from : Origins]]
    /\ answer \in [now : Catalogs, before : Catalogs, from : Origins \cup {"hand"}, most : Catalogs]
    /\ {calm, saved} \subseteq BOOLEAN /\ restarts \in 0..MaxRestarts

-----------------------------------------------------------------------------
Advances(r, from, to) == stage[r] = from /\ stage' = [stage EXCEPT ![r] = to]
Hold(r, s) == got' = [got EXCEPT ![r].serial = s]
Alone(r) == \A q \in Lookups \ {r} : stage[q] = "away"
Source == <<published, restarts>>
Shelf == <<held, cache>>
Floors == <<floor, floorOnDisk>>
History == <<answer, calm, saved>>

(* The source publishes a newer entry. *)
Publish ==
    /\ published < MaxSerial /\ published' = published + 1
    /\ UNCHANGED <<Shelf, Floors, stage, copy, got, History, restarts>>

Greater(a, b) == IF a > b THEN a ELSE b
Answered(c, from) ==
    answer' = IF calm THEN [now |-> c, before |-> answer.now, from |-> from,
                            most |-> Greater(answer.now, answer.most)]
                      ELSE NoAnswer

(* Catalog: what is held is recent enough, and nobody insists. *)
FromHand(r) ==
    /\ stage[r] = "away" /\ \E c \in held : Answered(c, "hand")
    /\ saved' = (saved /\ Alone(r)) /\ UNCHANGED <<Source, Shelf, Floors, stage, copy, got, calm>>

(* It is not: the lock is let go, and the source asked. *)
AskSource(r) ==
    /\ Advances(r, "away", "fetching") /\ copy' = [copy EXCEPT ![r] = held]
    /\ calm' = (calm /\ Alone(r)) /\ saved' = (saved /\ Alone(r))
    /\ UNCHANGED <<Source, Shelf, Floors, got, answer>>
Fetched(r) ==
    /\ Advances(r, "fetching", "checking")
    /\ \E s \in 0..published : got' = [got EXCEPT ![r] = [serial |-> s, from |-> "source"]]
    /\ UNCHANGED <<Source, Shelf, Floors, copy, History>>

(* The fetch fails: the copy held when the lookup began, or else the one on *)
(* disk, which is parsed like any other, or else nothing.                   *)
ServeCopy(r) ==
    /\ Advances(r, "fetching", "away") /\ \E c \in copy[r] : Answered(c, "hand")
    /\ copy' = [copy EXCEPT ![r] = NoCopy]
    /\ UNCHANGED <<Source, Shelf, Floors, got, calm, saved>>

FromDisk(r, next) ==
    /\ copy[r] = NoCopy /\ Advances(r, "fetching", next)
    /\ \E c \in cache : got' = [got EXCEPT ![r] = [serial |-> c, from |-> "disk"]]
    /\ UNCHANGED <<Source, Shelf, Floors, copy, History>>
\* Fault: the cached copy is taken as it is.
LoadUnparsed(r) == FromDisk(r, "taking")

Load(r) == FromDisk(r, "checking")
LoadFails(r) ==
    /\ copy[r] = NoCopy /\ cache = NoCopy /\ Advances(r, "fetching", "away")
    /\ UNCHANGED <<Source, Shelf, Floors, copy, got, History>>

-----------------------------------------------------------------------------
(* validItems: the serial against the floor, then the payloads, and only    *)
(* then the floor is raised; an entry that fails is left out.               *)
Fresh(r) == got[r].serial \notin Unfit \cup {Bare} /\ got[r].serial >= floor
CheckSerial(r) ==
    /\ stage[r] = "checking"
    /\ stage' = [stage EXCEPT ![r] = IF Fresh(r) THEN "raising" ELSE "taking"]
    /\ Hold(r, IF Fresh(r) THEN got[r].serial ELSE Bare)
    /\ UNCHANGED <<Source, Shelf, Floors, copy, History>>
AcceptSerial(r) ==
    /\ Advances(r, "raising", "taking")
    /\ IF got[r].serial > floor
       THEN /\ floor' = got[r].serial
            /\ \/ floorOnDisk' = floor' /\ UNCHANGED <<calm, saved>>
               \/ floorOnDisk' = floorOnDisk /\ calm' = FALSE /\ saved' = FALSE
       ELSE UNCHANGED <<Floors, calm, saved>>
    /\ UNCHANGED <<Source, Shelf, copy, got, answer>>

HandOver(r) ==
    /\ Answered(got[r].serial, got[r].from)
    /\ copy' = [copy EXCEPT ![r] = NoCopy] /\ Hold(r, Bare)

(* What was loaded is put in hand, and what was fetched is saved as well.   *)
Take(r) ==
    /\ held' = {got[r].serial} /\ UNCHANGED <<Source, cache, Floors, calm, saved>>
    /\ \/ /\ got[r].from = "source" /\ Advances(r, "taking", "caching")
          /\ UNCHANGED <<copy, got, answer>>
       \/ got[r].from = "disk" /\ Advances(r, "taking", "away") /\ HandOver(r)
(* save: two at once share one temporary file, and anything may be left.    *)
Cache(r) ==
    /\ Advances(r, "caching", "away") /\ HandOver(r)
    /\ \/ cache' = {got[r].serial} /\ UNCHANGED saved
       \/ cache' = cache /\ saved' = FALSE
       \/ ~Alone(r) /\ cache' \in {NoCopy} \cup {{got[q].serial} : q \in Lookups} /\ saved' = FALSE
    /\ UNCHANGED <<Source, held, Floors, calm>>

(* openFreshness: the daemon begins again with what is on disk. *)
Reboot ==
    /\ restarts < MaxRestarts /\ restarts' = restarts + 1
    /\ held' = NoCopy /\ floor' = floorOnDisk
    /\ stage' = [r \in Lookups |-> "away"] /\ copy' = [r \in Lookups |-> NoCopy]
    /\ got' = [r \in Lookups |-> [serial |-> Bare, from |-> "disk"]]
    /\ saved' = (saved /\ stage = stage')
    /\ UNCHANGED <<published, cache, floorOnDisk, answer, calm>>

LibraryNext ==
    \/ Publish \/ Reboot
    \/ \E r \in Lookups :
          \/ FromHand(r) \/ AskSource(r) \/ Fetched(r) \/ ServeCopy(r) \/ Load(r) \/ LoadFails(r)
          \/ CheckSerial(r) \/ AcceptSerial(r) \/ Take(r) \/ Cache(r)

LibrarySpec == LibraryInit /\ [][LibraryNext]_libraryVars
-----------------------------------------------------------------------------
(* A signed entry does not go backwards: as long as lookups do not overlap  *)
(* and the memory of serials could be written, no answer offers an entry    *)
(* older than any before it, whatever the source serves, the cache      *)
(* holds, or a restart forgets.                                             *)
ShelfGoesForward == calm /\ answer.now # Bare => answer.now >= answer.most

(* Being offline means an old catalog: if besides every catalog was cached, *)
(* what is answered without the source is what was answered last.           *)
OfflineIsTheLast == saved /\ answer.from # "source" => answer.now = answer.before

(* What is in hand was accepted. *)
HeldIsAccepted == \A c \in held : c <= floor

LibraryHolds == LibraryTypeOK /\ ShelfGoesForward /\ OfflineIsTheLast /\ HeldIsAccepted
=============================================================================
