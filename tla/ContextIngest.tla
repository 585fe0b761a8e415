--------------------------- MODULE ContextIngest ---------------------------
(***************************************************************************)
(* ContextIngestor of src/context/ingest.py: files from anywhere on the    *)
(* disk are copied, linked or repaired into the workspace, file by file,   *)
(* by one build after another, whatever links the last one has left there. *)
(***************************************************************************)
EXTENDS CodeRepair

CONSTANTS
  Sources,  \* external files
  Texts,    \* what each of them may hold
  Dests,    \* paths in the workspace
  Absent,   \* the content of a file that is not there
  Configs   \* what a [context] section may ask for: sequences of entries

\* An entry, after the globs of its tree have been expanded into files.
Entries == [source : Sources, dest : Dests, python : BOOLEAN, mode : {"copy", "symlink"},
            rules : SUBSET {"remove_unused", "auto_import", "type_inference"}]

NoLink == "no link"

ASSUME IngestAssumption ==
  /\ Sources \cap Dests = {} /\ NoLink \notin Sources
  /\ \A config \in Configs : config \in Seq(Entries)
  /\ \A s \in Sources : \A text \in Texts[s] : IsText(text)

Repairs(entry) == entry.python /\ entry.rules # {}

VARIABLES
  disk,     \* content of each path
  link,     \* the source a path of the workspace is a symlink to
  entries,  \* the entries still to be ingested
  last,     \* the record of the last Python file repaired, if any
  linked,   \* history: sources some entry has asked to link, and where
  written   \* history: sources an ingestion has changed, and where it wrote

ingest_vars == <<disk, link, entries, last, linked, written>>

IngestInit ==
  /\ disk \in {[p \in Sources \cup Dests |-> IF p \in Sources THEN text[p] ELSE Absent] :
                text \in {f \in [Sources -> UNION Range(Texts)] : \A s \in Sources : f[s] \in Texts[s]}}
  /\ link = [d \in Dests |-> NoLink]
  /\ entries = <<>> /\ last = {} /\ linked = {} /\ written = {}

\* open() follows links.
Target(path) == IF path \in Dests /\ link[path] # NoLink THEN link[path] ELSE path
Content(path) == disk[Target(path)]

Write(entry, text) ==
  /\ disk' = [disk EXCEPT ![Target(entry.dest)] = text]
  /\ written' = IF Target(entry.dest) \in Sources /\ disk[Target(entry.dest)] # text
                THEN written \cup {<<Target(entry.dest), entry.dest>>} ELSE written
  /\ UNCHANGED <<link, linked>>

\* A regression: the source is repaired where it is.
RepairInPlace(entry) ==
  /\ Repairs(entry)
  /\ LET text == disk[entry.source] IN
     /\ Write([entry EXCEPT !.dest = entry.source], repair(text, entry.rules))
     /\ last' = {[read |-> text, wrote |-> repair(text, entry.rules)]}

\* dest.write_text, also when the destination is a link.
WriteRepaired(entry) ==
  /\ Repairs(entry)
  /\ LET text == disk[entry.source] IN
     /\ Write(entry, repair(text, entry.rules))
     /\ last' = {[read |-> text, wrote |-> repair(text, entry.rules)]}

\* Whatever stands at the destination is unlinked first.
Symlink(entry) ==
  /\ ~Repairs(entry) /\ entry.mode = "symlink"
  /\ link' = [link EXCEPT ![entry.dest] = entry.source]
  /\ disk' = [disk EXCEPT ![entry.dest] = Absent]
  /\ linked' = linked \cup {<<entry.source, entry.dest>>}
  /\ UNCHANGED <<last, written>>

\* shutil.copy2: SameFileError if the destination is a link to the source.
Copy(entry) ==
  /\ ~Repairs(entry) /\ entry.mode = "copy" /\ Target(entry.dest) # entry.source
  /\ Write(entry, disk[entry.source])
  /\ UNCHANGED last

\* Errors end up in the record of the file or the report, and nowhere else.
Fails(entry) ==
  \/ disk[entry.source] = Absent
  \/ ~Repairs(entry) /\ entry.mode = "copy" /\ Target(entry.dest) = entry.source

IngestFile ==
  /\ entries # <<>>
  /\ LET entry == Head(entries) IN
     \/ Fails(entry) /\ UNCHANGED <<disk, link, last, linked, written>>
     \/ ~Fails(entry) /\ (WriteRepaired(entry) \/ Symlink(entry) \/ Copy(entry))
  /\ entries' = Tail(entries)

-----------------------------------------------------------------------------

\* A repaired file compiles if the one it was made from did, and binds all the
\* names it uses that were bound in that (repair.py: "any change that would
\* break the syntax is rolled back"; remove_unused drops only imports "whose
\* bound names are never used"), whichever rules run after each other, except
\* for the layouts that are not Plain.
RepairedStillRuns ==
  \A r \in last :
    Compiles(r.read) /\ Plain(r.read) =>
      /\ Compiles(r.wrote)
      /\ BoundUses(r.read) \cap used(r.wrote) \subseteq BoundUses(r.wrote)

\* An ingestion changes a file of the user outside the workspace only through
\* a destination that an entry in symlink mode has linked to it, in this build
\* or an earlier one; the file may then be overwritten by another's text or
\* repaired in place, as nothing but symlink mode unlinks a destination.
SourcesKept == written \subseteq linked
=============================================================================
