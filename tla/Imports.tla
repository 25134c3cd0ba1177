------------------------------ MODULE Imports ------------------------------
(***************************************************************************)
(* Importing servers from an ssh_config or a known_hosts file (Dialogs.tsx,*)
(* useImportSource and ImportConfig).  Each source is read by the core,    *)
(* from the usual place or from a file the user picks; the entries not in  *)
(* Termward yet can be ticked and imported.  Reads may overlap and be      *)
(* answered in any order; what a file holds may change between two reads.  *)
(***************************************************************************)
EXTENDS Naturals, FiniteSets

CONSTANTS
  Path,       \* files; Usual is read when none was picked
  Usual,
  Entry,      \* hosts a file may list
  NoData

\* What the constants must satisfy.
ImportsAssumption == Usual \in Path /\ NoData \notin [new: SUBSET Entry, from: Path]

Source == {"config", "known"}

VARIABLES
  from,       \* the source shown
  file,       \* for each source the file asked for
  reads,      \* reads the core has not answered; several stale ones of a file are as one
  data,       \* for each source the entries that can be imported, and the file they are from
  ticked,     \* for each source the entries ticked
  importing   \* imports under way

impVars == <<from, file, reads, data, ticked, importing>>

Fetch == [source: Source, path: Path, stale: BOOLEAN]
Data == [new: SUBSET Entry, from: Path]
Import == [source: Source, entries: SUBSET Entry, path: Path, shown: Data]

ImportsTypeOK ==
  /\ from \in Source
  /\ file \in [Source -> Path]
  /\ reads \subseteq Fetch
  /\ data \in [Source -> Data \cup {NoData}]
  /\ ticked \in [Source -> SUBSET Entry]
  /\ importing \subseteq Import

NewRead(s, p) == [source |-> s, path |-> p, stale |-> FALSE]
\* The cleanup of the effect that reads a source.
Stale(s) == {[q EXCEPT !.stale = @ \/ q.source = s] : q \in reads}

\* Both sources are read when the dialog opens.
ImportsInit ==
  /\ from = "config"
  /\ file = [s \in Source |-> Usual]
  /\ reads = {NewRead(s, Usual) : s \in Source}
  /\ data = [s \in Source |-> NoData]
  /\ ticked = [s \in Source |-> {}]
  /\ importing = {}

-----------------------------------------------------------------------------

\* The source switch, or "try known_hosts" where there are entries to import.
ShowSource(s) ==
  /\ from # s /\ from' = s
  /\ UNCHANGED <<file, reads, data, ticked, importing>>

\* A file is picked, or the usual one again: what was shown and ticked goes away and
\* the read under way becomes stale.  Picking the same file changes nothing.
\* (React shows the new path for one render before the effect clears: one step here.)
ChooseFile(p) ==
  /\ p # file[from]
  /\ file' = [file EXCEPT ![from] = p]
  /\ reads' = Stale(from) \cup {NewRead(from, p)}
  /\ data' = [data EXCEPT ![from] = NoData]
  /\ ticked' = [ticked EXCEPT ![from] = {}]
  /\ UNCHANGED <<from, importing>>

\* Mutated form of ReadAnswers: stale or not.
ReadAnswersLate(q, new) ==
  /\ q \in reads /\ reads' = reads \ {q}
  /\ data' = [data EXCEPT ![q.source] = [new |-> new, from |-> q.path]]
  /\ ticked' = [ticked EXCEPT ![q.source] = IF q.source = "config" THEN new ELSE {}]
  /\ UNCHANGED <<from, file, importing>>

\* A config lists hosts set up on purpose: the new ones are ticked.  known_hosts is a
\* history: none is.  The answer of a stale read is dropped.
ReadAnswers(q, new) ==
  /\ q \in reads /\ reads' = reads \ {q}
  /\ IF q.stale THEN UNCHANGED <<data, ticked>>
     ELSE /\ data' = [data EXCEPT ![q.source] = [new |-> new, from |-> q.path]]
          /\ ticked' = [ticked EXCEPT ![q.source] = IF q.source = "config" THEN new ELSE {}]
  /\ UNCHANGED <<from, file, importing>>

\* The error is shown in the place of the entries.
ReadFails(q) ==
  /\ q \in reads /\ reads' = reads \ {q}
  /\ UNCHANGED <<from, file, data, ticked, importing>>

\* An entry, or all of them with the box in the head of the table.
Tick(e) ==
  /\ data[from] # NoData /\ e \in data[from].new
  /\ ticked' = [ticked EXCEPT ![from] = IF e \in @ THEN @ \ {e} ELSE @ \cup {e}]
  /\ UNCHANGED <<from, file, reads, data, importing>>
TickAll ==
  /\ data[from] # NoData /\ data[from].new # {}
  /\ ticked' = [ticked EXCEPT ![from] = IF @ = data[from].new THEN {} ELSE data[from].new]
  /\ UNCHANGED <<from, file, reads, data, importing>>

\* The config is read again by the core, from the path; known hosts are sent whole.
\* (That each has a user is a matter of the form.)
Chosen == IF from = "config" THEN ticked[from]
          ELSE IF data[from] = NoData THEN {} ELSE ticked[from] \cap data[from].new
SubmitImport ==
  /\ importing = {} /\ Chosen # {}
  /\ importing' = {[source |-> from, entries |-> Chosen, path |-> file[from], shown |-> data[from]]}
  /\ UNCHANGED <<from, file, reads, data, ticked>>

\* The dialog stays after an error; after a success it closes (module Screen) and a
\* later one begins anew.
ImportFails ==
  /\ importing # {} /\ importing' = {}
  /\ UNCHANGED <<from, file, reads, data, ticked>>

ImportsNext ==
  \/ \E s \in Source : ShowSource(s)
  \/ \E p \in Path : ChooseFile(p)
  \/ \E q \in Fetch : ReadFails(q) \/ \E new \in SUBSET Entry : ReadAnswers(q, new)
  \/ \E e \in Entry : Tick(e)
  \/ TickAll \/ SubmitImport \/ ImportFails

ImportsSpec == ImportsInit /\ [][ImportsNext]_impVars

-----------------------------------------------------------------------------
(* Properties. *)

\* What is imported is what the user saw ticked, from the file it was read from: an
\* answer that comes late for another file never gets its entries imported under the
\* path chosen since (the stale flag of useImportSource, submit).
ImportsWhatWasShown ==
  \A i \in importing : i.shown # NoData /\ i.entries \subseteq i.shown.new /\ i.path = i.shown.from

=============================================================================
