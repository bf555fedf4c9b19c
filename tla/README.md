# x64lens in TLA+

`x64lens` is a static analyser for ELF64 x86-64 files written in assembly
(`src/src/*.asm`, constants and record layouts in `src/include/*.inc`), with a
tree of Python delivery tools beside it (`src/tools/*.py`). It maps a target
read-only, validates its headers, records mitigation facts, scans executable
regions for return terminators, annotates the candidates it finds and prints one
text or JSON report. The modules here state what that program promises and check
it: TLC on small instances, TLAPS for every value of the constants.

## 1. The system

### 1.1 The analyser

One process, one thread. Everything it reads comes from its argument vector and
from the mapped target; everything it keeps is in records in `.bss` or in one
anonymous mapping (the arena).

| component | source | state | operations |
|---|---|---|---|
| checked arithmetic | `bounds.asm` | none | range, range end, table extent, table entry, checked add |
| candidate arena | `arena.asm` | base, size, used | init, alloc, destroy |
| command line | `main.asm`, `cli.asm` | argument cursor, output format, depth | dispatch, parse a decimal |
| target mapping | `filemap.asm` | fd, size, address | map, unmap |
| command pipelines | `info/mitigations/gadgets/analyze.asm` | stage, status, summaries | one call per stage, report, cleanup |
| ELF identity gate | `elf64.asm` | none | validate |
| loader contract | `phdr.asm` | loop index, entrypoint flag | validate, for two callers |
| program headers | `phdr.asm`, `regions.asm` | `phdr_summary`, `executable_region[]` | one loop iteration per header |
| dynamic table | `phdr.asm`, `dynamic_metadata.asm`, `binary_role.asm` | facts, pending string references | two passes, string resolution, finalisation |
| GNU property notes | `gnu_property.asm` | carriers, contributors, features | register a carrier, parse |
| section headers | `shdr.asm` | stripped state, labels | classify, annotate |
| scanner | `scanner.asm` | `gadget_record[]`, counters | one byte of one region |
| candidate facts | `patterns`, `classifier`, `candidate_*`, `memory_effect`, `scoring` | five parallel tables | one pass per table |
| report | `report_*.asm`, `print.asm`, `analysis_summary.asm` | registers only | write(2) |
| report validator | `tools/validate-json-report.py` | none | accept or refuse one report |

Interaction is by call and by shared record. The command calls the stages in a
fixed order; a stage returns `EXIT_OK` or the code the command exits with. The
executable regions pass from the header loop to the scanner; the gadget table
passes from the scanner to every later stage; all five tables are slices of the
arena. The kernel can refuse any call, another process can truncate the target
while it is mapped, and the reader of stdout can go away.

What is hard here is not concurrency but arithmetic at the edges of the word,
limits that must refuse and never truncate, the same fact checked in two places,
failure in the middle of a pipeline that holds resources, and the promise that
nothing is printed by a command that is going to fail.

### 1.2 The delivery tools

Python programs that keep state across system calls. Each works in a directory
that other processes can reach by name, and each may be ended by a signal.

| component | source | state | operations |
|---|---|---|---|
| patch transaction | `git-patch-transaction.py` | captured identities, the scope, the handlers | apply, roll back, recover |
| diagnostic runner | `diagnostic-runner.py` | the owned stage, child processes, rows | run a campaign, publish |
| corpus builder | `build-provisional-corpus.py` | the owned stage, child processes | build, publish, `--repair-modes` |
| source recovery | `recover-candidate-source.py` | the records of staged members, the identity of the stage | admit, stage, verify, publish, roll back |
| delivery custody | `verify-delivery-custody.py` | the scanned fingerprints, the temporary and published names | scan, publish a manifest, verify |
| owned-tree removal | `remove-owned-tree.py` | held descriptors, the quarantine name | bind, quarantine, clear, remove |
| mode transactions | `normalize-tracked-permissions.py`, the corpus builder | the list of mutations | preflight, change, recheck, roll back |
| verifiers, smoke tests | the rest of `src/tools`, `benchmarks/scripts` | finished files | compare |

What is hard here is the opposite of the analyser: a name that another process
rebinds between a check and a use, a call that fails between two steps that belong
together, a signal in the middle of either, a child that survives its parent, and
recovery that has to tell what the program made from what it found.

### 1.3 Correctness, component by component

* checked arithmetic: each helper answers what unbounded arithmetic answers;
* arena: slices are aligned, apart, inside the mapping, refused only when they do
  not fit, and destroyed exactly once;
* command line: the answer to an argument vector is the one the grammar gives;
* pipelines: no output before the last fact is in, records that match the kernel,
  the first failure as exit status, an answer always;
* loader contract: accepts exactly the loadable tables, and is not contradicted by
  the loop that runs after it;
* program headers: facts that do not depend on header order, regions that are the
  executable loads;
* dynamic table: the evidence is that of the whole table whatever the order of its
  entries, unknown is never reported as absent, and ambiguous tables are refused;
* GNU property notes: no byte is evidence twice however headers overlap or repeat,
  no read leaves its carrier, and the facts do not depend on the order of headers;
* scanner: every candidate or a refusal, in order, inside its region;
* candidate facts: no pass contradicts another, and what is said of a candidate is
  what its last instructions do;
* ELF identity gate: passes exactly the files of the right kind whose numbers are
  written in one place and whose headers are loadable, and refuses every other with the
  code that says why;
* section headers: a label is the name of the sections that hold the bytes, and of no
  other; a table that cannot be read refuses the file before the scan;
* report: one document, in text or JSON, that says what the tables say, and that the
  project's validator accepts;
* patch transaction: what is reported of the tree is true, one failure or signal is
  always recovered from, and no file of another process is taken away;
* campaigns: what is published is whole and stays, what is not published leaves
  neither files nor processes, and every campaign ends;
* custody and recovery: what is attested or recovered is true of one moment, what is
  not the tool's own stays, and a failure leaves no name behind;
* mode transactions: a success is canonical, a failure is undone or says what is not.

## 2. Modules

The analyser:

| module | models | code it stands for |
|---|---|---|
| `CheckedRanges` | unsigned words (carry, wrapped sum, difference and product) and the helpers on them, as operators with the order of their tests | `bounds.asm` |
| `Arena` | init, alloc, destroy, each with its failures | `arena.asm` |
| `Primitives` | a caller of the helpers, with any arguments, and of `Arena`, in the order the commands use them | the calls of `bounds.asm`; `analyze.asm`, `gadgets.asm` |
| `CommandLine` | `_start` and `parse_u64` | `main.asm`, `cli.asm` |
| `Command` | the four commands from open(2) to exit; instantiates `Arena` | `filemap.asm`, `analyze.asm`, `gadgets.asm`, `info.asm`, `mitigations.asm`, `print.asm` |
| `Program` | composes `CommandLine` and `Command`: the process from exec to exit | `main.asm` |
| `LoaderContract` | the contract for both callers, then the header loop | `phdr.asm`, `regions.asm` |
| `ElfGate` | `elf64_validate`: identity, the numbers in the header and in section header zero, the contract, the section table | `elf64.asm` |
| `DynamicMetadata` | both passes over the table, finalisation, the string scan, the binary role; reference: what a dynamic table says, and whether it is readable | `phdr.asm` from line 537, `dynamic_metadata.asm`, `binary_role.asm` |
| `GnuPropertyEvidence` | the layout of notes and properties; reference: what the note headers of a file say, and whether they are readable | the result of the parser below |
| `GnuProperty` | registration of carriers, the note loop, the property loop, the feature states | `gnu_property.asm` |
| `Metadata` | composes `GnuProperty` and `DynamicMetadata` | `x64lens_phdr_analyze` |
| `CandidateEnumeration` | abstract: one answer, all the candidates or a refusal | what `scanner.asm` promises |
| `Scanner` | the byte scan; refines `CandidateEnumeration` | `scanner.asm` |
| `CandidateFacts` | the passes over the scanner's table, up to the completeness mark; reference: the instructions a window ends with and what executing them does | `patterns.asm`, `classifier.asm`, `candidate_*.asm`, `memory_effect.asm`, `scoring.asm`, `analysis_summary.asm` |
| `SectionLabels` | the stripped state and the refusals before the scan, the names of regions and candidates after it | `shdr.asm` |
| `Reports` | the JSON report, field by field, and the two text reports, block by block, with the escapes of strings from the file | `report_json.asm`, `report_text.asm`, `report_context.asm` |
| `ReportValidator` | what the validator accepts of the current schema; reference: what a true report says of the candidates and the headers | `validate-json-report.py` |

The delivery tools:

| module | models | code it stands for |
|---|---|---|
| `PatchTransaction` | apply and rollback, with recovery, signals, git and other processes | `git-patch-transaction.py` |
| `OwnedStage` | the staging tree: creation, publication by exchange, removal by identity, and other processes at its names | `OwnedStage` of `diagnostic-runner.py` |
| `ProcessTree` | one supervised command as the kernel sees it | subreaper, process groups, wait4, kill |
| `OwnedCampaign` | what both programs have in common: a stage, commands in it, publication or removal, one signal | `run_campaign`, `build_corpus` |
| `DiagnosticRunner`, `CorpusBuilder` | their own steps and gates, each with its supervisor of a command | `execute_process` and the gates of the runner, `run_command` and those of the builder |
| `Campaigns` | composes both, with the world, and is their finite instance | |
| `SharedNames` | a directory with four names, and other processes at them | what `rename`, `link` and `unlink` mean to the custody tools |
| `Recovery` | admission, stage, members, two verifications, publication, removal | `recover-candidate-source.py` |
| `DeliveryCustody` | scan, closure, publication of the manifest, verification, rollback | `verify-delivery-custody.py` |
| `OwnedRemoval` | removal by identity, member by member | `remove-owned-tree.py` |
| `TrackedModes` | the mode transaction over tracked or declared files | `normalize-tracked-permissions.py` |
| `CorpusModes` | the mode transaction over a generated corpus | `--repair-modes` of `build-provisional-corpus.py` |
| `Custody` | composes the last five, with other processes and one signal | |

A module whose name begins with `MC` gives a specification its finite instance, and
the `.cfg` files give values to its constants; `Primitives` needs no definitions
and `Campaigns` has its own, and both are checked as they are. `XProofs.tla` holds
the theorems about module `X` and about the modules that `X` composes; `CampaignProofs`
is about `Campaigns`, `PatchProofs` about `PatchTransaction`.

Conventions. Constants that the source names keep their names (`RegionMax` is
`EXEC_REGION_MAX`, `DepthLimit` is `GADGET_MAX_DEPTH_LIMIT`, and so on). A word is
`0 .. WordMax`, where `WordMax + 1` is two to the 64 in the program; sums and
products wrap. An operator under a comment that begins with `Defect:` or `a defect:`
is no part of a model: it is the next definition with one plausible mistake in it, kept
to show that the property it is paired with would notice.

### State and actions

*Arena.* `base`, `size`, `used` are the record; `mappings` is what the kernel
holds; `slices` remembers what was handed out and `answer` what the last call
returned. `ArenaInit…`, `ArenaAlloc…` and `ArenaDestroy` are the three routines.

*Scanner.* `region` is R11, `cursor` RDI, `records` the gadget table, `capacity`,
`retCount` and `retImmCount` the summary. One action is one iteration of the
region loop or the byte loop.

*LoaderContract.* `caller` tells the two applications of the contract apart;
`index` is RBX, `entryInLoad` the match flag on the stack, `summary` and `regions`
the two outputs. `ContractHeader` is one iteration of the contract's loop; `DataLoad`,
`ExecutableLoad`, `StackHeader`, … are one iteration of the analysis, by header type.
The parsers of dynamic tables, interpreter paths and notes are a choice between
OK and each code they return (`ContentRefused`, `MetadataRefused`).

*ElfGate.* `ehdr` is what the ELF header and section header zero say, the fields with a
required value as the set of those that are wrong. `gate` is how far `elf64_validate` is:
it passes the identity and the numbering, then makes the steps of `LoaderContract`
(`CallContract`), looks at the section table, and hands over to the analysis (`Analyze`).
`Sentinels` is the mask in EBX. The reference resolves each number to the one place it
must be written in (`SectionNumber`, `ProgramNumber`, `StringNumber`) and asks that the
header and section header zero hold exactly those numbers (`Numbered`).

*DynamicMetadata.* One action is one entry of the first pass (`TextrelEntry`,
`FlagsEntry`, … by tag) or of the second (`SonameResolved`, `SearchPathResolved`, …).
`index` is the loop counter of either pass, `summary` the dynamic part of
`phdr_summary`, `context` the record of `dynamic_metadata.asm` with its carriers,
values and byte pool. A flag word is the set of its bits; the string table is the
bytes that the first load holding all of it maps. The reference at the head of the module
says the same of the table as a whole, with sets of entries and no loop.

*GnuProperty.* One action is one header (`CarrierAdded`, `CarrierShared`, …), one note
(`NoteSkipped`, `PropertyNote`, …) or one property (`UnknownProperty`,
`FeatureProperty`). `carriers`, `contributors` and `notes` are the tables of the
context, `slot`, `cursor` and `property` the carrier slot and the two cursors of
`x64lens_gnu_property_parse`, `facts` the counts and aggregates. The search through
the carriers stops at the first one that is the same range or overlaps (`First`).
The fixed-width comparisons before each addition are `bounds.asm`, so ranges are
compared without wrapping here.

*CommandLine.* `vector` is argv; `pc` names the part of the dispatcher, `value`
and `position` are those of the number parser.

*Program.* The state of both parts, `calls` and `exit`. `CallsCommand` is the call the
dispatcher makes, for the vectors in `Followed`.

*Command.* `stage` counts the calls of `Pipeline[command]` that have returned OK;
`fileMap` is the FILEMAP record, `openFds` and `mapped` what the kernel holds;
`stdout` is what the reader got. A stage may return any code it returns in the
source. `Truncate`, `ReadBeyondEnd` and `ReaderGone` are the outside.

*PatchTransaction.* `pc` names the git command or the pass over the paths that comes
next; `before`, `parents` and `effect` are the captures of the source and
`inverseEffect` that of the inverse patch; `call` tells the three callers of
`restore_exact_tree` apart; `handlers` is what a catchable signal does now. `From` is
the tree to return to and `To` the tree to reach, so one module is both `apply_patch`
and `rollback_patch`. A file is its blob, its executable bit, who made its inode and
how many links it has: what `state_identity_equal`, `state_matches_entry` and
`state_owned_with_added_links` can tell apart. `StepFails`, `SignalRaises` and
`GitInterrupted` fail at every step; `RebindPath`, `StageForeign`, `RebindParent`,
`RebindRoot` and `ChangeElsewhere` are other processes. `rebound` remembers, for the
properties, what they changed after the last check the tool made: no program that
works with path names can see that.

*Metadata.* The state of both parts; the dynamic table is read after the note headers
are registered, then the notes are parsed. The two parts share no state, so each
dynamic file is combined with a plain list of notes and each list of note headers
with a plain table.

*CandidateFacts.* One action per pass: `MatchPatterns`, `Classify`, `GatherEvidence`,
`MapToRegions`, `RecordMemory`, `RecordEffects`, `AssignRoles`, `ApplyScores`,
`MarkComplete`. `patterns`, `semantics`, `evidence`, `memory`, `effects`, `roles` and
`scores` are the parallel tables, `counts` the counters of the summary. A pass that
contradicts an earlier one ends in EXIT_BOUNDS and nothing is reported, so what it had
written by then is left out. A register is its name. The reference is separate: `Forms`
assembles the supported instructions, `Reading` finds the one a window ends with and
`Executes` is a small machine.

*SectionLabels.* `object.sections` is what the ELF header says of the section table, with
its entries as fields; names are bytes of the image. `stripped`, `regionNames` and
`names` are what the three passes leave. `ClassifyStripped` comes before the scan and can
refuse the object; a name that cannot be trusted is only left out. `TrueLabel` is the
reference, in numbers without a width.

*Reports.* `report` is what is on standard output: a record for JSON, the sequence of its
blocks for text, printed in one step when the completeness mark is set. A field that
does not apply is `Null`. Strings from the file, which are the ones that could break the
document, are escaped byte by byte.

*ReportValidator.* `Accepts` is the validator, rule by rule; it decodes a candidate's bytes
for itself. `TrueRow` and `TruePosture` are the reference: `Reading` and `Executes` of
`CandidateFacts`, `TrueLabel` of `SectionLabels`, the headers. `ReportIsTrue` reads a
printed report back (`ToldRow`, `Unescaped`) and compares.

*OwnedStage.* `place` says where each object is, `full` which directories hold entries,
`at` where the owner is, `hid` the recorded identity of the placeholder, `rm` the
`_unlinkat_directory` call in progress, `spot` and `tries` the search of the cleanup,
`committed` the flag of the class. Every rename, open and unlink is a step.

*ProcessTree.* `main`, `kin`, `doomed`, `stubborn`, `excess` and `slow` are the kernel's:
the command, the descendants in and out of its group, who has been sent SIGKILL, who
ignores SIGTERM, which pipe is over its limit, and whether the kernel may take long.
`px`, `interrupted`, `run` and `outcome` belong to the supervisor. Deadlines are choices.

*OwnedCampaign.* `step` is where `run_campaign` or `build_corpus` is, `next` the command,
`sound` what the stage retains and still matches its record, `rows` the results,
`crash` the exception in flight.

*SharedNames.* `entry` says which object each of the four names leads to, `elsewhere` what
has another name, `bound` whether the path still leads to the open directory, `held`
the object the tool has open, `lost` what was removed without authentication.

*Recovery.* `members` are the members of the archive still to come, `tree` what the open
directory has at each path, `records` and `staged` what cleanup may remove,
`touched` and `altered` what others did.

*DeliveryCustody.* A fingerprint has the change time in it, so its comparison is the
absence of a change since it was taken (`changed`). `listed` and `seen` are the scan,
`value` the manifest as composed or read, `call` the `_unlink_owned_name` call in
progress, `instant` what the root held when the last closure began.

*OwnedRemoval.* `inside` is the tree, `todo` the listing of `clear`, `holding` the member's
descriptor. The `recycled` directory has the device and inode numbers of the tree but
not its birth time.

*TrackedModes* and *CorpusModes.* `named` says what each path leads to, `off` which objects
have a mode that is not canonical, `expected` and `drifted` what the preflight
recorded, `mutated` the mutations to undo. In `CorpusModes` every member is held open
and `stale` has the objects that changed since their change time was taken; the tree is
authenticated at four boundaries (`boundary`).

## 3. Runs

| run | question | bounds, and why they are enough |
|---|---|---|
| `primitives` | do the helpers compute what unbounded integers would? can slices overlap, leave the mapping, leak, or be refused wrongly? | four-bit words, every argument tuple: every combination of carry, high product word and limit occurs; four-byte pages, sizes and alignments that carry at each addition |
| `scanner` | is every candidate found once, in order and in its region; is what is said of it true; is the report that is printed true, and does the validator accept it? | four families. Every five-byte image of ret, ret imm16 and other bytes, seven region lists with overlap, an empty region, one past the file and one that wraps, capacities below, at and above the count. Eight-byte images that end in every family, and in bytes one bit or one byte away from it, with depths 1, 2, 3 and 5 and regions that begin before, inside and after the instructions. One image of two candidates with section tables readable and not, and every pair from 16 sections that hold both, one, or none of them, by a byte too little, with names that are absent, empty, unterminated or in need of escapes. Every posture of the headers. Both formats, both commands. A section header is one byte long |
| `program` | does every vector get the documented answer, and what does a command print, return and release when anything fails? | some 13000 vectors of up to seven words, numbers that overflow at the product, at the sum and at a later digit; four of them followed into their command, with the real table sizes, a target of up to two bytes that shrinks at any time and two writes to a report |
| `command_delivery` | does exit status 0 mean that the report was delivered? | as `program`; it does not, see section 5 |
| `loader_contract` | does `elf64_validate` pass exactly the ordinary, consistent and loadable files, refuse the others with the right code, and agree with the analysis? | four-bit words. Eight-byte files with all pairs from 24 program headers, triples for a region table of two. Files with an ELF header of four bytes and a magic of two, one to four bytes long, with every set of wrong fields. Numbers from half words up to 4 with the reserved domain from 3, in the header, in section header zero, in both or in neither, and tables that end at, before and past the end of the file |
| `metadata` | do two incremental passes end in what the table says; is every byte of notes read once, inside its carrier; do the facts not depend on order; is exactly the unreadable refused? | 16078 dynamic files: every body of up to three entries of all kinds, with and without DT_NULL, before and after the string table, two overlapping loads; some 19000 lists of note headers over files of two or three pieces out of 22 notes, broken notes and tails; each limit of either part is reached and passed. The feature type is 2, since TLC's integers have 32 bits; 0xc0000002 differs only in its order among the types |
| `patch_transaction` | is the report true, is one failure recovered, is every foreign file kept, does it end? | one path that changes and becomes executable, one that is added; two changes by others and two failures, so that recovery itself can fail and be disturbed |
| `patch_late_foreign` | is a late foreign replacement always preserved? | one change and one failure; it is not, see section 5 |
| `campaign` | is what is published whole and does it stay; does a failure leave files or processes; does every campaign end? | two commands, so that one failure can come before and after a success; one captured stream, one foreign directory, three foreign acts (away, in its place, back), two attempts of cleanup instead of 32, one signal |
| `campaign_late_signal` | can a failure keep its staging tree without a word? | as `campaign`, nobody else at work; it can, see section 5 |
| `custody` | is what is recovered or attested true; does a failure leave a name or a mode; is everything else kept; does every run end? | two foreign acts (an object moved away, another put in its place), a foreign file, tree and empty directory, one signal, every call able to fail; eleven archives with each kind of disagreement; two delivered files with two contents; two members to remove |
| `custody_absence` | does a failed `--create` always restore the prior absence? | as `custody`, nobody else at work; it does not, see section 5 |

Deadlock is checked in every run; a finished process stutters explicitly.

Fairness. Each specification is one sequential program, so weak fairness of the
program's own step is what a scheduler gives it: `ReportStep` (run `scanner`),
`ProgramStep` (`program`), `Step` (`patch_transaction`), `ProgramStep` of `Campaigns` and
`ToolStep` (`custody`). `Campaigns` adds weak fairness of `DoomedExit`: the kernel ends a
process that was sent SIGKILL; since a process in an uninterruptible wait is not ended,
`AlwaysFinishes` excepts the behaviours where the kernel is `slow`. Nothing that other
processes, readers or signals do is fair, and no liveness property needs it.
`Primitives`, `LoaderContract` and `Metadata` state safety only. `AlwaysExits` says that the process
exits or is killed by a signal, the liveness part of `EnumeratesEveryCandidate` that
the scan answers, the three others that recovery and cleanup, which call what can fail
into recovery, come to an end.

## 4. Properties and proofs

The properties are stated and explained in the modules. Each of them is broken by
one of the defects kept beside the definitions. Theorems, for every value of the
constants that satisfies the named assumptions:

* `PrimitivesProofs`: the range, table and entry helpers are exact, and an accepted
  table covers its entries. From `WordMaxAssumption` alone. The arithmetic comes first:
  a wrapped sum is smaller than its operand iff it carries, and a product whose high
  word is zero is the product. (`LoaderContractProofs` needs these lemmas too and proves
  them again: the two specifications share names and cannot be extended together.)
  Of the arena: types, separation of slices, and agreement of the record with the
  kernel. Slices are apart only because each lies below `used`, which itself never
  passes `size`, so the inductive invariant adds `SlicesBelowUsed`, `UsedFits`, and
  that a destroyed record is zero in all three words (`ZeroedTogether`).
  `AllocationsAreExact` is an action property: the aligned offset is the least
  multiple of the alignment at or above `used` (`LeastMultiple`, from division with
  remainder), so the carry checks refuse only a slice that has no place. It needs the
  largest word to be one less than a multiple of every power of two that is a word
  (`WordAssumption`, true of 2^64 - 1). `PrimitivesImplement` gives all of it to the
  client of both services.
* `ScannerProofs`: types, windows inside regions, the order of the records, and what the
  reports say of them.
  The invariant adds where the scan stands (`ScanPosition`: the cursor is inside the
  current region, which is inside the file) and that every stored record is behind
  it (`RecordsBehind`), without which order is not inductive. For the whole commands,
  and that they implement `CandidateEnumeration` (`CommandsEnumerate`, its safety part),
  `EInv` adds what has been collected (`Collected`: the candidates of the regions left and
  of the bytes passed, `ByteExact` for each of them) and what the section table has
  answered: it is accepted iff it is in the file (`TableExact`), and then no later pass
  over it can refuse, so that the answer, once given, stands. Records stored in order
  are as many as the candidates (`FoundCounted`); when the table is full, those found
  and one more are a subset of all of them. From `ScannerAssumption`, and from
  `ReportAssumption`: the addresses of a region are words, as the loader contract has it.
  That the facts of a report are those of the windows (`CommandsTellTheWindow`) is proved
  for every string of bytes. Registers and encodings are numbered, and the forms of the
  reference put into one list (`FormsByNumber`); a code has one body, since the fields of a
  move can be read back from its bytes (`FieldsMove`). The matcher tries the families in
  its order, the reference takes the longest code that begins where an instruction does:
  that both find the same is `ShapeOf`, one lemma per family, each with what the families before it have
  left out. What the reading does is computed on the small machine (`MeaningOf` and one lemma
  per instruction), and then each row says so (`Described`), and each pass accepts
  it (`Consistent`), which is what keeps two tables of facts from drifting apart. The inductive
  invariant `FInv` adds to the one of the commands that a scan which ended well has found
  candidates of accepted regions only (`Finished`), that the passes come after it (`Ready`),
  and what each of them has written (`Written`); a candidate's own region is among those it is
  attributed to because a region that holds the window gives it the address it has
  (`RegionContains`). Here `ReportAssumption` says that the file is bytes, and that the
  commands ask for at least one row and at most `GADGET_RECORD_MAX` (`analyze.asm:210`,
  `gadgets.asm:200`), the number every pass compares the table with.
  That a name is the one of the only named section of code that holds the candidate, or
  the region (`CommandsNameTheSections`), rests on three lemmas: the tests of `shdr.asm` are
  the containments they stand for, since a sum that carries is refused before it is
  compared (`HoldsExactly`); the bytes up to the first NUL of the name table are what the
  reference reads (`NameExactly`); and a table that `shdr_label_setup` accepts has no
  header that the search could fail to read (`LabelIs`, from `TableExact`), so that the
  search never gives up half way and leaves out a name. It needs the fields of a section
  header to be words.
* `ProgramProofs`: of `Command`, nothing is printed by a command that fails, the first
  failure is kept, records match the kernel, the tables always fit. `TablesAlwaysFit`
  rests on the exact value of `used` before each allocation (the sum of the tables so
  far, whose sizes keep it aligned), for which `RecordMax` must be even and the arena
  with its rounding a word (`StorageAssumption`: 4096 and 64 bits in the source).
  Of `CommandLine`, that every vector is answered as the grammar says. The dispatcher
  is a case for each number of words; the parser is a loop over digits of any number,
  and its invariant is that `value` is what the digits so far say, which is within the
  largest signed word. A digit is refused exactly when the next prefix is too large,
  and a prefix is never larger than the whole number (`ValuesGrow`), so the number is
  too large too. What a string of digits means is a recursive function;
  that it exists and has its values is proved by induction, as a least counterexample
  over the natural numbers. `ProcessInvariant` composes the two: one command, called
  after the dispatcher has decided, with the two invariants above.
* `LoaderContractProofs`: the contract accepts exactly the loadable tables. The
  invariant says what the loop knows after `index` headers (`ContractLoop`) and that
  an accepted table was loadable (`AcceptedIsLoadable`). For the gate, every step of
  `GateSpec` is a step of `LoaderContract` or leaves its variables alone
  (`GateImplementsContract`), so what is proved of the contract holds behind the gate
  (`ContractExactBehindGate`). `GateExactTheorem` adds where the gate stands
  (`GatePosition`) and what it has found by then (`GateFound`), and two lemmas, one for
  each numbering: the checks accept an ordinary file iff it is `Numbered` and not
  `Extended` (`OrdinaryExact`), and an extended one iff it is `Numbered` and `Extended`
  (`ExtendedExact`); the table whose first entry is read too early is settled by
  `FirstEntryInFile`. From `GateAssumption`: header sizes and half words are words, and
  the program headers are as many as the header says unless it says PN_XNUM.
  The analysis has an invariant of its own (`AInv`): after `index` headers the regions
  are the images of the executable loads among them, in order, and each fact of the
  summary is that of the headers seen; what each set of headers and its
  count gain by one more header is a lemma (`CountNext`). Together with the contract this gives
  `AnalysisOfTheHeaders`, and `AnalysisBehindGate` carries it to the gate.
* `MetadataProofs`: of the notes, the tables stay within their limits, no cursor leaves
  its carrier, no byte is evidence twice, and the duplicate test for notes can never
  succeed. Reads are inside because every end lies behind its start (`NoteLayout`,
  `PropertyLayout`) and the last one is compared with the carrier. Notes are apart
  because carriers are, and because each kept note lies in a carrier that is done or
  before the cursor of the current one (`NotesPlaced`), which is what makes the
  invariant inductive; nothing is kept before parsing begins (`NothingBeforeParse`).
  That the facts are those of the file, `EvidenceOfTheNotes`, and that exactly the
  readable files pass (`ReadableIsAccepted`) needs to know what every step of the parser
  has met: `EInv` says that the carriers are the views named by the headers so far
  (`RegistrationTrue`), that the kept notes and the properties met are those of the
  carriers before the cursors (`NotesTrue`, `PropertiesTrue`), and that counts and
  aggregates are those of the properties met (`FactsTrue`). The reference takes the notes
  of a carrier as a set, by a recursive definition; `ChainIs` shows that the definition
  has its values, and `ChainStep` and `ChainEnds` that a cursor which goes from one end to the next
  meets all of them in order. A count grows by one with each item because the cursor
  has not met it before.
  Of the dynamic table, `DInv` has a clause for each stretch of the analysis. `FirstTrue(n)`
  says that the counters, the flags and the carriers are those of the first `n` entries,
  `Resolved(n)` that the strings, the records and the pool are those of the search paths
  among them, and that the length of the pool is the sum of theirs; `MetNext` says what each set of
  entries gains by one more. A table that ends at DT_NULL has been read whole (`ReadWhole`),
  so the clauses for the last entry are statements about the file: the counts become the
  evidence (`Concluded`), the limits that were not passed become `Readable`. A refusal
  must give its reason there and then: two string tables are two entries of the whole table
  (`RepeatedUnreadable`), one carrier or value too many is a subset too large, and a string
  that does not fit the pool makes the sum of all too large, since sums only grow
  (`TotalsGrow`). A search path differs from the first of its family iff the family names
  two strings, and the canary is found by the scan iff some string of the table ends in it.
* `CampaignProofs`: all five safety properties of `Campaigns`, for any list of commands,
  any number of foreign directories and acts, and any number of attempts to clean up.
  `StageInv` ties the step of the owner to the step of its stage and to what the removal
  in progress was asked to remove; without the last part a removal could end in a
  commit. `Undisturbed` says where both directories are when nobody else has moved
  any, which is what `NothingLeftBehind` claims of the placeholder. `TreeInv` ties the
  supervisor to its processes: who can be alive at each step of a cleanup, and that a
  primary row was read to its end. `CInv` joins them: a commit is made of what was
  measured, with no command alive. From `ForeignAssumption`: the program's directories
  are not foreign.
* `PatchProofs`: all three safety properties of `PatchTransaction`, for any paths, any two
  trees and any number of failures, signals and foreign acts. `Settled` is the protocol
  of the status line: it is whole exactly from its last write to exit status 0, and
  signals are ignored from there. `Believed` and `Returned` say that what is reported was compared
  with the tree, and that only others changed it since; `Vetted` that what a restore
  is about to overwrite was recognized. `OneFailureRecovered` needs to know the whole state
  of a transaction nobody disturbed, wherever its one failure comes: `OnCourse` has a
  clause for each stretch of the program. From `PatchAssumption`: the trees hold files
  or nothing, and differ at every path of the patch.
* `CustodyProofs`: all six safety properties of `Custody`, for any archives, deliveries,
  member lists and number of acts by others. A run is a run of one tool, so there is an
  invariant for each, and `CustodyInv` joins them. Recovery: where the directory made
  here can be and what the tool knows of it (`OwnRoot`), and that it is the tree verified
  through its descriptor until others touch it (`TargetVerified`); that a verified tree
  is the tree of the manifest needs what lies above a path to be declared with it
  (`VerifiedIsTheTree`). Attestation: what the scan and the closure know of a file that
  has not changed since (`Scanned`, `Closed`), from which the manifest is that of one
  instant; what the tool made is where its two flags say (`FlagsTrue`), and what has been
  undone stays so or is reported (`UndoneOrSaid`). Normalization: an object whose mode is
  not as it was is in the list of the rollback, or about to be (`Listing`), and only an
  object that was seen with a wrong mode is changed (`HeldKnown`). Repair: the names led to
  what is held open (`Retained`), and the modes noted at first are those to go back to
  (`Witnessed`, `Restored`). From `RecoveryAssumption`: paths are a finite forest, of which
  no manifest declares all, so that others have a path of their own; `StrangersAssumption`:
  what others bring is a file, a tree or an empty directory; `DeliveryAssumption`: the file
  list is a sequence, and no file is called like the root or the manifest.

The theorems about `Arena`, `Command`, `CommandLine` and `LoaderContract` are carried to
`Primitives`, `Program` and `ElfGate` by theorems of those modules, and those about
`GnuProperty` and `DynamicMetadata` to `Metadata`: each of its behaviours is one of the parser
alone (`NotesAreParsedAlone`) and one of the table reader alone (`TableIsReadAlone`). The two
answers make one in `MetadataAcceptance`, because the role is classified after the last
note (`RoleIsLast`). Those about `Scanner` are carried to the commands by `ReportKeeps`: a
step of a command is one of the scan, a refusal by the section table before it, or
leaves the scanner alone (`StepShape`). `AcceptedTableTheorem`, `MappingAgrees`,
`ContractExactTheorem`, `GnuPropertyAcceptance` and `TableAcceptance` are proved and not
checked by a run, as are the type invariants of `Arena`, `Scanner`, `GnuProperty` and
`DynamicMetadata`.

Only model-checked: all liveness, that of `EnumeratesEveryCandidate` included, and
`ReportIsTrue` (the validator declares recursive operators, with which the prover cannot
work). What the report says of a candidate, its facts, its regions and the name of its
section, is proved true before it is printed; the printing and the posture are not.
Induction over the naturals is at hand, by the least counterexample; the library's
induction theorems, which take an operator, cannot be used.

## 5. Where the code and its documents disagree

`docs/contracts/output-contract.md:85`: "Silent truncation and syntactically
incomplete JSON are prohibited." `print_cstr` (`src/print.asm:49`) makes one
`write(2)` and ignores its result. A short write, a full disk or a closed stdout
therefore ends in exit status 0 with part of a report or none. Run
`command_delivery` checks `SuccessDeliversReport` and finds it violated.

`git-patch-transaction.py:788`: "A late foreign replacement or unrelated
tracked/untracked divergence is preserved and causes fail-closed recovery rather
than deletion". The starting tree is verified (line 1026) before its files are
captured (line 1033). A file replaced between the two is captured as the state
before; `git apply --check` refuses it, recovery finds it equal to the captured state
and `git restore` overwrites it. A file replaced after `_scope_safe_for_recovery` is
overwritten, or unlinked, as well. Run `patch_late_foreign` checks
`LateForeignPreserved` and finds it violated. `OnlyOwnedRemoved` is what does hold:
only captured files, and those that came after the last check, can be lost.

`docs/adr/0043-sprint11-diagnostic-integrity-correction.md:104`: "Failure paths cannot
silently retain staging state." `run_campaign` enters its exception handler with
signals unblocked and blocks them inside (`diagnostic-runner.py:2856`). A first SIGINT
or SIGTERM in between replaces the failure and skips the cleanup: the tree stays and
the message is about the interruption only. `build_corpus` has the same window. Run
`campaign_late_signal` checks `NoSilentResidue`; `NothingLeftBehind` is what holds
otherwise.

`verify-delivery-custody.py:721`: "Publish one manifest no-replace or restore the
complete prior absence." When a call fails after `_unlink_owned_name` has moved the
temporary name to its quarantine (line 769), the rollback calls it again with the
temporary name, finds nothing, and takes that for success. The object stays in the
delivered root under a random name and the message does not say so. Run
`custody_absence` checks `PriorAbsence`.

Smaller ones, seen while modelling and built into the models as the code has them:

* `recover-candidate-source.py` makes a member and records it in two steps with
  signals unblocked between them, although `docs/adr/0073` says that member creation and
  record are one; the member is then left behind. Its last `rmdir` is by name and can take an
  empty directory of another process; a stage that is replaced between `mkdir` and
  `open` is adopted.
* A signal between the return of `write_manifest_atomic` and the assignment after it
  leaves the published manifest.
* `normalize-tracked-permissions.py`: an interrupt between `os.fchmod` and
  `mutations.append` leaves a change that rollback does not know; SIGTERM has no handler
  and ends the program without rollback; a file that gets the inode of a removed one passes for it.
* `repair_corpus_modes`: a first signal between the handler's entry (line 3025) and the
  mask (line 3028) bypasses rollback, against `docs/adr/0055:60`; one during rollback is
  recorded and then discarded (line 3072).
* `patterns.asm` reports `41 5f 5e c3` as pop rsi and not as the two pops that its last
  three bytes are: those begin inside a prefixed instruction. The class of a syscall
  lists rcx and r11 as overwritten but not rax, which the effect record has.

`OneFailureRecovered` leaves two cases out. When git dies in the middle of a write, or
has lost the executable bit that normalisation was about to put back, one failure
can end in "not restored"; `OutcomeIsTrue` covers both: nothing false is reported.

The reference of `DynamicMetadata` does not ask for the search paths of a table without DT_NULL: the
code leaves their state unknown on purpose (comment at `phdr.asm:866`) and accepts
such a file even when a path starts outside the string table, whereas a SONAME is
checked in any table.

## 6. Not modelled

* Report layout: labels, commas, indentation, the digits of numbers, the text of help
  and version, and the fields that are the same in every report; the system-call
  wrappers (`print.asm` beyond its `write`). `Reports` says which fields a report has and
  what decides them, not how they are spaced. The text reports of `info` and
  `mitigations` are stages of `Command` only.
* The value types and field names that `validate-json-report.py` checks, its rules for
  the older schema 0.1.0, and the modes that compare a report with a fixture.
* The interpreter path (`phdr.asm:442`), which `LoaderContract` lets fail or not.
* Null pointers and corrupt contexts, which the routines of the analyser test and no
  caller passes; in `CandidateFacts` also the order of program-header indices and
  PATTERN_UNKNOWN.
* `atomic_publish_bytes` of `diagnostic_artifact.py`: a publication of one file on the
  lines of `DeliveryCustody`, without its rollback protocol.
* Authentication of the patch file and parsing of its paths, which come before the
  first change; `verify-applied`, which changes nothing; parsing of campaign files,
  manifests, JSON and TAR; symbolic links in the Git index; nested directories in a
  delivery (the closure treats them like files); the statistics of a campaign.
* The permission, overlay and image verifiers and the campaign scripts
  that compute on finished files in one pass; the smoke tests, which are tests.

## 7. Plan

What would add most next, in this order:

1. an all-or-nothing specification of `PatchTransaction` and `Recovery`, with the late
   foreign replacement as the only step that leaves it;
2. `atomic_publish_bytes`, and the text reports of `info` and `mitigations`;
3. the composition of `ElfGate`, `DynamicMetadata` and `Scanner` over one object, in place of
   the three runs that each choose their own.
