------------------------------- MODULE ElfGate -------------------------------
(***************************************************************************)
(* src/src/elf64.asm: elf64_validate, which every command calls before it  *)
(* reads anything else of the file.  It looks at the identity, then at the *)
(* numbers that may be kept in section header zero, then applies the       *)
(* loader contract, and looks at the section table last.                   *)
(*                                                                         *)
(* ehdr is what the ELF header and section header zero say, beside the     *)
(* fields the contract reads from the object.                              *)
(***************************************************************************)
EXTENDS LoaderContract

CONSTANTS Ehdrs(_),       \* what the headers of an object may say
          MagicSize,      \* the bytes the magic needs: 4
          EhdrSize,       \* ELF64_EHDR_SIZE
          ShdrSize,       \* ELF64_SHDR_SIZE
          HalfMax,        \* PN_XNUM and SHN_XINDEX: 0xffff
          SHN_LORESERVE

PN_XNUM    == HalfMax
SHN_XINDEX == HalfMax

Half == 0 .. HalfMax

\* Section header zero: its carriers, and whether the rest of it is null.
NullSection == [null : BOOLEAN, size : Word, link : Word, info : Word]

IdentityFields == {"magic", "class", "data", "identVersion", "machine", "version", "ehsize"}

Ehdr == [wrong : SUBSET IdentityFields,     \* the fields without the required value
         phnum : Half, shoff : Word, shentsize : Half, shnum : Half, shstrndx : Half,
         zero : NullSection]

ASSUME GateAssumption ==
    /\ MagicSize \in Word /\ EhdrSize \in Word /\ MagicSize <= EhdrSize
    /\ ShdrSize \in Word \ {0}
    /\ HalfMax \in Word /\ SHN_LORESERVE \in 1 .. HalfMax
    /\ \A o \in Objects : \A e \in Ehdrs(o) : e \in Ehdr /\ e.phnum \in {Len(o.phdrs), PN_XNUM}

VARIABLES ehdr,
          gate,           \* how far elf64_validate is
          verdict         \* what it returned

gateVars == <<vars, ehdr, gate, verdict>>

EXIT_NOT_ELF64_X64 == 4

Zero == ehdr.zero

-----------------------------------------------------------------------------
(* The identity.                                                           *)

HeaderRight == object.fileSize >= MagicSize /\ object.fileSize >= EhdrSize /\ ehdr.wrong = {}

\* A file of another kind, as far as the checks before have let it be read.
OtherKind ==
    /\ object.fileSize >= MagicSize
    /\ \/ "magic" \in ehdr.wrong
       \/ /\ object.fileSize >= EhdrSize
          /\ \/ {"class", "data"} \cap ehdr.wrong # {}
             \/ "identVersion" \notin ehdr.wrong /\ "machine" \in ehdr.wrong

-----------------------------------------------------------------------------
(* Section header zero, with and without numbers in it.                    *)

Sentinels ==
    {s \in {"phnum", "shnum", "shstrndx"} :
        CASE s = "phnum"    -> ehdr.phnum = PN_XNUM
          [] s = "shnum"    -> ehdr.shnum = 0 /\ ehdr.shoff # 0
          [] s = "shstrndx" -> ehdr.shstrndx = SHN_XINDEX}

ReservedAsOrdinary == ehdr.shnum >= SHN_LORESERVE \/ ehdr.shstrndx >= SHN_LORESERVE

SectionsInFile(count) ==
    /\ ehdr.shentsize = ShdrSize /\ ehdr.shoff # 0
    /\ TableExtentValid(object.fileSize, ehdr.shoff, ShdrSize, count)

NoSections == ehdr.shoff = 0 /\ ehdr.shstrndx = 0

OrdinarySections ==
    /\ SectionsInFile(ehdr.shnum)
    /\ Zero = [null |-> TRUE, size |-> 0, link |-> 0, info |-> 0]
    /\ ehdr.shstrndx = 0 \/ ehdr.shstrndx < ehdr.shnum

SectionsAccepted == IF ehdr.shnum = 0 THEN NoSections ELSE OrdinarySections

\* Defect: a number may be left in a carrier whose sentinel is not there.
CarriersUnchecked == Zero.null

\* Only the carrier of an active sentinel may hold a number.
CarriersAgree ==
    /\ Zero.null
    /\ "shnum" \notin Sentinels => Zero.size = 0
    /\ "shstrndx" \notin Sentinels => Zero.link = 0
    /\ "phnum" \notin Sentinels => Zero.info = 0

SectionCount == IF "shnum" \in Sentinels THEN Zero.size ELSE ehdr.shnum

CountInItsPlace ==
    IF "shnum" \in Sentinels THEN Zero.size >= SHN_LORESERVE
    ELSE ehdr.shnum # 0 /\ ehdr.shnum < SHN_LORESERVE

ProgramHeadersInFile ==
    "phnum" \in Sentinels =>
       /\ Zero.info >= PN_XNUM
       /\ object.phentsize = PhdrSize /\ object.phoff # 0
       /\ TableExtentValid(object.fileSize, object.phoff, PhdrSize, Zero.info)

StringIndexInTable ==
    IF "shstrndx" \in Sentinels THEN Zero.link >= SHN_LORESERVE /\ Zero.link < SectionCount
    ELSE ehdr.shstrndx = 0 \/ (ehdr.shstrndx < SHN_LORESERVE /\ ehdr.shstrndx < SectionCount)

\* .validate_extended_numbering
ExtendedAccepted ==
    /\ ehdr.shentsize = ShdrSize /\ ehdr.shoff # 0
    /\ RangeEndValid(object.fileSize, ehdr.shoff, ShdrSize)
    /\ CarriersAgree
    /\ CountInItsPlace /\ SectionsInFile(SectionCount)
    /\ ProgramHeadersInFile
    /\ StringIndexInTable

-----------------------------------------------------------------------------
(* elf64_validate.                                                         *)

GateRefuses(rax) ==
    gate' = "refused" /\ verdict' = rax /\ UNCHANGED <<vars, ehdr>>

GateGoesOn(to) == gate' = to /\ UNCHANGED <<vars, ehdr, verdict>>

IdentityRefused ==
    /\ gate = "identity"
    /\ ~HeaderRight
    /\ GateRefuses(IF OtherKind THEN EXIT_NOT_ELF64_X64 ELSE EXIT_MALFORMED_ELF)

IdentityAccepted ==
    /\ gate = "identity"
    /\ HeaderRight
    /\ GateGoesOn("numbering")

ExtendedNumbering ==
    /\ gate = "numbering"
    /\ Sentinels # {}
    /\ GateRefuses(IF ExtendedAccepted THEN EXIT_UNSUPPORTED ELSE EXIT_MALFORMED_ELF)

ReservedRefused ==
    /\ gate = "numbering"
    /\ Sentinels = {} /\ ReservedAsOrdinary
    /\ GateRefuses(EXIT_MALFORMED_ELF)

OrdinaryNumbering ==
    /\ gate = "numbering"
    /\ Sentinels = {} /\ ~ReservedAsOrdinary
    /\ GateGoesOn("contract")

\* x64lens_phdr_validate_loader_contract, called from here
CallContract ==
    /\ gate = "contract"
    /\ ContractStep /\ caller' = "elf64_validate"
    /\ UNCHANGED <<ehdr, gate, verdict>>

ContractFailed ==
    /\ gate = "contract" /\ pc = "done"
    /\ GateRefuses(status)

SectionsRefused ==
    /\ gate = "contract" /\ pc = "accepted"
    /\ ~SectionsAccepted
    /\ GateRefuses(EXIT_MALFORMED_ELF)

SectionsChecked ==
    /\ gate = "contract" /\ pc = "accepted"
    /\ SectionsAccepted
    /\ GateGoesOn("passed")

\* The command goes on to phdr_analyze.
Analyze ==
    /\ gate = "passed"
    /\ ContractStep \/ HeaderStep
    /\ UNCHANGED <<ehdr, gate, verdict>>

Returned ==
    /\ gate = "refused" \/ (gate = "passed" /\ pc = "done")
    /\ UNCHANGED gateVars

GateInit ==
    /\ Init
    /\ ehdr \in Ehdrs(object)
    /\ gate = "identity" /\ verdict = EXIT_OK

GateNext ==
    \/ IdentityRefused \/ IdentityAccepted
    \/ ExtendedNumbering \/ ReservedRefused \/ OrdinaryNumbering
    \/ CallContract \/ ContractFailed \/ SectionsRefused \/ SectionsChecked
    \/ Analyze \/ Returned

GateSpec == GateInit /\ [][GateNext]_gateVars

-----------------------------------------------------------------------------
(***************************************************************************)
(* The numbers of the file, wherever they are kept.  ELF writes a number   *)
(* below its reserved domain into the header and any other into section    *)
(* header zero, and nothing else into either.                              *)
(***************************************************************************)
Kept(field, carrier, sentinel) == IF field = sentinel /\ ehdr.shoff # 0 THEN carrier ELSE field

SectionNumber == Kept(ehdr.shnum, Zero.size, 0)
ProgramNumber == Kept(ehdr.phnum, Zero.info, PN_XNUM)
StringNumber  == Kept(ehdr.shstrndx, Zero.link, SHN_XINDEX)

InHeader(number, reserved, sentinel) == IF number >= reserved THEN sentinel ELSE number
InCarrier(number, reserved)          == IF number >= reserved THEN number ELSE 0

Numbered ==
    /\ ehdr.shnum    = InHeader(SectionNumber, SHN_LORESERVE, 0)
    /\ ehdr.phnum    = InHeader(ProgramNumber, PN_XNUM, PN_XNUM)
    /\ ehdr.shstrndx = InHeader(StringNumber, SHN_LORESERVE, SHN_XINDEX)
    /\ SectionNumber = 0 <=> ehdr.shoff = 0
    /\ SectionNumber = 0 => StringNumber = 0 /\ ProgramNumber < PN_XNUM
    /\ SectionNumber # 0 =>
          /\ Zero = [null |-> TRUE,
                     size |-> InCarrier(SectionNumber, SHN_LORESERVE),
                     link |-> InCarrier(StringNumber, SHN_LORESERVE),
                     info |-> InCarrier(ProgramNumber, PN_XNUM)]
          /\ ehdr.shentsize = ShdrSize
          /\ ehdr.shoff + ShdrSize * SectionNumber <= object.fileSize
          /\ StringNumber < SectionNumber

Extended == SectionNumber >= SHN_LORESERVE \/ ProgramNumber >= PN_XNUM \/ StringNumber >= SHN_LORESERVE

Identified == ehdr.wrong = {} /\ object.fileSize >= EhdrSize

(***************************************************************************)
(* elf64_validate answers for the file as a whole.  Well-numbered files    *)
(* pass when they are ordinary and loadable, and are refused as            *)
(* unsupported when a number needs section header zero; a contradiction    *)
(* between the two places of a number is malformed and never passes for    *)
(* either; and no field of another machine's file is read further.         *)
(***************************************************************************)
GateExact ==
    /\ gate = "passed" => Identified /\ Numbered /\ ~Extended /\ Loadable
    /\ gate = "refused" =>
          /\ verdict = EXIT_UNSUPPORTED <=>
                /\ Identified /\ Numbered /\ Extended
                /\ ProgramNumber >= PN_XNUM =>
                      /\ object.phentsize = PhdrSize /\ object.phoff # 0
                      /\ object.phoff + PhdrSize * ProgramNumber <= object.fileSize
          /\ verdict = EXIT_NOT_ELF64_X64 => ehdr.wrong \cap {"magic", "class", "data", "machine"} # {}
          /\ verdict = EXIT_MALFORMED_ELF => ~(Identified /\ Numbered /\ ~Extended /\ Loadable)
          /\ verdict \in {EXIT_NOT_ELF64_X64, EXIT_MALFORMED_ELF, EXIT_UNSUPPORTED}
=============================================================================
