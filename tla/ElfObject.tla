------------------------------ MODULE ElfObject ------------------------------
(***************************************************************************)
(* A query to a library that is an ELF file: first the filter the linker   *)
(* left in its .gnu.hash section, which covers the exported symbols only,  *)
(* and then LibraryPath's own filter and table, which the first query that *)
(* gets that far builds.                                                   *)
(***************************************************************************)
EXTENDS BloomFilter

CONSTANT Sections   \* the shapes of a .gnu.hash section: see NoSection

\* bits: of an address in the file, 32 or 64; maskWords: of the filter.
NoSection == [bits |-> 64, maskWords |-> 0, shift2 |-> 0]

VARIABLES section,   \* the shape of the file's section
          exported   \* the symbols it was made for

elfVars == <<filterVars, section, exported>>

-----------------------------------------------------------------------------
\* The linker puts two bits into one word for every exported symbol.
LinkerWord(hash) == (hash \div section.bits) % section.maskWords
LinkerBits(hash) == {hash % section.bits, (hash \div 2^section.shift2) % section.bits}
GnuHashWord(n)   == UNION {LinkerBits(Hash[s]) : s \in {e \in exported : LinkerWord(Hash[e]) = n}}

\* A bug: the word of a 32-bit file is computed as that of a 64-bit one.
MayExistAs64Bits(hash) ==
  \/ section.maskWords = 0
  \/ LET n == (hash \div 64) % section.maskWords
     IN  {hash % section.bits, (hash \div 2^section.shift2) % section.bits} \subseteq GnuHashWord(n)

\* The word that is read is 64 bits wide in a 32-bit file too; what follows the
\* 32 bits of the word is never tested.
MayExistInElfObjectFile(hash) ==
  \/ section.maskWords = 0
  \/ LET n    == (hash \div section.bits) % section.maskWords
         next32 == IF section.bits = 32 /\ n + 1 < section.maskWords
                   THEN {32 + b : b \in GnuHashWord(n + 1)} ELSE {}
         word == GnuHashWord(n) \cup next32
         mask == {hash % section.bits, (hash \div 2^section.shift2) % section.bits}
     IN  mask \subseteq word

\* Dyld::ContainsSymbol, once the table is built.
FileContains(s) == MayExistInElfObjectFile(Hash[s]) /\ TableContains(s)

-----------------------------------------------------------------------------
ElfInit ==
  /\ FilterInit
  /\ section \in Sections
  /\ exported \in IF section = NoSection THEN {{}} ELSE SUBSET ToSet(symbols)

\* The first query for a symbol that .gnu.hash does not rule out.
BuildForQuery(s) == MayExistInElfObjectFile(Hash[s]) /\ InitializeBloomFilter

\* A query that ends at .gnu.hash.
RuledOut(s) == ~MayExistInElfObjectFile(Hash[s]) /\ UNCHANGED filterVars

ElfNext ==
  /\ \/ \E s \in SymbolNames : BuildForQuery(s) \/ RuledOut(s)
     \/ AddSymbol
     \/ Queried
  /\ UNCHANGED <<section, exported>>

ElfSpec == ElfInit /\ [][ElfNext]_elfVars

-----------------------------------------------------------------------------
\* No filter loses an exported symbol: the linker's lets every one through,
\* in 32-bit and in 64-bit files, so that a query for it builds the table, and
\* then finds it; a symbol the file does not have is never found.
ExportedIsFound ==
  /\ \A s \in exported : MayExistInElfObjectFile(Hash[s]) /\ (Built => FileContains(s))
  /\ \A s \in SymbolNames : Built /\ FileContains(s) => s \in ToSet(symbols)

\* No filter of an ELF file, the linker's or the library's own, loses a symbol
\* the file exports, at either word size, and neither divides by zero
\* (MayExistInElfObjectFile and MayExistSymbol).
FiltersExact == FilterTypeOK /\ ExportedIsFound
=============================================================================
