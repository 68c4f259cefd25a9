----------------------------- MODULE BloomFilter -----------------------------
(***************************************************************************)
(* The symbol table of one library: LibraryPath's Bloom filter and hash    *)
(* set, built from the library's symbols by the first query                *)
(* (BuildBloomFilter) and read by every query after it (ContainsSymbol).   *)
(* A word of the filter is the set of its bits that are 1.                 *)
(***************************************************************************)
EXTENDS Integers, Sequences, SequencesExt

CONSTANTS SymbolNames, \* symbol names
          Hash,        \* the GNU hash of each of them
          Objects      \* symbol lists of object files; a symbol that is in
                       \* .symtab and in .dynsym is listed twice

ASSUME HashAssumption   == Hash \in [SymbolNames -> Nat]
ASSUME TablesAssumption == Objects \subseteq Seq(SymbolNames)

VARIABLES symbols,         \* the list read from the object file
          next,            \* the next of them BuildBloomFilter adds
          m_IsInitialized, m_SymbolsCount, m_BloomSize, m_BloomShift,
          m_BloomTable,    \* the words
          m_Symbols        \* the hash set

sizes == <<m_SymbolsCount, m_BloomSize, m_BloomShift>>
filterVars  == <<symbols, next, m_IsInitialized, sizes, m_BloomTable, m_Symbols>>

-----------------------------------------------------------------------------
\* GNUHash of a name's bytes, in an unsigned integer of the given width.
GNUHash(bytes, width) ==
  FoldLeft(LAMBDA h, c : (h * 33 + c) % 2^width, 5381 % 2^width, bytes)

log2u[n \in Nat] == IF n > 1 THEN 1 + log2u[n \div 2] ELSE 0

m_Bits == 64

\* ceil(-1.44 * count * log2(0.02) / 64), where -1.44 * log2(0.02) = 8.127.
BloomSize(count) == (8127 * count + 63999) \div 64000

BloomShift(count) == IF log2u[count] < 6 THEN log2u[count] ELSE 6

WordOf(hash) == (hash \div 64) % m_BloomSize

\* A faulty mask whose second bit depends on the number of symbols added.
MaskMoving(hash) == {hash % m_Bits, (hash \div 2^next) % m_Bits}

Mask(hash) == {hash % m_Bits, (hash \div 2^m_BloomShift) % m_Bits}

TestHash(hash) == Mask(hash) \subseteq m_BloomTable[WordOf(hash)]

\* An empty filter has no word to test.
MayExistSymbol(s) == m_SymbolsCount # 0 /\ TestHash(Hash[s])

TableContains(s) == MayExistSymbol(s) /\ s \in m_Symbols

-----------------------------------------------------------------------------
FilterInit ==
  /\ symbols \in Objects /\ next = 1
  /\ m_IsInitialized = FALSE
  /\ m_SymbolsCount = 0 /\ m_BloomSize = 0 /\ m_BloomShift = 0
  /\ m_BloomTable = <<>> /\ m_Symbols = {}

\* InitializeBloomFilter and ResizeTable: the table is sized once, from the
\* number of symbols read.
InitializeBloomFilter ==
  /\ ~m_IsInitialized
  /\ m_IsInitialized' = TRUE
  /\ m_SymbolsCount' = Len(symbols)
  /\ m_BloomSize' = BloomSize(Len(symbols))
  /\ m_BloomShift' = BloomShift(Len(symbols))
  /\ m_BloomTable' = [n \in 0..(BloomSize(Len(symbols)) - 1) |-> {}]
  /\ UNCHANGED <<symbols, next, m_Symbols>>

\* One turn of the loop at the end of BuildBloomFilter: AddSymbol, AddBloom.
AddSymbol ==
  /\ m_IsInitialized /\ next <= Len(symbols)
  /\ LET hash == Hash[symbols[next]]
     IN  m_BloomTable' = [m_BloomTable EXCEPT ![WordOf(hash)] = @ \cup Mask(hash)]
  /\ m_Symbols' = m_Symbols \cup {symbols[next]}
  /\ next' = next + 1
  /\ UNCHANGED <<symbols, m_IsInitialized, sizes>>

\* The filter is built and later queries only read it.
Built == m_IsInitialized /\ next > Len(symbols)
Queried == Built /\ UNCHANGED filterVars

FilterNext == InitializeBloomFilter \/ AddSymbol \/ Queried

FilterSpec == FilterInit /\ [][FilterNext]_filterVars

-----------------------------------------------------------------------------
\* The filter's fields have their types, and a filter for at least one symbol
\* has at least one word, so that WordOf never divides by zero.
FilterTypeOK ==
  /\ symbols \in Seq(SymbolNames) /\ next \in 1..(Len(symbols) + 1)
  /\ m_IsInitialized \in BOOLEAN
  /\ m_SymbolsCount \in Nat /\ m_BloomSize \in Nat /\ m_BloomShift \in 0..6
  /\ m_SymbolsCount > 0 => m_BloomSize > 0
  /\ m_BloomTable \in [0..(m_BloomSize - 1) -> SUBSET (0..63)]
  /\ m_Symbols \subseteq SymbolNames

\* The Bloom filter rules a symbol out only with certainty: a query answers
\* exactly whether the object file's list has the symbol, whatever the hash.
QueryIsExact ==
  Built => \A s \in SymbolNames : TableContains(s) <=> s \in ToSet(symbols)
=============================================================================
