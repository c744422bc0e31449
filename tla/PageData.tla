------------------------------- MODULE PageData -------------------------------
(***************************************************************************)
(* MemoryBlock and MemoryBlockVerifier (src/memory_block.hpp) and the byte *)
(* order of the messages (src/models/get_page.hpp).                        *)
(*                                                                         *)
(* A 32-bit word is two digits of a base instead of four bytes; swapping   *)
(* them is what htonl and ntohl do on the machines the programs run on.    *)
(***************************************************************************)
EXTENDS Integers

CONSTANTS
  PageSize,   \* bytes of a page (PAGE_SIZE)
  Strategy,   \* the filling strategy: Strategy[i] is get_value_at(i)
  Base        \* half a word

ASSUME PageDataAssumption == /\ PageSize \in Nat \ {0}
                             /\ Base \in Nat \ {0}

SUCCESS == 200
INVALID_PAGE_NUMBER == 400

Uint32 == 0..(Base * Base - 1)
Swap(n) == Base * (n % Base) + n \div Base

\* What the programs fill their block with, and check pages against.
PseudoRandomFillingStrategy == [index \in Nat |-> 170]

MemoryBlock(page_count) == [i \in 0..(PageSize * page_count - 1) |-> Strategy[i]]

Byte == 0..(PageSize - 1)
PageContent(page_count, page_number) ==
  [i \in Byte |-> MemoryBlock(page_count)[page_number * PageSize + i]]

\* The page of an error response.
ErrorContent == [i \in Byte |-> 250]

verify(page_content, page_number, page_count) ==
  /\ page_number < page_count
  /\ \A i \in Byte : page_content[i] = Strategy[page_number * PageSize + i]
=============================================================================
