------------------------------- MODULE Bitset --------------------------------
(***************************************************************************)
(* The bit sets in ethtool's answers, as devices() of ethtool.rs decodes   *)
(* them: link modes, features and energy-efficient modes, by name. The     *)
(* kernel has several encodings. A verbose one has an entry per bit: in a  *)
(* list an entry means that its bit is set, with a mask the entry says so  *)
(* itself. Entries may leave out the names, which then come from a         *)
(* reference set of the same answer. A compact one is a bitmap.            *)
(*                                                                         *)
(* A bit stands for its own name. Bytes have ByteBits bits.                *)
(***************************************************************************)
EXTENDS Naturals, Sequences, FiniteSets

CONSTANTS Bits,      \* how many bits there are
          ByteBits   \* bits of a byte: 8

VARIABLES
  bitsetAt,   \* "idle" or "decoded"
  wanted,     \* the bits that are set
  form,       \* the encoding
  reference,  \* the bits of the reference set that have names
  decoded     \* the names found

vars == <<bitsetAt, wanted, form, reference, decoded>>

Index == 0 .. Bits - 1
Bytes == (Bits + ByteBits - 1) \div ByteBits
-----------------------------------------------------------------------------
(* The kernel's encodings of a set. A set that is not sent has none.       *)

Forms == [kind : {"list", "mask"}, named : BOOLEAN, mask : SUBSET Index]
           \union [kind : {"compact", "absent"}, named : {FALSE}, mask : {{}}]

(* The mask covers the set; a list has no mask.                            *)
Valid(s, f) == CASE f.kind = "mask" -> s \subseteq f.mask
                 [] f.kind = "list" -> f.mask = {}
                 [] OTHER -> TRUE

Entry(i, named, value) == [index |-> i, named |-> named, value |-> value]

Encode(s, f) ==
  [list  |-> f.kind = "list",
   bits  |-> CASE f.kind = "list" -> {Entry(i, f.named, FALSE) : i \in s}
               [] f.kind = "mask" -> {Entry(i, f.named, i \in s) : i \in f.mask}
               [] OTHER -> {},
   \* the bytes of the bitmap up to the last one that is not zero
   value |-> IF f.kind = "compact" /\ s # {}
             THEN [b \in 0 .. (CHOOSE i \in s : \A j \in s : j <= i) \div ByteBits |->
                     {i % ByteBits : i \in {j \in s : j \div ByteBits = b}}]
             ELSE [b \in {} |-> {}]]
-----------------------------------------------------------------------------
(* The decoder.                                                            *)

(* Both verbose forms treated alike.                                       *)
FlagOnly(attribute, e) == e.value

(* In a list the presence of an entry selects it.                          *)
Chosen(attribute, e) == attribute.list \/ e.value

(* bitset_entries keeps named entries; selected_entry_names.               *)
SelectedNames(attribute) ==
  {e.index : e \in {d \in attribute.bits : d.named /\ Chosen(attribute, d)}}

(* The entries of bitset_names_with_reference that need no name.           *)
SelectedIndices(attribute) == {e.index : e \in {d \in attribute.bits : d.value}}

(* value.get(index / 8) has the bit index % 8.                             *)
InBitmap(attribute, i) ==
  /\ i \div ByteBits \in DOMAIN attribute.value
  /\ i % ByteBits \in attribute.value[i \div ByteBits]

(* bitset_names_with_reference                                             *)
NamesWithReference(attribute, names) ==
  IF SelectedNames(attribute) # {} THEN SelectedNames(attribute)
  ELSE IF SelectedIndices(attribute) # {}
       THEN names \intersect SelectedIndices(attribute)
       ELSE {i \in names : InBitmap(attribute, i)}

Idle == /\ bitsetAt = "idle"
        /\ wanted = {}
        /\ form = [kind |-> "absent", named |-> FALSE, mask |-> {}]
        /\ reference = {}
        /\ decoded = {}

Decode ==
  /\ bitsetAt = "idle"
  /\ wanted' \in SUBSET Index
  /\ form' \in {f \in Forms : Valid(wanted', f)}
  /\ reference' \in SUBSET Index
  /\ decoded' = NamesWithReference(Encode(wanted', form'), reference')
  /\ bitsetAt' = "decoded"

Next == Decode
Ended == bitsetAt = "decoded"
Spec == Idle /\ [][Next]_vars
-----------------------------------------------------------------------------
(* Every variable keeps its type.                                          *)
TypeOK == wanted \subseteq Index /\ reference \subseteq Index

(* The names of the bits that are set; without names in the encoding,      *)
(* those that the reference set has.                                       *)
Meant == CASE form.kind = "absent" -> {}
           [] form.named -> wanted
           [] OTHER -> wanted \intersect reference

(* A mask with or without names, a bitmap and a list with names are        *)
(* decoded to the names meant, those of the bits that are set and no other.*)
BitsetExact ==
  bitsetAt = "decoded" /\ (form.kind = "list" => form.named) => decoded = Meant

(* So is a list of entries that carry only their indices.                  *)
IndexListsNamed == bitsetAt = "decoded" /\ form.kind = "list" => decoded = Meant
=============================================================================
