---------------------------- MODULE LocoFunctions ----------------------------
(* The encoding of locomotive functions, DCCpp_utils.cpp.  CDM-Rail keeps    *)
(* the functions F0..F12 of a locomotive as bits 0..12 of one word and asks  *)
(* for one of three groups of them with a mask; the command station wants    *)
(* the operand of an <f addr value> command, in which the group is encoded.  *)
EXTENDS Integers

MaskF0F4  == 31      \* 0x001F
MaskF5F8  == 480     \* 0x01E0
MaskF9F12 == 7680    \* 0x1E00
FunctionMasks == {MaskF0F4, MaskF5F8, MaskF9F12}

(* size consecutive values of n counted in steps of unit: with powers of two, *)
(* the bits of n above unit, log2(size) of them, moved down to bit 0.         *)
Bits(n, unit, size) == (n \div unit) % size

(* getLocoFuncValue: F0 is bit 4 of its group and F1..F4 are bits 0..3, the  *)
(* other groups keep their order; the high bits name the group.              *)
getLocoFuncValue(funcValue, funcMask) ==
  CASE funcMask = MaskF0F4  -> Bits(funcValue, 2, 16) + 16 * Bits(funcValue, 1, 2) + 128
    [] funcMask = MaskF5F8  -> Bits(funcValue, 32, 16) + 176
    [] funcMask = MaskF9F12 -> Bits(funcValue, 512, 16) + 160
    [] OTHER                -> 0
=============================================================================
