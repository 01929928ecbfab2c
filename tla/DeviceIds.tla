------------------------------ MODULE DeviceIds ------------------------------
(***************************************************************************)
(* The 32-bit numbers that name devices (src/device/DeviceID.h): eight     *)
(* bits of type, sixteen of model, eight of index; and how the text of an  *)
(* ID in the configuration becomes one (strtoul).                          *)
(***************************************************************************)
EXTENDS Integers, Sequences, FiniteSets

(* Layout. *)
MakeOID(type, model) == type * 2^24 + model * 2^8
GetOID(id)   == id - (id % 2^8)
GetIndex(id) == id % 2^8
GetType(id)  == id \div 2^24

Types == [LIGHT |-> 1, SOUND |-> 2, PTZ |-> 3, ULTRASONIC |-> 4]

(* The classes the factory can make, and their IDs. *)
Classes == [ Light_HL_525_4W         |-> MakeOID(Types.LIGHT, 2),
             Sound_NetSpeaker_V2     |-> MakeOID(Types.SOUND, 1),
             PTZ_YZ_BY010W           |-> MakeOID(Types.PTZ, 1),
             Ultrasonic_TAS_IO_428R2 |-> MakeOID(Types.ULTRASONIC, 1) ]

(* g_ModelToIDMap: the model names a configuration may use. *)
Models == {"HL-525", "YZ-BY010W", "NETSPEAKER-V2"}

OIDOfModel(model) ==
  CASE model = "HL-525"        -> Classes.Light_HL_525_4W
    [] model = "YZ-BY010W"     -> Classes.PTZ_YZ_BY010W
    [] model = "NETSPEAKER-V2" -> Classes.Sound_NetSpeaker_V2

(* The text of an ID: whether it begins with 0x, and its digits. *)
Text(prefixed, digits) == [prefixed |-> prefixed, digits |-> digits]

(* The number a digit sequence stands for: digits that do not belong to the
   base, and all behind them, are ignored. *)
Numeral(digits, base) ==
  LET valid == {n \in 0..Len(digits) : \A i \in 1..n : digits[i] < base}
      value[n \in 0..Len(digits)] ==
        IF n = 0 THEN 0 ELSE value[n - 1] * base + digits[n]
  IN value[CHOOSE n \in valid : \A m \in valid : m <= n]

(* strtoul: base 0 asks the text itself - 0x is hexadecimal, a leading 0 octal. *)
Strtoul(text, base) ==
  Numeral(text.digits,
          IF base # 0 THEN base
          ELSE IF text.prefixed THEN 16
          ELSE IF text.digits[1] = 0 THEN 8 ELSE 10)
=============================================================================
