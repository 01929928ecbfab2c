-------------------------------- MODULE MCSdk --------------------------------
(* TLC instances of Client: configurations a user could write. *)
EXTENDS Client

Section(slot, enable, model, id) == [slot |-> slot, enable |-> enable, model |-> model, id |-> id]

LightId == Text(TRUE, <<0, 1, 0, 0, 0, 2, 0, 1>>)
SoundId == Text(TRUE, <<0, 2, 0, 0, 0, 1, 0, 1>>)
PtzId   == Text(TRUE, <<0, 3, 0, 0, 0, 1, 0, 1>>)

\* A light, a loudspeaker whose ID is a PTZ's, a PTZ, a second light that is off.
MCSections == << Section(1, TRUE, "HL-525", LightId),
                 Section(2, TRUE, "NETSPEAKER-V2", PtzId),
                 Section(3, TRUE, "YZ-BY010W", PtzId),
                 Section(4, FALSE, "HL-525", LightId) >>

\* Each kind of device alone, and two together.
MCFleets == {{Types.LIGHT}, {Types.SOUND}, {Types.PTZ}, {Types.LIGHT, Types.PTZ}}

\* What tool/ConfigTool.cpp writes.
MCGenerated == << Section(1, TRUE, "HL-525", LightId),
                  Section(2, TRUE, "YZ-BY010W", PtzId),
                  Section(3, TRUE, "NetSpeaker-V2", SoundId),
                  Section(4, TRUE, "TAS-IO-428R2", Text(TRUE, <<0, 4, 0, 0, 0, 1, 0, 1>>)) >>
=============================================================================
