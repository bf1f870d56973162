---------------------------------- MODULE MCUnits ----------------------------------
(* The units that share no state, each on its own, checked in one run: the initial
   state chooses the unit that moves. *)
EXTENDS AckDelay, BtAck, MCColour, Encoder, Logger, MCPlayback, MCPressure,
        Partition, Settings, SingleBuffer

VARIABLE unit

Units == {"ack", "delay", "colour", "encoder", "logger", "partition", "playback",
          "pressure", "settings", "buffer"}

UnitsInit ==
  /\ AckInit /\ AckDelayInit /\ ColourInit /\ EncoderInit /\ LoggerInit
  /\ PartitionInit /\ PlaybackInit /\ PressureInit /\ SettingsInit /\ SingleBufferInit
  /\ unit \in Units /\ (unit = "playback" \/ ts = <<>>)

Others(u) ==
  /\ unit = u /\ UNCHANGED unit
  /\ u = "ack"       \/ UNCHANGED ackVars
  /\ u = "delay"     \/ UNCHANGED ackDelayVars
  /\ u = "colour"    \/ UNCHANGED colourVars
  /\ u = "encoder"   \/ UNCHANGED encoderVars
  /\ u = "logger"    \/ UNCHANGED loggerVars
  /\ u = "partition" \/ UNCHANGED partitionVars
  /\ u = "playback"  \/ UNCHANGED playbackVars
  /\ u = "pressure"  \/ UNCHANGED pressureVars
  /\ u = "settings"  \/ UNCHANGED settingsVars
  /\ u = "buffer"    \/ UNCHANGED singleBufferVars

UnitsNext ==
  \/ Others("ack") /\ AckNext
  \/ Others("delay") /\ AckDelayNext
  \/ Others("colour") /\ ColourNext
  \/ Others("encoder") /\ EncoderNext
  \/ Others("logger") /\ LoggerNext
  \/ Others("partition") /\ PartitionNext
  \/ Others("playback") /\ PlaybackNext
  \/ Others("pressure") /\ PressureNext
  \/ Others("settings") /\ SettingsNext
  \/ Others("buffer") /\ SingleBufferNext

UnitsSpec ==
  UnitsInit /\ [][UnitsNext]_<<unit, ackVars, ackDelayVars, colourVars, encoderVars,
                               loggerVars, partitionVars, playbackVars,
                               pressureVars, settingsVars, singleBufferVars>>

=============================================================================
