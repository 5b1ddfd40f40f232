------------------------ MODULE MCUartFramePipeline ------------------------
(* UartFramePipelineWire with frames of one and two bytes.  A frame is   *)
(* answered with a byte more; one frame, which the host does not send, is *)
(* dropped.                                                               *)
EXTENDS UartFramePipelineWire

MCIsFrame(bytes) == bytes # << >> /\ Len(bytes) = Head(bytes)
MCAnswer(f) == IF f = <<2, 2>> THEN << >> ELSE Append(f, 1)
MCFrames == {<<1>>, <<2, 1>>}
=============================================================================
