---------------------------- MODULE FrameTxWire ----------------------------
(***************************************************************************)
(* The frame transmitter between a source of frames and a wire, with three *)
(* history variables:                                                      *)
(*   job   the frame accepted last;                                        *)
(*   used  how many of its payload bytes the transmitter has taken;        *)
(*   sent  the bytes that have left for it.                                *)
(***************************************************************************)
EXTENDS FrameTx

CONSTANT Offers   \* bound: the frames the source may offer, oversized ones too

\* An offered frame says how long its payload is in two bytes.
OffersAssumption ==
  \A f \in Offers :
    /\ f \in [type : Byte, flags : TwoBytes, payload : Seq(Byte)]
    /\ Len(f.payload) < BYTE * BYTE

VARIABLES job, used, sent

wvars == <<vars, job, used, sent>>

NoJob == [type |-> 0, flags |-> <<0, 0>>, payload |-> << >>]

WInit == Init /\ job = NoJob /\ used = 0 /\ sent = << >>

\* The payload byte the source shows, when it has one.
Shown == IF used < Len(job.payload) THEN job.payload[used + 1] ELSE 0

\* A cycle in which the source offers frame f or nothing, the payload byte may
\* be late, and the wire may be busy.
WClock(frame_valid, f, payload_valid, out_ready) ==
  LET taken  == frame_valid /\ frame_ready /\ Len(f.payload) <= MAX_PAYLOAD_BYTES
      leaves == out_valid(payload_valid) /\ out_ready
  IN  /\ Clock(frame_valid, f.type, f.flags, Pair(Len(f.payload)),
               payload_valid, Shown, out_ready)
      /\ job' = IF taken THEN f ELSE job
      /\ used' = IF taken THEN 0
                 ELSE IF payload_valid /\ payload_ready(out_ready) THEN used + 1
                 ELSE used
      /\ sent' = IF taken THEN << >>
                 ELSE IF leaves THEN Append(sent, out_data(Shown)) ELSE sent

WReset == Reset /\ job' = NoJob /\ used' = 0 /\ sent' = << >>

\* The frame wires matter only when the transmitter is idle.
WNext ==
  \/ WReset
  \/ frame_ready /\ \E f \in Offers : WClock(TRUE, f, FALSE, FALSE)
  \/ \E payload_valid, out_ready \in BOOLEAN :
       WClock(FALSE, NoJob, payload_valid, out_ready)

WSpec == WInit /\ [][WNext]_wvars

----------------------------------------------------------------------------
(* Properties. *)

\* What has left for a frame is always the beginning of its encoding, CRC
\* included, however the source and the wire stall; when the transmitter is
\* idle again it is all of it, and all of the payload was taken.
EncodingSent ==
  job # NoJob =>
    /\ IsPrefix(sent, Encode(job))
    /\ state = "IDLE" => sent = Encode(job) /\ used = Len(job.payload)
=============================================================================
