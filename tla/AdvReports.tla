----------------------------- MODULE AdvReports -----------------------------
(***************************************************************************)
(* The loop of hci_le_get_advertising_reports over the reports of one LE   *)
(* advertising report event (Linux-en/driver_ble_rx.c lines 682-695; the   *)
(* transmitter's driver has the same), byte by byte: BleScan counts the    *)
(* reports that are passed on, this module says what is in them.           *)
(*                                                                         *)
(* The controller lays the reports out one after the other, each with its  *)
(* type, its address, the length of its data, the data and an RSSI.  The   *)
(* loop walks the bytes by what it reads of the lengths.                   *)
(***************************************************************************)
EXTENDS Naturals, Sequences, SequencesExt

CONSTANTS Bytes,      \* values a byte can have, 0 and the data lengths among them
          MaxLen,     \* longest data of a report
          MaxReports  \* most reports of an event

VARIABLES
    event,  \* the reports the controller has put into the event
    stale,  \* what is in the buffer beyond the event: bytes of an earlier one
    offset, \* where the loop takes the next report to begin
    passed  \* the scan results given to scan_callback

vars == <<event, stale, offset, passed>>

Reports == [evtType : Bytes, addr : Bytes,
            data : BoundedSeq(Bytes, MaxLen), rssi : Bytes]

\* The bytes before the data: type, type of address, address, length.
HeaderSize == 1 + 1 + 6 + 1

\* A report as the controller lays it out; of the address, the first byte.
Layout(r) ==
    <<r.evtType, 0, r.addr, 0, 0, 0, 0, 0, Len(r.data)>> \o r.data \o <<r.rssi>>

buffer == FlattenSeq([i \in DOMAIN event |-> Layout(event[i])])

At(p) == IF p \in DOMAIN buffer THEN buffer[p] ELSE stale

Init ==
    /\ event \in BoundedSeq(Reports, MaxReports)
    /\ stale \in Bytes
    /\ offset = 1
    /\ passed = <<>>

\* The scan result that the loop makes of the bytes from p on.
ScanResult(p) ==
    LET length == At(p + HeaderSize - 1)
        data   == p + HeaderSize
    IN  [evtType |-> At(p),
         addr    |-> At(p + 2),
         data    |-> [k \in 1..length |-> At(data + k - 1)],
         rssi    |-> At(data + length)]

\* One turn of the loop; the report after this one is taken to begin two
\* bytes after the last of the data.
scan_report ==
    /\ Len(passed) < Len(event)
    /\ passed' = Append(passed, ScanResult(offset))
    /\ offset' = offset + HeaderSize + At(offset + HeaderSize - 1) + 2
    /\ UNCHANGED <<event, stale>>

Spec == Init /\ [][scan_report]_vars

-----------------------------------------------------------------------------
\* What driver_adapt.h:90-102 says of a BleScanResult: it is a report of the
\* LE Advertising Report Event, its fields those of the report.
ResultsAreReports ==
    \A i \in DOMAIN passed : passed[i] = event[i]
=============================================================================
