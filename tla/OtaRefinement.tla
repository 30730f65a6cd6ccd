--------------------------- MODULE OtaRefinement ---------------------------
(***************************************************************************)
(* OtaHandle implements OtaDownload: the collected image is what the flash *)
(* partition holds below file_write_size, and the download is done while   *)
(* can_rx_thread waits to restart the board.                               *)
(***************************************************************************)
EXTENDS OtaHandle

Collected == [i \in 1 .. written |-> flash[i - 1]]

Download == INSTANCE OtaDownload WITH
    open <- ota_start_flag = 1 \/ pc = "erasing",
    image <- Collected,
    size <- file_total_size,
    crc <- file_crc16,
    done <- pc = "delay"

\* Every behaviour of the handlers, the flash and the timers is a behaviour of
\* the promised download: each step appends one block exactly as received, or
\* starts over, or changes nothing the promise is about (ota_handle.c:120-204).
ImplementsDownload == Download!Spec
=============================================================================
