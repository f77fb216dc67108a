------------------------------- MODULE MCHttp -------------------------------
(* One client of each kind; the ring of four items is scaled down to one, so *)
(* that the JPEG thread meets a full one.                                    *)
EXTENDS Http
=============================================================================
