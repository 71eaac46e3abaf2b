------------------------------ MODULE MCFtpClient ------------------------------
(* ftp::client without TLS and with it, on a bounded number of commands.   *)
EXTENDS FtpClient
================================================================================
