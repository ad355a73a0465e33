---------------------------- MODULE MCForwarding ----------------------------
EXTENDS Forwarding, MCRouting

ThreeOne == <<3, 1>>
=============================================================================
