---------------------------- MODULE MCRingBuffer ----------------------------
EXTENDS RingBuffer
MCPayloadSize == <<2, 1, 2, 1, 2>>
=============================================================================
