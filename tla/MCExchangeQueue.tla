-------------------------- MODULE MCExchangeQueue --------------------------
EXTENDS ExchangeQueueProps
CONSTANTS j1, j2, w1, w2
=============================================================================
