------------------------ MODULE MCExchangePublisher ------------------------
(* The instance of ExchangePublisher that TLC checks.                       *)
EXTENDS ExchangePublisher

=============================================================================
