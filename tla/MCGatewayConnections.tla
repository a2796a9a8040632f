------------------------ MODULE MCGatewayConnections ------------------------
EXTENDS GatewayConnections
=============================================================================
