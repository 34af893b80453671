----------------------------- MODULE MCInbounds -----------------------------
(***************************************************************************)
(* A small instance of Inbounds for TLC: every protocol and network the    *)
(* code knows, and some it does not.                                       *)
(***************************************************************************)
EXTENDS Inbounds

MCProtocols ==
    {"vmess", "trojan", "vless", "VLESS", "shadowsocks", "hysteria2", "tuic", "shadowtls",
     "anytls", "naive", "direct"}

MCLower == [p \in MCProtocols |-> IF p = "VLESS" THEN "vless" ELSE p]

MCNetworks ==
    {"tcp", "raw", "splithttp", "xhttp", "grpc", "kcp", "mkcp", "h2", "h3", "http", "ws",
     "websocket", "httpupgrade", "quic", "hysteria"}

MCShortIds == {<<>>, <<"">>, <<"", "01ab">>, <<"01ab", "">>, <<"", "", "01ab", "02cd">>}

MCFlows == {"xtls-rprx-vision", "xtls-rprx-vision-udp443", ""}

=============================================================================
