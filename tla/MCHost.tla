-------------------------------- MODULE MCHost --------------------------------
(***************************************************************************)
(* Host with two stacks, a host that is new and hosts that were set up,    *)
(* and releases and requests in which each way to a file is taken.         *)
(***************************************************************************)
EXTENDS Host

MCStackNames == {"a", "b"}
On == [enabled |-> TRUE, xray |-> TRUE, clash |-> TRUE]
XrayOnly == [On EXCEPT !.clash = FALSE]
Off == [On EXCEPT !.enabled = FALSE]
MCShapes == {XrayOnly}

All == {"xray", "mihomo", "geoip.dat", "geosite.dat"}
MCStarts == {
    [setup |-> FALSE, files |-> {}, stacks |-> <<>>, running |-> {}],
    [setup |-> TRUE, files |-> {"geoip.dat"}, stacks |-> [s \in {"a"} |-> On], running |-> {}],
    [setup |-> TRUE, files |-> All, stacks |-> [s \in MCStackNames |-> IF s = "a" THEN On ELSE Off],
     running |-> {<<"a", "xray">>, <<"a", "clash">>}]}

Member(dir, base) == [dir |-> dir, base |-> base, safe |-> TRUE]
Source(id, format, base, members) ==
    [id |-> id, remote |-> TRUE, format |-> format, base |-> base, members |-> members]
Named(source) == [mode |-> "named", at |-> <<source>>]

XrayZip == Source("xray 2", "zip", "Xray-linux-64.zip", {Member("", "xray"), Member("", "README.md")})
XrayBare == Source("bare 2", "", "xray-linux-64", {})
MihomoGz == Source("mihomo 2", "gz", "mihomo-linux-amd64.gz", {})
GeoZip == Source("geo 2", "zip", "geo.zip", {Member("", "geoip.dat"), Member("", "geosite.dat")})
GeoBare == Source("geo 1", "", "geo-1.dat", {})
GeoIPZip == [Source("geoip 3", "zip", "geoip.zip", {Member("", "geoip.dat")}) EXCEPT !.remote = FALSE]
LinkZip == Source("link 3", "zip", "xray.zip", {[Member("", "xray") EXCEPT !.safe = FALSE]})
TwoXrays == [Source("two 3", "tar", "xray.tar", {Member("old", "xray"), Member("new", "xray")})
                EXCEPT !.remote = FALSE]

MCReleases == [target \in {"mihomo", "xray", "geo"} |->
    CASE target = "mihomo" -> [t \in {<<"v", 1>>, <<"v", 2>>} |->
           <<[name |-> IF t[2] = 1 THEN "other" ELSE "similar", source |-> MihomoGz]>>]
      [] target = "xray" -> [t \in {<<"v", 2>>, <<"", 2>>} |->
           <<[name |-> "other", source |-> GeoZip],
             [name |-> "exact", source |-> IF t[1] = "v" THEN XrayZip ELSE XrayBare]>>]
      [] target = "geo" -> [t \in {<<"", 2>>, <<"v", 1>>} |->
           <<[name |-> "exact", source |-> IF t[2] = 1 THEN GeoBare ELSE GeoZip]>>]]
MCLatest == [target \in {"mihomo", "xray", "geo"} |-> IF target = "geo" THEN <<"", 2>> ELSE <<"v", 2>>]
MCConfigured == [target \in {"mihomo", "xray", "geo"} |->
    CASE target = "mihomo" -> NoRequest
      [] target = "xray" -> [NoRequest EXCEPT !.version = <<"", 2>>]
      [] target = "geo" -> [NoRequest EXCEPT !.version = <<"v", 2>>]]

MCRequests == {
    NoRequest,
    [NoRequest EXCEPT !.version = <<"v", 1>>],
    [NoRequest EXCEPT !.source = Named(GeoIPZip)],
    [NoRequest EXCEPT !.source = Named(LinkZip), !.sha256 = "link 3"],
    [NoRequest EXCEPT !.source = Named(TwoXrays), !.member = <<"new", "xray">>]}
=============================================================================
